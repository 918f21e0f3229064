--------------------------- MODULE SchemaBootstrap ---------------------------
(***************************************************************************)
(* The schemas registration depends on: the repair of the users table and  *)
(* of the tenant template at start and on demand (backend/app/db/          *)
(* bootstrap.py), the databases that registrations clone meanwhile, and    *)
(* the tool that migrates them (scripts/migrate_tenants.py).               *)
(*                                                                         *)
(* A step is one statement or one connection.  Any of them may fail, and   *)
(* a process may stop anywhere; PostgreSQL then releases its lock.         *)
(* What /health caches of it is left out.                                  *)
(***************************************************************************)
CONSTANTS
    Process,   \* calls of run_bootstrap_with_retry
    Healer,    \* registrations that call ensure_tenant_template
    Tenant,
    None       \* no process

VARIABLES
    users,     \* the users table exists
    template,  \* the template database: "none", "empty" or "full" (has its schema)
    marked,    \* datistemplate
    lock,      \* who has the advisory lock
    place,     \* where each call is
    seen,      \* what check_schema told it
    created,   \* it created the template database itself
    label,     \* what the bootstrap returned
    accounts,  \* tenants in the users table
    database,  \* the tenants' databases: "none", "empty" or "full"
    tool,      \* where migrate_tenants is
    todo,      \* targets it has not come to
    there,     \* history: targets whose database is the one of its start
    failed     \* targets it could not migrate

repairVars == <<users, template, marked, lock, place, seen, created, label>>
tenantVars == <<accounts, database, tool, todo, there, failed>>
schemaVars == <<repairVars, tenantVars>>

Caller == Process \cup Healer

Init ==
    /\ users \in BOOLEAN /\ marked = FALSE
    /\ template \in {"none", "empty"}
    /\ lock = None
    /\ place = [p \in Caller |-> IF p \in Process THEN "check" ELSE "lock"]
    /\ seen = [p \in Caller |-> [users |-> FALSE, template |-> FALSE, marked |-> FALSE]]
    /\ created = [p \in Caller |-> FALSE]
    /\ label = [p \in Caller |-> "none"]
    /\ accounts = {}
    /\ database = [t \in Tenant |-> "none"]
    /\ tool = "ready" /\ todo = {} /\ there = {} /\ failed = {}

Go(p, next) == place' = [place EXCEPT ![p] = next]

-----------------------------------------------------------------------------
(* bootstrap_once *)

CheckSchema == [users |-> users, template |-> template # "none", marked |-> marked]

StatusLabel(s) ==
    IF ~s.users THEN "missing_users"
    ELSE IF ~s.template THEN "missing_tenant_template" ELSE "ok"

Return(p, l) ==
    /\ Go(p, "ended")
    /\ label' = [label EXCEPT ![p] = l]

\* The first look; without SQL files its verdict is the answer.
Check(p) ==
    /\ place[p] = "check"
    /\ seen' = [seen EXCEPT ![p] = CheckSchema]
    /\ LET s == CheckSchema
           ready == s.users /\ s.template /\ s.marked
       IN  \/ Return(p, StatusLabel(s))    \* ready, or no SQL files
           \/ /\ ~ready
              /\ Go(p, IF s.users THEN "lock" ELSE "main")
              /\ UNCHANGED label
    /\ UNCHANGED <<users, template, marked, lock, created, tenantVars>>

\* ensure_main_schema: every statement of it says IF NOT EXISTS.
MainSchema(p) ==
    /\ place[p] = "main"
    /\ users' = TRUE
    /\ Go(p, IF seen[p].template /\ seen[p].marked THEN "final" ELSE "lock")
    /\ UNCHANGED <<template, marked, lock, seen, created, label, tenantVars>>

FinalCheck(p) ==
    /\ place[p] = "final"
    /\ Return(p, StatusLabel(CheckSchema))
    /\ UNCHANGED <<users, template, marked, lock, seen, created, tenantVars>>

\* The server does not answer: once more, or not; any other error ends it.
\* Leaving closes the connection, and with it the lock goes.
GiveUp(p) ==
    /\ place[p] # "ended"
    /\ lock' = IF lock = p THEN None ELSE lock
    /\ created' = [created EXCEPT ![p] = FALSE]
    /\ \/ p \in Process /\ Go(p, "check") /\ UNCHANGED label
       \/ Go(p, "ended") /\ label' = [label EXCEPT ![p] = "unknown"]
    /\ UNCHANGED <<users, template, marked, seen, tenantVars>>

-----------------------------------------------------------------------------
(* ensure_tenant_template *)

Lock(p) ==
    /\ place[p] = "lock"
    /\ lock = None
    /\ lock' = p
    /\ Go(p, "look")
    /\ UNCHANGED <<users, template, marked, seen, created, label, tenantVars>>

\* Wrong on purpose: a template database that is there is taken for a good one.
LookTrusts(p) ==
    /\ place[p] = "look"
    /\ Go(p, IF template = "none" THEN "create" ELSE "mark")
    /\ UNCHANGED <<users, template, marked, lock, seen, created, label, tenantVars>>

\* Is it there, and does it have its schema?
Look(p) ==
    /\ place[p] = "look"
    /\ Go(p, IF template = "none" THEN "create"
             ELSE IF template = "empty" THEN "apply" ELSE "mark")
    /\ UNCHANGED <<users, template, marked, lock, seen, created, label, tenantVars>>

Create(p) ==
    /\ place[p] = "create"
    /\ template' = "empty"
    /\ created' = [created EXCEPT ![p] = TRUE]
    /\ Go(p, "apply")
    /\ UNCHANGED <<users, marked, lock, seen, label, tenantVars>>

\* _apply_sql is one implicit transaction; a failure takes back the creation.
Apply(p) ==
    /\ place[p] = "apply"
    /\ \/ template' = "full" /\ Go(p, "mark")
       \/ created[p] /\ template' = "none" /\ Go(p, "failed")
    /\ created' = [created EXCEPT ![p] = FALSE]
    /\ UNCHANGED <<users, marked, lock, seen, label, tenantVars>>

\* Without the privilege it is left unmarked.
Mark(p) ==
    /\ place[p] = "mark"
    /\ marked' \in {marked, TRUE}
    /\ Go(p, "unlock")
    /\ UNCHANGED <<users, template, lock, seen, created, label, tenantVars>>

Unlock(p) ==
    /\ place[p] = "unlock"
    /\ lock' = None
    /\ Go(p, IF p \in Process THEN "final" ELSE "ended")
    /\ UNCHANGED <<users, template, marked, seen, created, label, tenantVars>>

-----------------------------------------------------------------------------
(* Registrations, seen from here *)

Enrol(t) ==
    /\ users /\ t \notin accounts
    /\ accounts' = accounts \cup {t}
    /\ UNCHANGED <<repairVars, database, tool, todo, there, failed>>

\* CREATE DATABASE ... TEMPLATE, whatever the template has by now.
Clone(t) ==
    /\ t \in accounts /\ database[t] = "none" /\ template # "none"
    /\ database' = [database EXCEPT ![t] = template]
    /\ UNCHANGED <<repairVars, accounts, tool, todo, there, failed>>

\* A registration that failed is taken back.
Withdraw(t) ==
    /\ t \in accounts
    /\ accounts' = accounts \ {t} /\ there' = there \ {t}
    /\ database' = [database EXCEPT ![t] = "none"]
    /\ UNCHANGED <<repairVars, tool, todo, failed>>

-----------------------------------------------------------------------------
(* migrate_tenants *)

ListTenants ==
    /\ tool = "ready" /\ users
    /\ tool' = "migrate" /\ todo' = accounts
    /\ there' = {t \in accounts : database[t] # "none"}
    /\ UNCHANGED <<repairVars, accounts, database, failed>>

\* Wrong on purpose: a failed upgrade is only logged.
MigrateLogs(t) ==
    /\ tool = "migrate" /\ t \in todo
    /\ todo' = todo \ {t}
    /\ database' \in {database, [database EXCEPT ![t] = IF @ = "none" THEN @ ELSE "full"]}
    /\ UNCHANGED <<repairVars, accounts, tool, there, failed>>

\* A missing database is skipped; alembic's revisions say IF NOT EXISTS, and
\* one that fails, or whose database is dropped under it, is remembered.
Migrate(t) ==
    /\ tool = "migrate" /\ t \in todo
    /\ todo' = todo \ {t}
    /\ \/ database[t] = "none" /\ UNCHANGED <<database, failed>>
       \/ /\ database[t] # "none"
          /\ database' = [database EXCEPT ![t] = "full"] /\ UNCHANGED failed
       \/ failed' = failed \cup {t} /\ UNCHANGED database
    /\ UNCHANGED <<repairVars, accounts, tool, there>>

Exit ==
    /\ tool = "migrate"
    /\ \/ todo = {} /\ tool' = IF failed = {} THEN "succeeded" ELSE "failed"
       \/ tool' = "failed"     \* stopped
    /\ UNCHANGED <<repairVars, accounts, database, todo, there, failed>>

Next ==
    \/ \E p \in Caller :
        \/ Check(p) \/ MainSchema(p) \/ FinalCheck(p) \/ GiveUp(p)
        \/ Lock(p) \/ Look(p) \/ Create(p) \/ Apply(p) \/ Mark(p) \/ Unlock(p)
    \/ \E t \in Tenant : Enrol(t) \/ Clone(t) \/ Withdraw(t) \/ Migrate(t)
    \/ ListTenants \/ Exit

Spec == Init /\ [][Next]_schemaVars

-----------------------------------------------------------------------------
(* Properties *)

Holding == {"look", "create", "apply", "failed", "mark", "unlock"}
Schema == {"none", "empty", "full"}
Labels == {"none", "ok", "missing_users", "missing_tenant_template", "unknown"}

TypeOK ==
    /\ users \in BOOLEAN /\ marked \in BOOLEAN /\ template \in Schema
    /\ lock \in Caller \cup {None}
    /\ place \in [Caller -> Holding \cup {"check", "main", "lock", "final", "ended"}]
    /\ seen \in [Caller -> [users : BOOLEAN, template : BOOLEAN, marked : BOOLEAN]]
    /\ created \in [Caller -> BOOLEAN]
    /\ label \in [Caller -> Labels]
    /\ accounts \subseteq Tenant /\ database \in [Tenant -> Schema]
    /\ tool \in {"ready", "migrate", "succeeded", "failed"}
    /\ todo \subseteq Tenant /\ there \subseteq Tenant /\ failed \subseteq Tenant

\* Repairs in several processes never collide: a template is created only
\* where there is none, marked only when it is complete, and who went through
\* the repair left a complete one behind, also after others stopped half-way.
RepairsWork ==
    /\ \A p \in Caller : place[p] \in Holding <=> lock = p
    /\ \A p \in Caller : place[p] = "create" => template = "none"
    /\ \A p \in Caller : place[p] \in {"mark", "unlock"} => template = "full"
    /\ \A p \in Process : place[p] = "final" => template = "full" /\ users
    /\ marked => template = "full"

\* A migration that reports success leaves no incomplete database behind of
\* those that were there when it started, those included that a registration
\* cloned from a template under repair.
MigrationIsComplete ==
    tool = "succeeded" => \A t \in there : database[t] = "full"

SchemaSound == TypeOK /\ RepairsWork /\ MigrationIsComplete
=============================================================================
