------------------------------ MODULE PartsProofs ------------------------------
(***************************************************************************)
(* What registration, the schema repair, the sign-in tasks, their history  *)
(* and their scans, the question bank and the task feed guarantee for any  *)
(* requests, servers, users, records, courses, threads, tokens and tasks.  *)
(*                                                                         *)
(* Each section has the inductive invariant of one part, the lemmas that   *)
(* its steps keep it, and the theorem; the other parts rest meanwhile.     *)
(***************************************************************************)
EXTENDS MCParts, FiniteSetTheorems, SequenceTheorems, TLAPS

-----------------------------------------------------------------------------
(* Registration *)

\* The row of a name is that of a request for the name.
RowsNamed == \A n \in Name : row[n] # None => name[row[n]] = n

\* From its insert until its row is deleted, a request owns the row.
OwnsRow ==
    \A r \in Request : pc[r] \in Creating \cup {"undo_row", "done"} => Own(r, row)

\* A row that outlives its request was not cleaned up.
RowAccounted ==
    \A r \in Request : Own(r, row) =>
        \/ pc[r] \in Creating \cup {"undo_row", "done"}
        \/ pc[r] \in {"undo_db", "failed"} /\ r \in unclean

\* A database that outlives its request was not cleaned up either.
DbAccounted ==
    \A r \in Request : Own(r, db) =>
        \/ pc[r] \in {"undo_row", "undo_db", "done"}
        \/ pc[r] = "failed" /\ r \in unclean

\* The inductive invariant of registration.
RegistrationInv == TypeOK /\ RowsNamed /\ OwnsRow /\ RowAccounted /\ DbAccounted

LEMMA RegistrationStarts == Init => RegistrationInv
  BY NoneAssumption, RetriesAssumption
  DEF Init, RegistrationInv, TypeOK, RowsNamed, OwnsRow, RowAccounted, DbAccounted, Own, Creating

\* A step of one request.
LEMMA RequestStepKeeps ==
  ASSUME RegistrationInv, NEW r \in Request, Step(r)
  PROVE  RegistrationInv'
<1> USE NoneAssumption, RetriesAssumption DEF RegistrationInv, Own, Creating, Go
<1>1. TypeOK'
  BY DEF TypeOK, Step, Insert, InsertRefused, InsertUnanswered, Create, CreateDuplicate,
         DropOrphan, TryLater, CreateFails, UndoRow, UndoDb
<1>2. UNCHANGED name
  BY DEF Step, Insert, InsertRefused, InsertUnanswered, Create, CreateDuplicate,
         DropOrphan, TryLater, CreateFails, UndoRow, UndoDb
<1>3. CASE Insert(r)
  BY <1>1, <1>3 DEF Insert, TypeOK, RowsNamed, OwnsRow, RowAccounted, DbAccounted
<1>4. CASE InsertRefused(r)
  BY <1>1, <1>4 DEF InsertRefused, TypeOK, RowsNamed, OwnsRow, RowAccounted, DbAccounted
<1>5. CASE InsertUnanswered(r)
  BY <1>1, <1>5 DEF InsertUnanswered, TypeOK, RowsNamed, OwnsRow, RowAccounted, DbAccounted
<1>6. CASE Create(r)
  BY <1>1, <1>6 DEF Create, TypeOK, RowsNamed, OwnsRow, RowAccounted, DbAccounted
<1>7. CASE CreateDuplicate(r) \/ TryLater(r) \/ CreateFails(r)
  BY <1>1, <1>7 DEF CreateDuplicate, TryLater, CreateFails, TypeOK, RowsNamed, OwnsRow,
                    RowAccounted, DbAccounted
<1>8. CASE DropOrphan(r)
  BY <1>1, <1>8 DEF DropOrphan, TypeOK, RowsNamed, OwnsRow, RowAccounted, DbAccounted
<1>9. CASE UndoRow(r)
  BY <1>1, <1>9 DEF UndoRow, TypeOK, RowsNamed, OwnsRow, RowAccounted, DbAccounted
<1>10. CASE UndoDb(r)
  BY <1>1, <1>10 DEF UndoDb, TypeOK, RowsNamed, OwnsRow, RowAccounted, DbAccounted
<1>11. QED
  BY <1>3, <1>4, <1>5, <1>6, <1>7, <1>8, <1>9, <1>10 DEF Step

THEOREM RegistrationInvariance == Spec => []RegistrationInv
<1>1. RegistrationInv /\ [Next]_vars => RegistrationInv'
  <2> SUFFICES ASSUME RegistrationInv, [Next]_vars PROVE RegistrationInv'
    OBVIOUS
  <2>1. ASSUME Crash PROVE RegistrationInv'
    BY <2>1 DEF Crash, Over, RegistrationInv, TypeOK, RowsNamed, OwnsRow, RowAccounted, DbAccounted, Own,
                Creating
  <2>2. ASSUME UNCHANGED vars PROVE RegistrationInv'
    BY <2>2 DEF vars, RegistrationInv, TypeOK, RowsNamed, OwnsRow, RowAccounted, DbAccounted, Own, Creating
  <2>3. QED
    BY <2>1, <2>2, RequestStepKeeps DEF Next
<1>2. QED
  BY RegistrationStarts, <1>1, PTL DEF Spec

\* register_user never answers two requests for one name, and the account it
\* answered keeps its row.
THEOREM AccountsKept == Spec => []AccountKept
<1>1. RegistrationInv => AccountKept
  BY DEF RegistrationInv, OwnsRow, AccountKept
<1>2. QED
  BY <1>1, RegistrationInvariance, PTL

\* What _create_tenant_database drops to make room belongs to no account: the
\* UNIQUE constraint on the name is enough for that.
THEOREM OrphansDropped == Spec => []OnlyOrphansDropped
<1>1. RegistrationInv => OnlyOrphansDropped
  BY DEF RegistrationInv, OwnsRow, OnlyOrphansDropped, Own, Creating
<1>2. QED
  BY <1>1, RegistrationInvariance, PTL

\* A failed registration leaves no row and no database of its own, unless its
\* clean-up failed or was cut off.
THEOREM CleanFailure == Spec => []FailureLeavesNothing
<1>1. RegistrationInv => FailureLeavesNothing
  BY DEF RegistrationInv, RowAccounted, DbAccounted, FailureLeavesNothing, Creating
<1>2. QED
  BY <1>1, RegistrationInvariance, PTL

\* register_user answers with an account that lasts, or leaves nothing of it.
THEOREM RegistrationIsSound == Spec => []RegistrationSound
<1>1. AccountKept /\ FailureLeavesNothing => RegistrationSound
  BY DEF RegistrationSound
<1>2. QED
  BY <1>1, AccountsKept, CleanFailure, PTL

\* A behaviour of the parts is one of registration, which may rest in it.
THEOREM PartsRegister == PartSpec => Spec
<1>1. PartInit => Init
  BY DEF PartInit
<1>2. [PartNext]_partsVars => [Next]_vars
  BY DEF PartNext, RestOf, partsVars
<1> QED
  BY <1>1, <1>2, PTL DEF PartSpec, Spec

-----------------------------------------------------------------------------
(* The schema repair and the migration tool *)

\* Whoever is in the repair holds the advisory lock.
LockHeld == \A p \in Schema!Caller : schemaPlace[p] \in Schema!Holding <=> lock = p

\* What the holder of the lock knows of the template.
TemplateKnown ==
    \A p \in Schema!Caller :
        /\ schemaPlace[p] = "create" => template = "none"
        /\ schemaPlace[p] = "apply" => template = "empty"
        /\ schemaPlace[p] \in {"mark", "unlock"} => template = "full"

\* A mark, and having seen one, means a complete template for good.
MarkedIsFull ==
    /\ marked => template = "full"
    /\ \A p \in Schema!Caller : seen[p].marked => template = "full"

\* A bootstrap comes to the template only once the users table is there.
UsersFirst ==
    \A p \in Process :
        /\ schemaPlace[p] \notin {"check", "main", "ended"} => users
        /\ schemaPlace[p] = "final" => template = "full"

RepairInv == LockHeld /\ TemplateKnown /\ MarkedIsFull /\ UsersFirst

\* What the tool has not done of the databases it found.
MigrationInv ==
    /\ tool = "ready" => there = {}
    /\ tool = "succeeded" => todo = {} /\ unmigrated = {}
    /\ \A t \in there : /\ database[t] # "none"
                        /\ database[t] = "full" \/ t \in todo \cup unmigrated

SchemaInv == Schema!TypeOK /\ RepairInv /\ MigrationInv

LEMMA SchemaStarts == None \notin Schema!Caller /\ Schema!Init => SchemaInv
<1> SUFFICES ASSUME None \notin Schema!Caller, Schema!Init PROVE SchemaInv
  OBVIOUS
<1>1. \A p \in Schema!Caller : schemaPlace[p] \in {"check",
   "lock"} /\ (p \in Process => schemaPlace[p] = "check")
  BY DEF Schema!Init
<1>2. \A p \in Schema!Caller : seen[p].marked = FALSE
  BY DEF Schema!Init
<1>3. Schema!TypeOK
  BY DEF Schema!Init, Schema!TypeOK, Schema!Holding, Schema!Schema, Schema!Labels
<1>4. RepairInv
  BY <1>1, <1>2 DEF Schema!Init, RepairInv, LockHeld, TemplateKnown, MarkedIsFull, UsersFirst,
     Schema!Holding, Schema!Caller
<1> QED
  BY <1>3, <1>4 DEF Schema!Init, SchemaInv, MigrationInv

\* The steps of a bootstrap or a healing registration without the lock ...
LEMMA OutsideKeeps ==
  ASSUME SchemaInv, NEW p \in Schema!Caller,
     Schema!Check(p) \/ Schema!MainSchema(p) \/ Schema!FinalCheck(p)
  PROVE  SchemaInv'
<1> USE DEF SchemaInv, Schema!Go, Schema!Return
<1>1. UNCHANGED <<template, marked, lock, created, Schema!tenantVars>>
  BY DEF Schema!Check, Schema!MainSchema, Schema!FinalCheck
<1>2. Schema!TypeOK'
  <2>1. CASE Schema!Check(p)
    BY <2>1 DEF Schema!Check, Schema!CheckSchema, Schema!StatusLabel, Schema!TypeOK,
       Schema!tenantVars, Schema!Holding, Schema!Labels
  <2>2. CASE Schema!MainSchema(p)
    BY <2>2 DEF Schema!MainSchema, Schema!TypeOK, Schema!tenantVars, Schema!Holding
  <2>3. CASE Schema!FinalCheck(p)
    BY <2>3 DEF Schema!FinalCheck, Schema!CheckSchema, Schema!StatusLabel, Schema!TypeOK,
       Schema!tenantVars, Schema!Holding, Schema!Labels
  <2> QED
    BY <2>1, <2>2, <2>3
<1>3. \A q \in Schema!Caller \ {p} : schemaPlace'[q] = schemaPlace[q] /\ seen'[q] = seen[q]
  BY DEF Schema!Check, Schema!MainSchema, Schema!FinalCheck, Schema!TypeOK
<1>4. schemaPlace[p] \in {"check", "main", "final"} /\ schemaPlace'[p] \in {"ended", "lock",
   "main", "final"}
  BY DEF Schema!Check, Schema!MainSchema, Schema!FinalCheck, Schema!TypeOK
<1>5. seen'[p].marked => template = "full"
  BY DEF Schema!Check, Schema!MainSchema, Schema!FinalCheck, Schema!CheckSchema,
     Schema!TypeOK, RepairInv, MarkedIsFull
<1>6. users => users'
  BY DEF Schema!Check, Schema!MainSchema, Schema!FinalCheck
<1>7. /\ schemaPlace'[p] \in {"lock", "final"} => users'
      /\ schemaPlace'[p] = "final" => template = "full"
  BY DEF Schema!Check, Schema!MainSchema, Schema!FinalCheck, Schema!CheckSchema,
     Schema!TypeOK, RepairInv, MarkedIsFull
<1>8. LockHeld'
  BY <1>1, <1>3, <1>4 DEF RepairInv, LockHeld, Schema!Holding
<1>9. TemplateKnown'
  BY <1>1, <1>3, <1>4 DEF RepairInv, TemplateKnown
<1>10. MarkedIsFull'
  BY <1>1, <1>3, <1>5 DEF RepairInv, MarkedIsFull
<1>11. UsersFirst'
  BY <1>1, <1>3, <1>4, <1>6, <1>7 DEF RepairInv, UsersFirst, Schema!Caller
<1>12. MigrationInv'
  BY <1>1 DEF MigrationInv, Schema!tenantVars
<1> QED
  BY <1>2, <1>8, <1>9, <1>10, <1>11, <1>12 DEF RepairInv

\* ... the steps that leave it ...
LEMMA GiveUpKeeps ==
  ASSUME None \notin Schema!Caller, SchemaInv, NEW p \in Schema!Caller, Schema!GiveUp(p)
  PROVE  SchemaInv'
<1> USE DEF SchemaInv, Schema!Go
<1>1. UNCHANGED <<users, template, marked, seen, Schema!tenantVars>>
  BY DEF Schema!GiveUp
<1>2. Schema!TypeOK'
  BY DEF Schema!GiveUp, Schema!TypeOK, Schema!tenantVars, Schema!Labels, Schema!Holding
<1>3. (\A q \in Schema!Caller \ {p} : schemaPlace'[q] = schemaPlace[q]) /\ schemaPlace'[p] \in {"check", "ended"}
  BY DEF Schema!GiveUp, Schema!TypeOK
<1>4. LockHeld'
  BY <1>3 DEF Schema!GiveUp, RepairInv, LockHeld, Schema!Holding
<1>5. TemplateKnown' /\ MarkedIsFull' /\ UsersFirst'
  BY <1>1, <1>3 DEF RepairInv, TemplateKnown, MarkedIsFull, UsersFirst, Schema!Caller
<1>6. MigrationInv'
  BY <1>1 DEF MigrationInv, Schema!tenantVars
<1> QED
  BY <1>2, <1>4, <1>5, <1>6 DEF RepairInv

\* ... and those of the repair itself, alone under the lock.
LEMMA RepairStepKeeps ==
  ASSUME None \notin Schema!Caller, SchemaInv, NEW p \in Schema!Caller,
         Schema!Lock(p) \/ Schema!Look(p) \/ Schema!Create(p) \/ Schema!Apply(p) \/ Schema!Mark(p) \/ Schema!Unlock(p)
  PROVE  SchemaInv'
<1> USE DEF SchemaInv, Schema!Go
<1>1. UNCHANGED <<users, seen, label, Schema!tenantVars>>
  BY DEF Schema!Lock, Schema!Look, Schema!Create, Schema!Apply, Schema!Mark, Schema!Unlock
<1>2. Schema!TypeOK'
  BY DEF Schema!Lock, Schema!Look, Schema!Create, Schema!Apply, Schema!Mark, Schema!Unlock,
     Schema!TypeOK, Schema!tenantVars, Schema!Holding, Schema!Schema
<1>3. \A q \in Schema!Caller \ {p} : schemaPlace'[q] = schemaPlace[q]
  BY DEF Schema!Lock, Schema!Look, Schema!Create, Schema!Apply, Schema!Mark, Schema!Unlock,
     Schema!TypeOK
<1>4. \A q \in Schema!Caller \ {p} : schemaPlace[q] \notin Schema!Holding
  BY DEF Schema!Lock, Schema!Look, Schema!Create, Schema!Apply, Schema!Mark, Schema!Unlock,
     RepairInv, LockHeld, Schema!Holding
<1>5. LockHeld'
  <2>1. lock' = IF schemaPlace'[p] \in Schema!Holding THEN p ELSE None
    BY DEF Schema!Lock, Schema!Look, Schema!Create, Schema!Apply, Schema!Mark, Schema!Unlock,
       Schema!TypeOK, RepairInv, LockHeld, Schema!Holding
  <2> QED
    BY <1>3, <1>4, <2>1 DEF LockHeld
<1>6. /\ schemaPlace'[p] = "create" => template' = "none"
      /\ schemaPlace'[p] = "apply" => template' = "empty"
      /\ schemaPlace'[p] \in {"mark", "unlock", "final"} => template' = "full"
  BY DEF Schema!Lock, Schema!Look, Schema!Create, Schema!Apply, Schema!Mark, Schema!Unlock,
     Schema!TypeOK, Schema!Schema, RepairInv, TemplateKnown
<1>7. template = "full" => template' = "full"
  BY DEF Schema!Lock, Schema!Look, Schema!Create, Schema!Apply, Schema!Mark, Schema!Unlock,
     RepairInv, TemplateKnown
<1>8. marked' => marked \/ template' = "full"
  BY DEF Schema!Lock, Schema!Look, Schema!Create, Schema!Apply, Schema!Mark, Schema!Unlock,
     RepairInv, TemplateKnown
<1>9. TemplateKnown'
  BY <1>3, <1>4, <1>6 DEF TemplateKnown, Schema!Holding
<1>10. MarkedIsFull'
  BY <1>1, <1>7, <1>8 DEF RepairInv, MarkedIsFull
<1>11. schemaPlace[p] \in {"lock"} \cup Schema!Holding
  BY DEF Schema!Lock, Schema!Look, Schema!Create, Schema!Apply, Schema!Mark, Schema!Unlock,
     Schema!Holding
<1>12. UsersFirst'
  BY <1>1, <1>3, <1>6, <1>7, <1>11 DEF RepairInv, UsersFirst, Schema!Caller, Schema!Holding
<1>13. MigrationInv'
  BY <1>1 DEF MigrationInv, Schema!tenantVars
<1> QED
  BY <1>2, <1>5, <1>9, <1>10, <1>12, <1>13 DEF RepairInv

\* Registrations and the tool leave the repair alone.
LEMMA TenantsKeep ==
  ASSUME SchemaInv, UNCHANGED Schema!repairVars, Schema!TypeOK', MigrationInv'
  PROVE  SchemaInv'
  BY DEF SchemaInv, Schema!repairVars, RepairInv, LockHeld, TemplateKnown, MarkedIsFull,
     UsersFirst

LEMMA TenantStepKeeps ==
  ASSUME SchemaInv, NEW t \in Tenant,
     Schema!Enrol(t) \/ Schema!Clone(t) \/ Schema!Withdraw(t) \/ Schema!Migrate(t)
  PROVE  SchemaInv'
<1>1. UNCHANGED Schema!repairVars
  BY DEF Schema!Enrol, Schema!Clone, Schema!Withdraw, Schema!Migrate
<1>2. Schema!TypeOK'
  BY DEF SchemaInv, Schema!TypeOK, Schema!Enrol, Schema!Clone, Schema!Withdraw,
     Schema!Migrate, Schema!repairVars, Schema!Schema
<1>3. CASE Schema!Enrol(t) \/ Schema!Withdraw(t)
  BY <1>1, <1>2, <1>3, TenantsKeep DEF SchemaInv, Schema!TypeOK, MigrationInv, Schema!Enrol,
     Schema!Withdraw
<1>4. CASE Schema!Clone(t)
  <2>1. t \notin there
    BY <1>4 DEF SchemaInv, MigrationInv, Schema!Clone
  <2> QED
    BY <1>1, <1>2, <1>4, <2>1, TenantsKeep DEF SchemaInv, Schema!TypeOK, MigrationInv,
       Schema!Clone
<1>5. CASE Schema!Migrate(t)
  BY <1>1, <1>2, <1>5, TenantsKeep DEF SchemaInv, Schema!TypeOK, MigrationInv, Schema!Migrate
<1> QED
  BY <1>3, <1>4, <1>5

LEMMA ToolKeeps ==
  ASSUME SchemaInv, Schema!ListTenants \/ Schema!Exit
  PROVE  SchemaInv'
<1>1. Schema!TypeOK' /\ UNCHANGED Schema!repairVars
  BY DEF SchemaInv, Schema!TypeOK, Schema!ListTenants, Schema!Exit, Schema!repairVars
<1> QED
  BY <1>1, TenantsKeep DEF SchemaInv, Schema!TypeOK, MigrationInv, Schema!ListTenants,
     Schema!Exit

LEMMA SchemaKeeps ==
  ASSUME None \notin Schema!Caller, SchemaInv, [Schema!Next]_schemaVars
  PROVE  SchemaInv'
<1>1. CASE UNCHANGED schemaVars
  BY <1>1 DEF schemaVars, Schema!repairVars, Schema!tenantVars, SchemaInv, Schema!TypeOK,
     RepairInv, LockHeld,
              TemplateKnown, MarkedIsFull, UsersFirst, MigrationInv
<1>2. CASE Schema!Next
  BY <1>2, OutsideKeeps, GiveUpKeeps, RepairStepKeeps, TenantStepKeeps, ToolKeeps
     DEF Schema!Next
<1> QED
  BY <1>1, <1>2

LEMMA SchemaIsSound == SchemaInv => Schema!SchemaSound
<1> SUFFICES ASSUME SchemaInv PROVE Schema!SchemaSound
  OBVIOUS
<1>1. Schema!RepairsWork
  BY DEF SchemaInv, RepairInv, LockHeld, TemplateKnown, MarkedIsFull, UsersFirst,
     Schema!RepairsWork, Schema!Caller
<1>2. Schema!MigrationIsComplete
  BY DEF SchemaInv, MigrationInv, Schema!MigrationIsComplete
<1> QED
  BY <1>1, <1>2 DEF SchemaInv, Schema!SchemaSound

\* bootstrap.py and migrate_tenants.py, for any number of servers, healing
\* registrations and tenants: repairs never collide, whoever ended one left a
\* complete template behind, and a migration that reports success left no
\* incomplete database.
THEOREM RepairsAndMigrations == PartSpec => []SchemaSound
<1> DEFINE Inv == part = "schema" => SchemaInv
<1>0. None \notin Schema!Caller
  BY SchemaAssumption DEF Schema!Caller
<1>1. PartInit => Inv
  BY <1>0, SchemaStarts DEF PartInit
<1>2. Inv /\ [PartNext]_partsVars => Inv'
  <2>1. [PartNext]_partsVars => part' = part /\ (part = "schema" => [Schema!Next]_schemaVars)
    BY DEF PartNext, RestOf, partsVars
  <2> QED
    BY <1>0, <2>1, SchemaKeeps
<1>3. Inv => SchemaSound
  BY SchemaIsSound DEF SchemaSound
<1> QED
  BY <1>1, <1>2, <1>3, PTL DEF PartSpec

-----------------------------------------------------------------------------
(* The sign-in tasks *)

SigninStatus == {"absent", Signin!Running} \cup Signin!Final

\* A task that was never started has no worker.
Unstarted == \A t \in Task : owner[t] = None => worker[t] = "none"

\* A record says "running" exactly while its request or worker is at work.
Worked == \A t \in Task : record[t] = Signin!Running <=> worker[t] \in Signin!AtWork

\* No two running records are of one user.
OneEach ==
    \A x, y \in Task :
        record[x] = Signin!Running /\ record[y] = Signin!Running /\ owner[x] = owner[y] => x = y

\* The inductive invariant.  That a worker signs with its own account needs
\* OneEach: the only login that could come between its login and its look at
\* the client, and is not counted in relogin, is that of another worker of the
\* same user.
SigninInv == Signin!TypeOK /\ Unstarted /\ Worked /\ OneEach /\ Signin!SignsAsAsked

\* The clean-up removes records, and only of tasks that ended.
LEMMA EvictionKeeps ==
  ASSUME NEW r \in [Task -> SigninStatus], NEW c \in Signin!Cleaned(r)
  PROVE  /\ c \in [Task -> SigninStatus]
         /\ \A t \in Task : c[t] = r[t] \/ (c[t] = "absent" /\ r[t] \in Signin!Final)
  BY DEF Signin!Cleaned, Signin!Evictable, SigninStatus, Signin!Final, Signin!Running

\* A write to the store leaves the rows well-typed.
LEMMA SigninRowsTyped ==
  ASSUME Signin!TypeOK, NEW t \in Task, NEW s \in {Signin!Running} \cup Signin!Final
  PROVE  Signin!Persisted(t, s) \subseteq [Task -> {"none", Signin!Running} \cup Signin!Final]
  BY DEF Signin!Persisted, Signin!TypeOK

LEMMA SigninStarts == Signin!Init => SigninInv
  BY DEF Signin!Init, SigninInv, Signin!TypeOK, Unstarted, Worked, OneEach, Signin!SignsAsAsked,
    Signin!AtWork, Signin!Running, Signin!Final

\* An admission: the user had no running record, and gets this one.
LEMMA AdmissionKeeps ==
  ASSUME SigninInv,
         NEW t \in Task, NEW u \in User, NEW a \in Account, Signin!Admit(t, u, a)
  PROVE  SigninInv'
<1> USE SigninAssumption DEF SigninInv, Signin!Go
<1>1. PICK r \in Signin!Cleaned(record) :
        /\ Signin!ActiveOf(r, u) = {}
        /\ record' \in Signin!Cleaned([r EXCEPT ![t] = Signin!Running])
  BY DEF Signin!Admit
<1>2. /\ r \in [Task -> SigninStatus]
      /\ \A x \in Task : r[x] = record[x] \/ (r[x] = "absent" /\ record[x] \in Signin!Final)
  BY <1>1, EvictionKeeps DEF Signin!TypeOK, SigninStatus
<1>3. [r EXCEPT ![t] = Signin!Running] \in [Task -> SigninStatus]
  BY <1>2 DEF SigninStatus
<1>4. /\ record' \in [Task -> SigninStatus]
      /\ \A x \in Task :
           \/ record'[x] = [r EXCEPT ![t] = Signin!Running][x]
           \/ record'[x] = "absent" /\ [r EXCEPT ![t] = Signin!Running][x] \in Signin!Final
  BY <1>1, <1>3, EvictionKeeps
<1>5. /\ record'[t] = Signin!Running
      /\ \A x \in Task \ {t} : record'[x] = Signin!Running <=> record[x] = Signin!Running
  BY <1>2, <1>4 DEF Signin!Running, Signin!Final
<1>6. /\ owner[t] = None /\ owner' = [owner EXCEPT ![t] = u]
      /\ account' = [account EXCEPT ![t] = a]
      /\ worker' = [worker EXCEPT ![t] = "persist"]
      /\ UNCHANGED <<taskRow, outcome, clients, relogin, lookup>>
  BY DEF Signin!Admit, Signin!clientState
<1>7. Signin!TypeOK'
  BY <1>4, <1>6 DEF Signin!TypeOK, SigninStatus, Signin!AtWork
<1>8. Unstarted'
  BY <1>6 DEF Signin!TypeOK, Unstarted
<1>9. Worked'
  BY <1>5, <1>6 DEF Signin!TypeOK, Worked, Signin!AtWork
<1>10. OneEach'
  <2>1. \A x \in Task \ {t} : record'[x] = Signin!Running => owner[x] # u
    BY <1>1, <1>2, <1>5 DEF Signin!ActiveOf, Signin!Running, Signin!Final
  <2> QED
    BY <1>5, <1>6, <2>1 DEF Signin!TypeOK, OneEach
<1>11. Signin!SignsAsAsked'
  BY <1>6 DEF Signin!TypeOK, Signin!SignsAsAsked
<1> QED
  BY <1>7, <1>8, <1>9, <1>10, <1>11

\* A task's record, worker and outcome change, nobody's client does, and the
\* worker does not come to its look at the client.
LEMMA OwnSigninStepKeeps ==
  ASSUME SigninInv, Signin!TypeOK', NEW t \in Task, worker[t] # "none",
         UNCHANGED <<owner, account, clients, relogin>>,
         NEW to, worker' = [worker EXCEPT ![t] = to], to # "client",
         NEW s \in SigninStatus, record' = [record EXCEPT ![t] = s],
         s = Signin!Running <=> to \in Signin!AtWork,
         s = Signin!Running => record[t] = Signin!Running
  PROVE  SigninInv'
  BY DEF SigninInv, Signin!TypeOK, Unstarted, Worked, OneEach, Signin!SignsAsAsked, SigninStatus

\* So does an update of a task's status to a last one.
LEMMA StatusUpdateKeeps ==
  ASSUME SigninInv, NEW t \in Task, worker[t] \in Signin!AtWork,
         NEW s \in Signin!Final, NEW next \in {"write", "lastWrite"}, Signin!Update(t, s, next),
         UNCHANGED <<owner, taskRow, account, clients, relogin, lookup>>
  PROVE  SigninInv'
<1>1. record[t] = Signin!Running
  BY DEF SigninInv, Worked
<1>2. /\ worker' = [worker EXCEPT ![t] = next]
      /\ record' = [record EXCEPT ![t] = s]
      /\ outcome' = [outcome EXCEPT ![t] = s]
  BY <1>1 DEF Signin!Update, Signin!Go, Signin!SetRecord, Signin!Running
<1>3. Signin!TypeOK'
  BY <1>2 DEF SigninInv, Signin!TypeOK
<1> QED
  BY <1>1, <1>2, <1>3, OwnSigninStepKeeps
  DEF Signin!AtWork, Signin!Running, Signin!Final, SigninStatus

\* And a step that changes where the worker is, and rows.
LEMMA WorkerWalkKeeps ==
  ASSUME SigninInv, NEW t \in Task, worker[t] # "none",
         NEW to \in (Signin!AtWork \ {"client"}) \cup {"write", "lastWrite", "ended"},
         worker' = [worker EXCEPT ![t] = to],
         to \in Signin!AtWork <=> worker[t] \in Signin!AtWork,
         taskRow' \in [Task -> {"none", Signin!Running} \cup Signin!Final],
         UNCHANGED <<owner, record, account, outcome, clients, relogin, lookup>>
  PROVE  SigninInv'
<1>1. Signin!TypeOK'
  BY DEF SigninInv, Signin!TypeOK, Signin!AtWork
<1>2. record' = [record EXCEPT ![t] = record[t]] /\ record[t] \in SigninStatus
  BY DEF SigninInv, Signin!TypeOK, SigninStatus
<1>3. record[t] = Signin!Running <=> to \in Signin!AtWork
  BY DEF SigninInv, Worked
<1> QED
  BY <1>1, <1>2, <1>3, OwnSigninStepKeeps DEF Signin!AtWork

\* A worker logs in: its user's client is of its account now, and no other
\* worker of the user is there to be misled.
LEMMA WorkerLoginKeeps ==
  ASSUME SigninInv, NEW t \in Task, Signin!LogIn(t)
  PROVE  SigninInv'
<1>1. worker[t] = "login" /\ UNCHANGED <<owner, taskRow, account, lookup>>
  BY DEF Signin!LogIn
<1>2. CASE Signin!Update(t, "error", "write") /\ UNCHANGED <<clients, relogin>>
  BY <1>1, <1>2, StatusUpdateKeeps DEF Signin!AtWork, Signin!Final
<1>3. CASE /\ clients' = [clients EXCEPT ![owner[t]] = account[t]]
           /\ relogin' = relogin \ {owner[t]}
           /\ worker' = [worker EXCEPT ![t] = "client"]
           /\ UNCHANGED <<record, outcome>>
  <2>1. owner[t] \in User /\ account[t] \in Account \cup {None}
    BY <1>1 DEF SigninInv, Signin!TypeOK, Unstarted
  <2>2. Signin!TypeOK' /\ Unstarted' /\ Worked' /\ OneEach'
    BY <1>1, <1>3, <2>1 DEF SigninInv, Signin!TypeOK, Unstarted, Worked, OneEach, Signin!AtWork
  <2>3. ASSUME NEW x \in Task, worker'[x] = "client"
        PROVE  clients'[owner[x]] = account[x] \/ owner[x] \in relogin'
    <3>1. CASE x = t
      BY <1>3, <2>1, <3>1 DEF SigninInv, Signin!TypeOK
    <3>2. CASE x # t
      <4>1. worker[x] = "client"
        BY <1>3, <2>3, <3>2 DEF SigninInv, Signin!TypeOK
      <4>2. owner[x] # owner[t]
        BY <1>1, <3>2, <4>1 DEF SigninInv, Worked, OneEach, Signin!AtWork
      <4> QED
        BY <1>3, <2>1, <4>1, <4>2 DEF SigninInv, Signin!TypeOK, Signin!SignsAsAsked
    <3> QED
      BY <3>1, <3>2
  <2> QED
    BY <1>1, <2>2, <2>3 DEF SigninInv, Signin!SignsAsAsked
<1> QED
  BY <1>2, <1>3 DEF Signin!LogIn, Signin!Go

\* The other steps of a request and its worker.
LEMMA SigninStepKeeps ==
  ASSUME SigninInv, NEW t \in Task, Signin!Step(t)
  PROVE  SigninInv'
<1> USE DEF Signin!Go, Signin!clientState
<1>0. Signin!TypeOK
  BY DEF SigninInv
<1>1. CASE Signin!PersistAdmission(t)
  <2>1. taskRow' \in [Task -> {"none", Signin!Running} \cup Signin!Final]
    BY <1>0, <1>1, SigninRowsTyped DEF Signin!PersistAdmission, Signin!TypeOK
  <2>2. PICK to \in {"spawn", "takeback"} : worker' = [worker EXCEPT ![t] = to]
    BY <1>1 DEF Signin!PersistAdmission
  <2> QED
    BY <1>1, <2>1, <2>2, WorkerWalkKeeps DEF Signin!PersistAdmission, Signin!AtWork
<1>2. CASE Signin!TakeBack(t)
  BY <1>2, StatusUpdateKeeps DEF Signin!TakeBack, Signin!AtWork, Signin!Final
<1>3. CASE Signin!Spawn(t)
  <2>1. CASE worker' = [worker EXCEPT ![t] = "login"] /\ UNCHANGED <<record, outcome>>
    BY <1>0, <1>3, <2>1, WorkerWalkKeeps DEF Signin!Spawn, Signin!AtWork, Signin!TypeOK
  <2>2. CASE Signin!Update(t, "error", "write")
    BY <1>3, <2>2, StatusUpdateKeeps DEF Signin!Spawn, Signin!AtWork, Signin!Final
  <2> QED
    BY <1>3, <2>1, <2>2 DEF Signin!Spawn
<1>4. CASE Signin!LogIn(t)
  BY <1>4, WorkerLoginKeeps
<1>5. CASE Signin!GetClient(t)
  BY <1>0, <1>5, WorkerWalkKeeps DEF Signin!GetClient, Signin!AtWork, Signin!TypeOK
<1>6. CASE Signin!Query(t)
  <2>1. CASE worker' = [worker EXCEPT ![t] = "sign"] /\ UNCHANGED <<record, outcome>>
    BY <1>0, <1>6, <2>1, WorkerWalkKeeps DEF Signin!Query, Signin!AtWork, Signin!TypeOK
  <2>2. CASE Signin!Update(t, "completed", "write") \/ Signin!Update(t, "error", "write")
    BY <1>6, <2>2, StatusUpdateKeeps DEF Signin!Query, Signin!AtWork, Signin!Final
  <2> QED
    BY <1>6, <2>1, <2>2 DEF Signin!Query
<1>7. CASE Signin!Sign(t)
  BY <1>7, StatusUpdateKeeps DEF Signin!Sign, Signin!AtWork, Signin!Final
<1>8. CASE Signin!WriteStatus(t)
  <2>1. taskRow' \in [Task -> {"none", Signin!Running} \cup Signin!Final]
    BY <1>0, <1>8, SigninRowsTyped DEF Signin!WriteStatus, Signin!TypeOK
  <2>2. PICK to \in {"lastWrite", "ended"} : worker' = [worker EXCEPT ![t] = to]
    BY <1>8 DEF Signin!WriteStatus
  <2> QED
    BY <1>8, <2>1, <2>2, WorkerWalkKeeps DEF Signin!WriteStatus, Signin!AtWork
<1> QED
  BY <1>1, <1>2, <1>3, <1>4, <1>5, <1>6, <1>7, <1>8 DEF Signin!Step

\* A login beside the worker is remembered as one.
LEMMA LoginBesideKeeps ==
  ASSUME SigninInv, NEW u \in User, NEW a \in Account, Signin!LogInBeside(u, a)
  PROVE  SigninInv'
  BY DEF Signin!LogInBeside, SigninInv, Signin!TypeOK, Unstarted, Worked, OneEach,
    Signin!SignsAsAsked, Signin!taskState

\* Records that change without their workers: no "running" comes or goes.
LEMMA SigninRecordsKeep ==
  ASSUME SigninInv, Signin!TypeOK', UNCHANGED <<owner, worker, account, clients, relogin>>,
         \A t \in Task : record'[t] = Signin!Running <=> record[t] = Signin!Running
  PROVE  SigninInv'
  BY DEF SigninInv, Unstarted, Worked, OneEach, Signin!SignsAsAsked

\* A look-up reads the row of a record that is not there ...
LEMMA RowLookUpKeeps ==
  ASSUME SigninInv, NEW t \in Task, Signin!ReadRow(t)
  PROVE  SigninInv'
<1>1. record' \in Signin!Cleaned(record)
  BY DEF Signin!ReadRow
<1>2. /\ record' \in [Task -> SigninStatus]
      /\ \A x \in Task : \/ record'[x] = record[x]
                         \/ record'[x] = "absent" /\ record[x] \in Signin!Final
  BY <1>1, EvictionKeeps DEF SigninInv, Signin!TypeOK, SigninStatus
<1>3. [task |-> t, status |-> taskRow[t]]
        \in [task : Task, status : {Signin!Running} \cup Signin!Final]
  BY DEF SigninInv, Signin!TypeOK, Signin!ReadRow
<1>4. Signin!TypeOK'
  BY <1>2, <1>3 DEF SigninInv, Signin!TypeOK, Signin!ReadRow, SigninStatus, Signin!clientState
<1> QED
  BY <1>2, <1>4, SigninRecordsKeep
  DEF Signin!ReadRow, Signin!clientState, Signin!Running, Signin!Final

\* ... and merges it unless there is one by now, never as "running".
LEMMA RowMergeKeeps ==
  ASSUME SigninInv, NEW l \in lookup, Signin!Merge(l)
  PROVE  SigninInv'
<1>1. l.task \in Task /\ l.status \in {Signin!Running} \cup Signin!Final
  BY DEF SigninInv, Signin!TypeOK
<1>2. PICK s \in Signin!Final :
        \/ UNCHANGED record
        \/ record[l.task] = "absent" /\ record' = [record EXCEPT ![l.task] = s]
  BY <1>1 DEF Signin!Merge, Signin!SetRecord, Signin!Final
<1>3. taskRow' \in [Task -> {"none", Signin!Running} \cup Signin!Final]
  BY <1>1, SigninRowsTyped DEF Signin!Merge, SigninInv, Signin!TypeOK, Signin!Final
<1>4. Signin!TypeOK'
  BY <1>1, <1>2, <1>3 DEF SigninInv, Signin!TypeOK, Signin!Merge, Signin!clientState
<1> QED
  BY <1>1, <1>2, <1>4, SigninRecordsKeep
  DEF SigninInv, Signin!TypeOK, Signin!Merge, Signin!clientState, Signin!Running, Signin!Final

\* After a restart nobody works, and no record says so.
LEMMA SigninRestartKeeps ==
  ASSUME SigninInv, Signin!Restart
  PROVE  SigninInv'
<1>1. PICK R \in SUBSET {t \in Task : taskRow[t] # "none"} :
        /\ record' = [t \in Task |-> IF t \notin R THEN "absent"
                                     ELSE IF taskRow[t] = Signin!Running THEN "error" ELSE taskRow[t]]
        /\ \E W \in SUBSET {t \in R : taskRow[t] = Signin!Running} :
            taskRow' = [t \in Task |-> IF t \in W THEN "error" ELSE taskRow[t]]
  BY DEF Signin!Restart
<1>2. \A t \in Task : record'[t] # Signin!Running /\ record'[t] \in SigninStatus
  BY <1>1 DEF SigninInv, Signin!TypeOK, Signin!Running, Signin!Final, SigninStatus
<1>3. \A t \in Task : worker'[t] \in {"none", "ended"}
  BY DEF Signin!Restart
<1>4. Signin!TypeOK'
  BY <1>1, <1>2, <1>3
  DEF SigninInv, Signin!TypeOK, Signin!Restart, Signin!Final, SigninStatus, Signin!clientState
<1>5. Unstarted' /\ Worked' /\ OneEach' /\ Signin!SignsAsAsked'
  BY <1>2, <1>3
  DEF SigninInv, Unstarted, Worked, OneEach, Signin!SignsAsAsked, Signin!AtWork, Signin!Restart
<1> QED
  BY <1>4, <1>5 DEF SigninInv

LEMMA SigninKeeps ==
  ASSUME SigninInv, [Signin!Next]_signinVars
  PROVE  SigninInv'
<1>1. CASE UNCHANGED signinVars
  BY <1>1
  DEF signinVars, Signin!taskState, Signin!clientState, SigninInv, Signin!TypeOK, Unstarted,
      Worked, OneEach,
              Signin!SignsAsAsked
<1>2. CASE Signin!Next
  BY <1>2, AdmissionKeeps, SigninStepKeeps, RowLookUpKeeps, LoginBesideKeeps, RowMergeKeeps,
    SigninRestartKeeps DEF Signin!Next
<1> QED
  BY <1>1, <1>2

LEMMA SigninCardinality == \A S : Signin!Cardinality(S) = Cardinality(S)
  BY DEF Signin!Cardinality, Cardinality

\* At most one record of a user is running, so their number is at most one.
LEMMA OneRunning ==
  ASSUME SigninInv, NEW u \in User
  PROVE  Signin!Cardinality(Signin!ActiveOf(record, u)) <= 1
<1>1. CASE Signin!ActiveOf(record, u) = {}
  BY <1>1, SigninCardinality, FS_EmptySet
<1>2. ASSUME NEW x \in Signin!ActiveOf(record, u)
      PROVE  Signin!Cardinality(Signin!ActiveOf(record, u)) <= 1
  <2>1. Signin!ActiveOf(record, u) = {x}
    BY <1>2 DEF Signin!ActiveOf, SigninInv, OneEach
  <2>2. Signin!Cardinality({x}) = 1
    BY SigninCardinality, FS_Singleton, Zenon
  <2> QED
    BY <2>1, <2>2
<1> QED
  BY <1>1, <1>2

\* The sign-in tasks (signin.py: start_task, _run_task_worker, the look-ups and
\* the restart), whatever fails or interleaves: a record says "running" exactly
\* while its request or worker is at work on it, a user has one at most, and a
\* worker signs with the account its task was given, though login and _get_client
\* are two critical sections: only a login beside the worker can come in between.
THEOREM SigninTasksSound == PartSpec => []TasksSound
<1> DEFINE Inv == part = "sign-in" => SigninInv
<1>1. PartInit => Inv
  BY SigninStarts DEF PartInit
<1>2. Inv /\ [PartNext]_partsVars => Inv'
  <2>1. [PartNext]_partsVars => part' = part /\ (part = "sign-in" => [Signin!Next]_signinVars)
    BY DEF PartNext, RestOf, partsVars
  <2> QED
    BY <2>1, SigninKeeps
<1>3. Inv => TasksSound
  BY OneRunning DEF TasksSound, SigninInv, Worked, Signin!RunningIsWorkedOn
<1> QED
  BY <1>1, <1>2, <1>3, PTL DEF PartSpec

-----------------------------------------------------------------------------
(* The sign-in history *)

\* How many records of S are newer than r.
Newer(S, r) == Cardinality({x \in S : x > r})

\* The records of a list.
Shown(s) == {s[i] : i \in DOMAIN s}

\* A list that may be read or shown: each record once, no more than are kept.
ListOf(s, n) ==
    /\ s \in Seq(1 .. n) /\ Len(s) <= Keep
    /\ \A i, j \in 1 .. Len(s) : s[i] = s[j] => i = j

HistoryTypes ==
    /\ clock \in 0 .. LastRecord
    /\ stored \subseteq 1 .. clock /\ Cardinality(stored) <= Keep
    /\ historyLoaded \in BOOLEAN /\ spoiled \in BOOLEAN
    /\ made \in [Writer -> 0 .. clock]
    /\ appended \subseteq {w \in Writer : made[w] # 0}
    /\ DOMAIN rows = Reader /\ rows = [r \in Reader |-> rows[r]]
    /\ ListOf(items, clock)
    /\ \A r \in Reader : rows[r] = History!Unread \/ ListOf(rows[r], clock)

\* A record under way is in no row, nobody read it, and only who appended it
\* finds it in memory; no two threads have the same.
Fresh ==
    \A w \in Writer : made[w] # 0 =>
        /\ made[w] \notin stored
        /\ \A r \in Reader : rows[r] # History!Unread => made[w] \notin Shown(rows[r])
        /\ w \notin appended => made[w] \notin Shown(items)
        /\ \A v \in Writer : made[v] = made[w] => v = w

\* As long as nothing went wrong and nothing had to go: who looks reads the rows
\* as they are, and a list that was read shows them and what is on its way there.
Agreeing ==
    ~spoiled /\ clock <= Keep =>
        /\ \A r \in Reader : rows[r] # History!Unread =>
             ~History!Recording /\ Shown(rows[r]) = stored
        /\ historyLoaded => Shown(items) = stored \cup {made[w] : w \in appended}

HistoryInv == HistoryTypes /\ Fresh /\ Agreeing

LEMMA HistoryCardinality == \A S : History!Cardinality(S) = Cardinality(S)
  BY DEF History!Cardinality, Cardinality

\* The fewer newer ones, the newer.
LEMMA NewerOrders ==
  ASSUME NEW n \in Nat, NEW S \in SUBSET (1 .. n)
  PROVE  /\ IsFiniteSet(S) /\ Cardinality(S) \in Nat /\ Cardinality(S) <= n
         /\ \A r \in S : Newer(S, r) \in 0 .. Cardinality(S) - 1
         /\ \A r, s \in S : Newer(S, r) = Newer(S, s) => r = s
<1>1. IsFiniteSet(S) /\ Cardinality(S) \in Nat /\ Cardinality(S) <= n
  <2>1. IsFiniteSet(1 .. n) /\ Cardinality(1 .. n) = n
    BY FS_Interval
  <2> QED
    BY <2>1, FS_Subset, FS_CardinalityType
<1>2. ASSUME NEW r \in S PROVE Newer(S, r) \in 0 .. Cardinality(S) - 1
  <2> DEFINE T == {x \in S : x > r}
  <2>1. T \in SUBSET S /\ r \notin T
    OBVIOUS
  <2>2. IsFiniteSet(T) /\ Cardinality(T) \in Nat /\ Cardinality(T) <= Cardinality(S)
        /\ (Cardinality(S) = Cardinality(T) => S = T)
    <3> HIDE DEF T
    <3> QED
      BY <1>1, <2>1, FS_Subset, FS_CardinalityType
  <2>3. Cardinality(T) # Cardinality(S)
    BY <1>2, <2>1, <2>2
  <2> HIDE DEF T
  <2>4. Cardinality(T) \in 0 .. Cardinality(S) - 1
    BY <1>1, <2>2, <2>3
  <2> QED
    BY <2>4 DEF Newer, T
<1>3. ASSUME NEW r \in S, NEW s \in S, r < s PROVE Newer(S, r) # Newer(S, s)
  <2> DEFINE T == {x \in S : x > r}
             U == {x \in S : x > s}
  <2>1. U \in SUBSET T /\ s \in T /\ s \notin U /\ T \in SUBSET S
    <3>1. r \in Int /\ s \in Int /\ s > r /\ ~(s > s) /\ \A x \in S : x > s => x > r
      BY <1>3
    <3>2. U \in SUBSET T
      BY <3>1
    <3> QED
      BY <3>1, <3>2
  <2> HIDE DEF T, U
  <2>2. IsFiniteSet(T)
    BY <1>1, <2>1, FS_Subset
  <2>3. Cardinality(T) # Cardinality(U)
    BY <2>1, <2>2, FS_Subset
  <2> QED
    BY <2>3 DEF Newer, T, U
<1>4. ASSUME NEW r \in S, NEW s \in S, Newer(S, r) = Newer(S, s) PROVE r = s
  <2>1. r \in Int /\ s \in Int
    OBVIOUS
  <2> QED
    BY <1>3, <1>4, <2>1
<1> QED
  BY <1>1, <1>2, <1>4

\* The rows newest first are each row once.
LEMMA RowsInOrder ==
  ASSUME NEW n \in Nat, NEW S \in SUBSET (1 .. n)
  PROVE  LET s == History!NewestFirst(S) IN
         /\ s \in Seq(1 .. n) /\ Len(s) = Cardinality(S) /\ Shown(s) = S
         /\ \A i, j \in 1 .. Len(s) : s[i] = s[j] => i = j
<1> DEFINE m == Cardinality(S)
           s == History!NewestFirst(S)
           f == [r \in S |-> Newer(S, r) + 1]
<1>1. /\ IsFiniteSet(S) /\ m \in Nat
      /\ \A r \in S : Newer(S, r) \in 0 .. m - 1
      /\ \A r, q \in S : Newer(S, r) = Newer(S, q) => r = q
  BY NewerOrders
<1>2. s = [i \in 1 .. m |-> CHOOSE r \in S : Newer(S, r) = i - 1]
  BY DEF History!NewestFirst, Newer, History!Cardinality, Cardinality
<1> HIDE DEF m, s
<1>3. \A r \in S : f[r] \in 1 .. m /\ f[r] = Newer(S, r) + 1
  BY <1>1
<1>4. f \in Surjection(S, 1 .. m)
  <2>1. f \in Injection(S, 1 .. m)
    BY <1>1, <1>3 DEF Injection, IsInjective
  <2>2. IsFiniteSet(1 .. m) /\ Cardinality(1 .. m) = m
    BY <1>1, FS_Interval
  <2> HIDE DEF f
  <2> QED
    BY <2>1, <2>2, FS_Injection DEF m
<1>5. \A i \in 1 .. m : \E r \in S : Newer(S, r) = i - 1
  <2>1. \A i \in 1 .. m : \E r \in S : f[r] = i
    BY <1>4 DEF Surjection
  <2> QED
    <3> SUFFICES ASSUME NEW i \in 1 .. m PROVE \E r \in S : Newer(S, r) = i - 1
      OBVIOUS
    <3>1. PICK r \in S : f[r] = i
      BY <2>1
    <3> HIDE DEF f
    <3>2. Newer(S, r) = i - 1
      BY <1>1, <1>3, <3>1
    <3> QED
      BY <3>2
<1>6. \A i \in 1 .. m : s[i] \in S /\ Newer(S, s[i]) = i - 1
  BY <1>2, <1>5
<1>7. DOMAIN s = 1 .. m /\ s \in Seq(S) /\ Len(s) = m
  <2>1. s \in [1 .. m -> S]
    BY <1>2, <1>6
  <2> QED
    BY <1>1, <2>1
<1>8. s \in Seq(1 .. n)
  <2>1. s \in [1 .. m -> 1 .. n]
    BY <1>2, <1>6
  <2> QED
    BY <1>1, <2>1
<1>9. Shown(s) = S
  <2>1. ASSUME NEW r \in S PROVE \E i \in 1 .. m : s[i] = r
    <3>1. f[r] \in 1 .. m /\ Newer(S, s[f[r]]) = f[r] - 1 /\ s[f[r]] \in S
      BY <1>3, <1>6
    <3>2. Newer(S, s[f[r]]) = Newer(S, r)
      BY <1>1, <1>3, <3>1
    <3> QED
      BY <1>1, <3>1, <3>2
  <2> HIDE DEF f
  <2> QED
    BY <1>6, <1>7, <2>1 DEF Shown
<1>10. \A i, j \in 1 .. m : s[i] = s[j] => i = j
  BY <1>6
<1> QED
  BY <1>7, <1>8, <1>9, <1>10 DEF m, s

\* What the store keeps: the newest, and all while there is room.
LEMMA NewestKept ==
  ASSUME NEW n \in Nat, NEW S \in SUBSET (1 .. n)
  PROVE  /\ History!NewestOf(S) \subseteq S /\ Cardinality(History!NewestOf(S)) <= Keep
         /\ Cardinality(S) <= Keep => History!NewestOf(S) = S
<1> DEFINE T == History!NewestOf(S)
           f == [r \in T |-> Newer(S, r)]
<1>1. /\ IsFiniteSet(S) /\ Cardinality(S) \in Nat
      /\ \A r \in S : Newer(S, r) \in 0 .. Cardinality(S) - 1
      /\ \A r, q \in S : Newer(S, r) = Newer(S, q) => r = q
  BY NewerOrders
<1>2. T = {r \in S : Newer(S, r) < Keep}
  BY HistoryCardinality DEF History!NewestOf, Newer
<1> HIDE DEF T
<1>3. T \subseteq S /\ Keep \in Nat
  BY <1>2, HistoryAssumption
<1>4. f \in Injection(T, 0 .. Keep - 1)
  <2>1. \A r \in T : Newer(S, r) \in 0 .. Keep - 1
    BY <1>1, <1>2, <1>3
  <2> QED
    BY <1>1, <1>3, <2>1 DEF Injection, IsInjective
<1>5. IsFiniteSet(0 .. Keep - 1) /\ Cardinality(0 .. Keep - 1) = Keep
  BY <1>3, FS_Interval
<1>6. Cardinality(T) <= Keep
  <2> HIDE DEF f
  <2> QED
    BY <1>4, <1>5, FS_Injection
<1>7. Cardinality(S) <= Keep => T = S
  <2> SUFFICES ASSUME Cardinality(S) <= Keep PROVE T = S
    OBVIOUS
  <2>1. \A r \in S : Newer(S, r) < Keep
    BY <1>1, <1>3
  <2> QED
    BY <1>2, <2>1
<1> QED
  BY <1>3, <1>6, <1>7 DEF T

\* The end of a list.
LEMMA EndOfList ==
  ASSUME NEW S, NEW s \in Seq(S), \A i, j \in 1 .. Len(s) : s[i] = s[j] => i = j
  PROVE  LET e == History!Bounded(s) IN
         /\ e \in Seq(S) /\ Len(e) <= Keep /\ Shown(e) \subseteq Shown(s)
         /\ \A i, j \in 1 .. Len(e) : e[i] = e[j] => i = j
         /\ Len(s) <= Keep => e = s
<1> DEFINE k == IF Len(s) <= Keep THEN Len(s) ELSE Keep
           e == History!Bounded(s)
<1>1. Keep \in Nat /\ Len(s) \in Nat /\ k \in 0 .. Len(s) /\ k <= Keep
  BY HistoryAssumption
<1>2. History!Min({Len(s), Keep}) = k
  <2>1. k \in {Len(s), Keep} /\ \A y \in {Len(s), Keep} : k <= y
    BY <1>1
  <2>2. \A x \in {Len(s), Keep} : (\A y \in {Len(s), Keep} : x <= y) => x = k
    BY <1>1
  <2> HIDE DEF k
  <2> QED
    BY <2>1, <2>2 DEF History!Min
<1>3. e = SubSeq(s, Len(s) - k + 1, Len(s))
  BY <1>2 DEF History!Bounded
<1> HIDE DEF k, e
<1>4. /\ e \in Seq(S) /\ Len(e) = k
      /\ \A i \in 1 .. k : e[i] = s[Len(s) - k + i]
  BY <1>1, <1>3
<1>5. /\ DOMAIN e = 1 .. k /\ DOMAIN s = 1 .. Len(s)
      /\ \A i \in 1 .. k : Len(s) - k + i \in 1 .. Len(s)
  BY <1>1, <1>4
<1>6. Shown(e) \subseteq Shown(s)
  BY <1>4, <1>5 DEF Shown
<1>7. \A i, j \in 1 .. k : e[i] = e[j] => i = j
  BY <1>1, <1>4, <1>5
<1>8. Len(s) <= Keep => e = s
  <2> SUFFICES ASSUME Len(s) <= Keep PROVE e = s
    OBVIOUS
  <2>1. k = Len(s)
    BY DEF k
  <2>2. \A i \in 1 .. Len(s) : e[i] = s[i]
    BY <1>1, <1>4, <2>1
  <2> QED
    BY <1>4, <2>1, <2>2, SeqEqual
<1> QED
  BY <1>1, <1>4, <1>6, <1>7, <1>8 DEF e

\* A list is no longer than there are records.
LEMMA NoLongerThanClock ==
  ASSUME NEW n \in Nat, NEW s \in Seq(1 .. n), \A i, j \in 1 .. Len(s) : s[i] = s[j] => i = j
  PROVE  Len(s) <= n
<1>1. s \in Injection(1 .. Len(s), 1 .. n) /\ Len(s) \in Nat
  <2>1. s \in [1 .. Len(s) -> 1 .. n] /\ Len(s) \in Nat
    OBVIOUS
  <2> QED
    BY <2>1 DEF Injection, IsInjective
<1>2. \A k \in Nat : IsFiniteSet(1 .. k) /\ Cardinality(1 .. k) = k
  BY FS_Interval
<1>3. IsFiniteSet(1 .. n) /\ Cardinality(1 .. n) = n /\ Cardinality(1 .. Len(s)) = Len(s)
  BY <1>1, <1>2
<1> QED
  BY <1>1, <1>3, FS_Injection

LEMMA HistoryStarts == History!Init => HistoryInv
<1> SUFFICES ASSUME History!Init PROVE HistoryInv
  OBVIOUS
<1> USE HistoryAssumption
<1>1. /\ clock = 0 /\ items = <<>> /\ stored = {} /\ historyLoaded = FALSE /\ appended = {}
      /\ made = [w \in Writer |-> 0] /\ rows = [r \in Reader |-> History!Unread] /\ spoiled = FALSE
  BY DEF History!Init
<1>2. ListOf(items, clock)
  BY <1>1 DEF ListOf
<1>3. Cardinality(stored) <= Keep
  BY <1>1, FS_EmptySet
<1>4. HistoryTypes
  <2>1. \A r \in Reader : rows[r] = History!Unread
    BY <1>1
  <2>2. /\ clock \in 0 .. LastRecord /\ stored \subseteq 1 .. clock
        /\ historyLoaded \in BOOLEAN /\ spoiled \in BOOLEAN
    <3>1. clock \in 0 .. LastRecord
      BY <1>1
    <3> QED
      BY <1>1, <3>1
  <2>3. made \in [Writer -> 0 .. clock] /\ appended \subseteq {w \in Writer : made[w] # 0}
    BY <1>1
  <2>4. DOMAIN rows = Reader /\ rows = [r \in Reader |-> rows[r]]
    BY <1>1
  <2> QED
    BY <1>2, <1>3, <2>1, <2>2, <2>3, <2>4 DEF HistoryTypes
<1>5. Fresh /\ Agreeing
  BY <1>1 DEF Fresh, Agreeing
<1> QED
  BY <1>4, <1>5 DEF HistoryInv

\* As the clock goes on, a list stays one.
LEMMA ListsStay ==
  ASSUME NEW n \in Nat, NEW k \in Nat, n <= k, NEW s, ListOf(s, n)
  PROVE  ListOf(s, k)
<1>1. s \in Seq(1 .. k)
  <2>1. s \in Seq(1 .. n)
    BY DEF ListOf
  <2>2. s \in [1 .. Len(s) -> 1 .. k] /\ Len(s) \in Nat
    BY <2>1
  <2> QED
    BY <2>2
<1> QED
  BY <1>1 DEF ListOf

\* A list says what it shows.
LEMMA ListShows ==
  ASSUME NEW n \in Nat, NEW s, ListOf(s, n)
  PROVE  Shown(s) \subseteq 1 .. n
<1>1. s \in Seq(1 .. n)
  BY DEF ListOf
<1>2. \A i \in DOMAIN s : s[i] \in 1 .. n
  BY <1>1
<1> QED
  BY <1>2 DEF Shown

\* A thread takes the time.
LEMMA MakeKeeps ==
  ASSUME HistoryInv, NEW w \in Writer, History!Make(w)
  PROVE  HistoryInv'
<1> USE HistoryAssumption
<1>1. /\ made[w] = 0 /\ clock < LastRecord /\ clock' = clock + 1
      /\ made' = [made EXCEPT ![w] = clock + 1]
      /\ spoiled' = (spoiled \/ History!Looking)
      /\ UNCHANGED <<items, stored, historyLoaded, appended, rows>>
  BY DEF History!Make
<1>2. /\ clock \in 0 .. LastRecord /\ clock \in Nat /\ clock' \in Nat /\ clock <= clock'
      /\ stored \subseteq 1 .. clock /\ Cardinality(stored) <= Keep
      /\ made \in [Writer -> 0 .. clock] /\ appended \subseteq {v \in Writer : made[v] # 0}
      /\ ListOf(items, clock)
      /\ \A r \in Reader : rows[r] = History!Unread \/ ListOf(rows[r], clock)
  BY <1>1 DEF HistoryInv, HistoryTypes
<1>3. made'[w] = clock + 1 /\ \A v \in Writer \ {w} : made'[v] = made[v] /\ made'[v] \in 0 .. clock
  BY <1>1, <1>2
<1>4. HistoryTypes'
  <2>1. /\ ListOf(items, clock')
        /\ \A r \in Reader : rows[r] = History!Unread \/ ListOf(rows[r], clock')
    BY <1>2, ListsStay
  <2>2. /\ made' \in [Writer -> 0 .. clock'] /\ clock' \in 0 .. LastRecord
        /\ stored \subseteq 1 .. clock'
    BY <1>1, <1>2
  <2>3. appended \subseteq {v \in Writer : made'[v] # 0}
    BY <1>1, <1>2
  <2>4. spoiled' \in BOOLEAN
    BY <1>1 DEF HistoryInv, HistoryTypes, History!Looking
  <2> QED
    BY <1>1, <1>2, <2>1, <2>2, <2>3, <2>4 DEF HistoryInv, HistoryTypes
<1>5. Fresh'
  <2>1. clock + 1 \notin stored /\ clock + 1 \notin Shown(items)
        /\ \A r \in Reader : rows[r] # History!Unread => clock + 1 \notin Shown(rows[r])
    <3>1. clock + 1 \notin 1 .. clock
      BY <1>2
    <3> QED
      BY <1>2, <3>1, ListShows
  <2>2. \A v \in Writer \ {w} : made[v] # clock + 1
    BY <1>2, <1>3
  <2> SUFFICES ASSUME NEW v \in Writer, made'[v] # 0
               PROVE  /\ made'[v] \notin stored
                      /\ \A r \in Reader : rows[r] # History!Unread => made'[v] \notin Shown(rows[r])
                      /\ v \notin appended => made'[v] \notin Shown(items)
                      /\ \A x \in Writer : made'[x] = made'[v] => x = v
    BY <1>1 DEF Fresh
  <2>3. CASE v = w
    BY <1>3, <2>1, <2>2, <2>3
  <2>4. CASE v # w
    BY <1>3, <2>2, <2>4 DEF HistoryInv, Fresh
  <2> QED
    BY <2>3, <2>4
<1>6. Agreeing'
  <2> SUFFICES ASSUME ~spoiled', clock' <= Keep
               PROVE  /\ \A r \in Reader : rows[r] = History!Unread
                      /\ historyLoaded => Shown(items) = stored \cup {made'[v] : v \in appended}
    BY <1>1 DEF Agreeing
  <2>1. \A r \in Reader : rows[r] = History!Unread
    BY <1>1 DEF History!Looking
  <2>2. {made'[v] : v \in appended} = {made[v] : v \in appended}
    BY <1>1, <1>2, <1>3
  <2>3. ~spoiled
    BY <1>1
  <2>4. clock <= Keep
    BY <1>1, <1>2
  <2> QED
    BY <2>1, <2>2, <2>3, <2>4 DEF HistoryInv, Agreeing
<1> QED
  BY <1>4, <1>5, <1>6 DEF HistoryInv

\* While something is recorded and nothing is spoiled, nobody looks.
LEMMA NobodyLooks ==
  ASSUME HistoryInv, ~spoiled, clock <= Keep, NEW w \in Writer, made[w] # 0
  PROVE  \A r \in Reader : rows[r] = History!Unread
  BY DEF HistoryInv, Agreeing, History!Recording

LEMMA AppendItemKeeps ==
  ASSUME HistoryInv, NEW w \in Writer, History!AppendItem(w)
  PROVE  HistoryInv'
<1> USE HistoryAssumption
<1> DEFINE s == Append(items, made[w])
           e == History!Bounded(s)
<1>1. /\ made[w] # 0 /\ w \notin appended /\ items' = e /\ appended' = appended \cup {w}
      /\ UNCHANGED <<clock, stored, historyLoaded, made, rows, spoiled>>
  BY DEF History!AppendItem
<1>2. /\ clock \in 0 .. LastRecord /\ clock \in Nat
      /\ made \in [Writer -> 0 .. clock] /\ appended \subseteq {v \in Writer : made[v] # 0}
      /\ ListOf(items, clock)
  BY DEF HistoryInv, HistoryTypes
<1>3. made[w] \in 1 .. clock /\ made[w] \notin Shown(items)
  BY <1>1, <1>2 DEF HistoryInv, Fresh
<1>4. /\ items \in Seq(1 .. clock) /\ Len(items) <= Keep /\ Len(items) \in Nat
      /\ \A i, j \in 1 .. Len(items) : items[i] = items[j] => i = j
      /\ DOMAIN items = 1 .. Len(items)
  BY <1>2 DEF ListOf
<1>5. /\ s \in Seq(1 .. clock) /\ Len(s) = Len(items) + 1 /\ DOMAIN s = 1 .. Len(items) + 1
      /\ \A i \in 1 .. Len(items) : s[i] = items[i]
      /\ s[Len(items) + 1] = made[w]
  BY <1>3, <1>4
<1>6. Shown(s) = Shown(items) \cup {made[w]}
  <2> HIDE DEF s
  <2>1. \A i \in 1 .. Len(items) + 1 : i \in 1 .. Len(items) \/ i = Len(items) + 1
    BY <1>4
  <2>2. 1 .. Len(items) \subseteq 1 .. Len(items) + 1 /\ Len(items) + 1 \in 1 .. Len(items) + 1
    BY <1>4
  <2> QED
    BY <1>4, <1>5, <2>1, <2>2 DEF Shown
<1>7. \A i, j \in 1 .. Len(s) : s[i] = s[j] => i = j
  <2> HIDE DEF s
  <2>1. \A i \in 1 .. Len(items) : items[i] # made[w]
    BY <1>3, <1>4 DEF Shown
  <2>2. \A i \in 1 .. Len(s) : i \in 1 .. Len(items) \/ i = Len(items) + 1
    BY <1>4, <1>5
  <2> QED
    BY <1>4, <1>5, <2>1, <2>2
<1> HIDE DEF s
<1>8. /\ e \in Seq(1 .. clock) /\ Len(e) <= Keep /\ Shown(e) \subseteq Shown(s)
      /\ \A i, j \in 1 .. Len(e) : e[i] = e[j] => i = j
      /\ Len(s) <= Keep => e = s
  BY <1>5, <1>7, EndOfList
<1> HIDE DEF e
<1>9. HistoryTypes'
  <2>1. ListOf(items', clock)
    BY <1>1, <1>8 DEF ListOf
  <2> QED
    BY <1>1, <2>1 DEF HistoryInv, HistoryTypes
<1>10. Fresh'
  <2> SUFFICES ASSUME NEW v \in Writer, made[v] # 0, v \notin appended, v # w
               PROVE  made[v] \notin Shown(items')
    BY <1>1 DEF HistoryInv, Fresh
  <2>1. made[v] \notin Shown(items) /\ made[v] # made[w]
    BY <1>1 DEF HistoryInv, Fresh
  <2> QED
    BY <1>1, <1>6, <1>8, <2>1
<1>11. Agreeing'
  <2> SUFFICES ASSUME ~spoiled, clock <= Keep
               PROVE  /\ \A r \in Reader : rows[r] = History!Unread
                      /\ historyLoaded => Shown(items') = stored \cup {made[v] : v \in appended'}
    BY <1>1 DEF Agreeing
  <2>1. \A r \in Reader : rows[r] = History!Unread
    BY <1>1, NobodyLooks
  <2>2. Len(s) <= Keep
    <3>1. Len(s) <= clock
      BY <1>2, <1>5, <1>7, NoLongerThanClock
    <3> QED
      BY <1>2, <1>4, <1>5, <3>1
  <2>3. Shown(items') = Shown(items) \cup {made[w]}
    BY <1>1, <1>6, <1>8, <2>2
  <2>4. {made[v] : v \in appended'} = {made[v] : v \in appended} \cup {made[w]}
    BY <1>1
  <2> QED
    BY <2>1, <2>3, <2>4 DEF HistoryInv, Agreeing
<1> QED
  BY <1>9, <1>10, <1>11 DEF HistoryInv

LEMMA PersistKeeps ==
  ASSUME HistoryInv, NEW w \in Writer, History!Persist(w)
  PROVE  HistoryInv'
<1> USE HistoryAssumption
<1> DEFINE S == stored \cup {made[w]}
<1>1. /\ w \in appended
      /\ \/ stored' = History!NewestOf(S) /\ spoiled' = spoiled
         \/ stored' = stored /\ spoiled' = TRUE
      /\ made' = [made EXCEPT ![w] = 0] /\ appended' = appended \ {w}
      /\ UNCHANGED <<clock, items, historyLoaded, rows>>
  BY DEF History!Persist
<1>2. /\ clock \in 0 .. LastRecord /\ clock \in Nat
      /\ made \in [Writer -> 0 .. clock] /\ appended \subseteq {v \in Writer : made[v] # 0}
      /\ stored \subseteq 1 .. clock
  BY DEF HistoryInv, HistoryTypes
<1>3. made[w] \in 1 .. clock /\ S \in SUBSET (1 .. clock) /\ made[w] # 0
  <2>1. made[w] \in 0 .. clock /\ made[w] # 0
    BY <1>1, <1>2
  <2>2. made[w] \in 1 .. clock
    BY <1>2, <2>1
  <2> QED
    BY <1>2, <2>1, <2>2
<1>4. /\ History!NewestOf(S) \subseteq S /\ Cardinality(History!NewestOf(S)) <= Keep
      /\ Cardinality(S) <= Keep => History!NewestOf(S) = S
  <2> HIDE DEF S
  <2> QED
    BY <1>2, <1>3, NewestKept
<1>5. made'[w] = 0 /\ \A v \in Writer \ {w} : made'[v] = made[v]
  BY <1>2, <1>1
<1> HIDE DEF S
<1>6. HistoryTypes'
  <2>1. stored' \subseteq 1 .. clock /\ Cardinality(stored') <= Keep
    BY <1>1, <1>3, <1>4 DEF HistoryInv, HistoryTypes
  <2>2. made' \in [Writer -> 0 .. clock] /\ appended' \subseteq {v \in Writer : made'[v] # 0}
    BY <1>1, <1>2, <1>5
  <2> QED
    BY <1>1, <2>1, <2>2 DEF HistoryInv, HistoryTypes
<1>7. Fresh'
  <2> SUFFICES ASSUME NEW v \in Writer, made'[v] # 0
               PROVE  /\ made'[v] \notin stored'
                      /\ \A r \in Reader : rows[r] # History!Unread => made'[v] \notin Shown(rows[r])
                      /\ v \notin appended' => made'[v] \notin Shown(items)
                      /\ \A x \in Writer : made'[x] = made'[v] => x = v
    BY <1>1 DEF Fresh
  <2>1. v # w /\ made'[v] = made[v] /\ made[v] # 0
    BY <1>5
  <2>2. made[v] # made[w] /\ made[v] \notin stored
    BY <1>3, <2>1 DEF HistoryInv, Fresh
  <2>3. made[v] \notin stored'
    BY <1>1, <1>4, <2>2 DEF S
  <2>4. \A x \in Writer : made'[x] = made[v] => x = v
    BY <1>5, <2>1 DEF HistoryInv, Fresh
  <2>5. \A r \in Reader : rows[r] # History!Unread => made[v] \notin Shown(rows[r])
    BY <2>1 DEF HistoryInv, Fresh
  <2>6. v \notin appended' => made[v] \notin Shown(items)
    BY <1>1, <2>1 DEF HistoryInv, Fresh
  <2> QED
    BY <2>1, <2>3, <2>4, <2>5, <2>6
<1>8. Agreeing'
  <2> SUFFICES ASSUME ~spoiled', clock <= Keep
               PROVE  /\ \A r \in Reader : rows[r] = History!Unread
                      /\ historyLoaded => Shown(items) = stored' \cup {made'[v] : v \in appended'}
    BY <1>1 DEF Agreeing
  <2>1. ~spoiled /\ stored' = S
    <3>1. ~spoiled /\ stored' = History!NewestOf(S)
      BY <1>1
    <3>2. Cardinality(S) <= Keep
      <4>1. Cardinality(S) <= clock /\ Cardinality(S) \in Nat
        BY <1>2, <1>3, NewerOrders
      <4> QED
        BY <1>2, <4>1
    <3> QED
      BY <1>4, <3>1, <3>2
  <2>2. \A r \in Reader : rows[r] = History!Unread
    BY <1>1, <1>2, <2>1, NobodyLooks
  <2>3. {made[v] : v \in appended} = {made'[v] : v \in appended'} \cup {made[w]}
    BY <1>1, <1>2, <1>5
  <2> QED
    BY <2>1, <2>2, <2>3 DEF HistoryInv, Agreeing, S
<1> QED
  BY <1>6, <1>7, <1>8 DEF HistoryInv

LEMMA ReadRowsKeeps ==
  ASSUME HistoryInv, NEW r \in Reader, History!ReadRows(r)
  PROVE  HistoryInv'
<1> USE HistoryAssumption
<1> DEFINE s == History!NewestFirst(stored)
<1>1. /\ historyLoaded = FALSE /\ rows[r] = History!Unread
      /\ \/ rows' = [rows EXCEPT ![r] = s] /\ spoiled' = (spoiled \/ History!Recording)
         \/ rows' = [rows EXCEPT ![r] = <<>>] /\ spoiled' = TRUE
      /\ UNCHANGED <<clock, items, stored, historyLoaded, made, appended>>
  BY DEF History!ReadRows, HistoryInv, HistoryTypes
<1>2. /\ clock \in Nat /\ stored \in SUBSET (1 .. clock) /\ Cardinality(stored) <= Keep
      /\ rows = [q \in Reader |-> rows[q]]
      /\ \A q \in Reader : rows[q] = History!Unread \/ ListOf(rows[q], clock)
  BY DEF HistoryInv, HistoryTypes
<1>3. ListOf(s, clock) /\ Shown(s) = stored
  BY <1>2, RowsInOrder DEF ListOf
<1>4. ListOf(<<>>, clock) /\ Shown(<<>>) = {}
  BY DEF ListOf, Shown
<1> HIDE DEF s
<1>5. rows'[r] \in {s, <<>>} /\ \A q \in Reader \ {r} : rows'[q] = rows[q]
  BY <1>1, <1>2
<1>6. HistoryTypes'
  <2>1. \A q \in Reader : rows'[q] = History!Unread \/ ListOf(rows'[q], clock)
    BY <1>2, <1>3, <1>4, <1>5
  <2>2. DOMAIN rows' = Reader /\ rows' = [q \in Reader |-> rows'[q]]
    BY <1>1, <1>2
  <2>3. spoiled' \in BOOLEAN
    BY <1>1 DEF HistoryInv, HistoryTypes, History!Recording
  <2> QED
    BY <1>1, <2>1, <2>2, <2>3 DEF HistoryInv, HistoryTypes
<1>7. Fresh'
  <2> SUFFICES ASSUME NEW w \in Writer, made[w] # 0, NEW q \in Reader, rows'[q] # History!Unread
               PROVE  made[w] \notin Shown(rows'[q])
    BY <1>1 DEF HistoryInv, Fresh
  <2>1. made[w] \notin stored
    BY DEF HistoryInv, Fresh
  <2>2. CASE q = r
    BY <1>3, <1>4, <1>5, <2>1, <2>2
  <2>3. CASE q # r
    BY <1>5, <2>3 DEF HistoryInv, Fresh
  <2> QED
    BY <2>2, <2>3
<1>8. Agreeing'
  <2> SUFFICES ASSUME ~spoiled', clock <= Keep, NEW q \in Reader, rows'[q] # History!Unread
               PROVE  ~History!Recording' /\ Shown(rows'[q]) = stored
    BY <1>1 DEF Agreeing
  <2>1. ~spoiled /\ ~History!Recording /\ rows' = [rows EXCEPT ![r] = s]
    BY <1>1
  <2>2. History!Recording' = History!Recording
    BY <1>1 DEF History!Recording
  <2>3. CASE q = r
    <3>1. rows'[q] = s
      BY <1>2, <2>1, <2>3
    <3> QED
      BY <1>3, <2>1, <2>2, <3>1
  <2>4. CASE q # r
    BY <1>5, <2>1, <2>2, <2>4 DEF HistoryInv, Agreeing
  <2> QED
    BY <2>3, <2>4
<1> QED
  BY <1>6, <1>7, <1>8 DEF HistoryInv

LEMMA ReplaceItemsKeeps ==
  ASSUME HistoryInv, NEW r \in Reader, History!ReplaceItems(r)
  PROVE  HistoryInv'
<1> USE HistoryAssumption
<1>1. /\ rows[r] # History!Unread /\ items' = rows[r] /\ historyLoaded' = TRUE
      /\ rows' = [rows EXCEPT ![r] = History!Unread]
      /\ UNCHANGED <<clock, stored, made, appended, spoiled>>
  BY DEF History!ReplaceItems
<1>2. /\ ListOf(rows[r], clock) /\ rows = [q \in Reader |-> rows[q]]
      /\ \A q \in Reader : rows[q] = History!Unread \/ ListOf(rows[q], clock)
  BY <1>1 DEF HistoryInv, HistoryTypes
<1>3. rows'[r] = History!Unread /\ \A q \in Reader \ {r} : rows'[q] = rows[q]
  BY <1>1, <1>2
<1>4. HistoryTypes'
  <2>1. DOMAIN rows' = Reader /\ rows' = [q \in Reader |-> rows'[q]]
    BY <1>1, <1>2
  <2>2. \A q \in Reader : rows'[q] = History!Unread \/ ListOf(rows'[q], clock)
    BY <1>2, <1>3
  <2> QED
    BY <1>1, <1>2, <2>1, <2>2 DEF HistoryInv, HistoryTypes
<1>5. Fresh'
  <2>1. \A q \in Reader : rows'[q] # History!Unread => rows[q] # History!Unread /\ rows'[q] = rows[q]
    BY <1>3
  <2> QED
    BY <1>1, <2>1 DEF HistoryInv, Fresh
<1>6. Agreeing'
  <2> SUFFICES ASSUME ~spoiled, clock <= Keep
               PROVE  /\ \A q \in Reader : rows'[q] # History!Unread =>
                           ~History!Recording' /\ Shown(rows'[q]) = stored
                      /\ Shown(items') = stored \cup {made[w] : w \in appended}
    BY <1>1 DEF Agreeing
  <2>1. History!Recording' = History!Recording
    BY <1>1 DEF History!Recording
  <2>2. ~History!Recording /\ Shown(items') = stored
    BY <1>1 DEF HistoryInv, Agreeing
  <2>3. appended = {}
    BY <2>2 DEF HistoryInv, HistoryTypes, History!Recording
  <2>4. \A q \in Reader : rows'[q] # History!Unread => Shown(rows'[q]) = stored
    BY <1>3 DEF HistoryInv, Agreeing
  <2> QED
    BY <2>1, <2>2, <2>3, <2>4
<1> QED
  BY <1>4, <1>5, <1>6 DEF HistoryInv

LEMMA HistoryRestartKeeps ==
  ASSUME HistoryInv, History!Restart
  PROVE  HistoryInv'
<1> USE HistoryAssumption
<1> DEFINE s == History!NewestFirst(stored)
<1>1. PICK n \in 0 .. History!Cardinality(stored) : items' = SubSeq(s, 1, n)
  BY DEF History!Restart
<1>2. /\ historyLoaded' = FALSE /\ made' = [w \in Writer |-> 0] /\ appended' = {}
      /\ rows' = [r \in Reader |-> History!Unread] /\ spoiled' = FALSE
      /\ UNCHANGED <<clock, stored>>
  BY DEF History!Restart
<1>3. clock \in Nat /\ stored \in SUBSET (1 .. clock) /\ Cardinality(stored) <= Keep
  BY DEF HistoryInv, HistoryTypes
<1>4. /\ s \in Seq(1 .. clock) /\ Len(s) = Cardinality(stored) /\ Cardinality(stored) \in Nat
      /\ \A i, j \in 1 .. Len(s) : s[i] = s[j] => i = j
  BY <1>3, RowsInOrder, NewerOrders
<1> HIDE DEF s
<1>5. ListOf(items', clock)
  <2>1. n \in 0 .. Len(s) /\ n <= Keep
    BY <1>3, <1>4, HistoryCardinality
  <2>2. items' \in Seq(1 .. clock) /\ Len(items') = n /\ \A i \in 1 .. n : items'[i] = s[i]
    <3>0. n \in Int /\ n <= Len(s)
      BY <1>4, <2>1
    <3>1. n \in Int /\ Len(s) \in Nat /\ \A i \in 1 .. n : s[i] \in 1 .. clock
      <4>1. Len(s) \in Nat /\ \A i \in 1 .. Len(s) : s[i] \in 1 .. clock
        <5>1. s \in Seq(1 .. clock)
          BY <1>4
        <5>2. \A i \in 1 .. Len(s) : s[i] \in 1 .. clock
          BY <5>1, ElementOfSeq
        <5> QED
          BY <5>1, <5>2
      <4>2. \A i \in 1 .. n : i \in 1 .. Len(s)
        BY <3>0, <4>1
      <4> QED
        BY <3>0, <4>1, <4>2
    <3>2. /\ SubSeq(s, 1, n) \in Seq(1 .. clock)
          /\ Len(SubSeq(s, 1, n)) = IF 1 <= n THEN n - 1 + 1 ELSE 0
          /\ \A i \in 1 .. n - 1 + 1 : SubSeq(s, 1, n)[i] = s[1 + i - 1]
      BY <3>1, SubSeqProperties, Z3
    <3>3. Len(SubSeq(s, 1, n)) = n /\ \A i \in 1 .. n : SubSeq(s, 1, n)[i] = s[i]
      BY <3>1, <3>2
    <3> QED
      BY <1>1, <3>2, <3>3
  <2>3. \A i, j \in 1 .. n : items'[i] = items'[j] => i = j
    BY <1>4, <2>1, <2>2
  <2> QED
    BY <2>1, <2>2, <2>3 DEF ListOf
<1>6. HistoryTypes'
  <2>1. made' \in [Writer -> 0 .. clock] /\ \A r \in Reader : rows'[r] = History!Unread
    BY <1>2, <1>3
  <2>2. DOMAIN rows' = Reader /\ rows' = [q \in Reader |-> rows'[q]]
    BY <1>2
  <2> QED
    BY <1>2, <1>5, <2>1, <2>2 DEF HistoryInv, HistoryTypes
<1>7. Fresh' /\ Agreeing'
  BY <1>2 DEF Fresh, Agreeing
<1> QED
  BY <1>6, <1>7 DEF HistoryInv

LEMMA HistoryKeeps == HistoryInv /\ [History!Next]_historyVars => HistoryInv'
<1> SUFFICES ASSUME HistoryInv, [History!Next]_historyVars PROVE HistoryInv'
  OBVIOUS
<1>1. CASE UNCHANGED historyVars
  BY <1>1 DEF historyVars, HistoryInv, HistoryTypes, Fresh, Agreeing, History!Recording
<1>2. CASE History!Next
  BY <1>2, MakeKeeps, AppendItemKeeps, PersistKeeps, ReadRowsKeeps, ReplaceItemsKeeps,
    HistoryRestartKeeps DEF History!Next
<1> QED
  BY <1>1, <1>2

LEMMA ListTyped ==
  ASSUME NEW s, ListOf(s, clock), clock \in 0 .. LastRecord
  PROVE  s \in History!BoundedSeq(1 .. LastRecord, Keep)
<1>1. /\ s \in [1 .. Len(s) -> 1 .. LastRecord] /\ Len(s) \in 0 .. Keep
  <2>1. s \in Seq(1 .. clock) /\ Len(s) <= Keep /\ clock \in Nat
    BY HistoryAssumption DEF ListOf
  <2> QED
    BY <2>1, HistoryAssumption
<1> QED
  BY <1>1 DEF History!BoundedSeq, History!SeqOf

LEMMA HistoryIsSound ==
  ASSUME HistoryInv
  PROVE  History!TypeOK /\ History!HistoryAgrees
<1> USE HistoryAssumption
<1>0. HistoryTypes /\ Fresh /\ Agreeing
  BY DEF HistoryInv
<1>1. History!TypeOK
  <2>1. clock \in 0 .. LastRecord /\ clock \in Nat
    BY <1>0 DEF HistoryTypes
  <2>2. stored \subseteq 1 .. LastRecord /\ made \in [Writer -> 0 .. LastRecord]
    <3>1. 1 .. clock \subseteq 1 .. LastRecord /\ 0 .. clock \subseteq 0 .. LastRecord
      BY <2>1
    <3> QED
      BY <1>0, <3>1 DEF HistoryTypes
  <2>3. /\ items \in History!BoundedSeq(1 .. LastRecord, Keep)
        /\ \A r \in Reader : \/ rows[r] = History!Unread
                             \/ rows[r] \in History!BoundedSeq(1 .. LastRecord, Keep)
    BY <1>0, <2>1, ListTyped DEF HistoryTypes
  <2>4. appended \subseteq Writer /\ historyLoaded \in BOOLEAN /\ spoiled \in BOOLEAN
    BY <1>0 DEF HistoryTypes
  <2> QED
    BY <2>1, <2>2, <2>3, <2>4 DEF History!TypeOK
<1>2. History!ShownOnce
  <2>1. History!IsInjective(items)
    <3>1. items \in Seq(1 .. clock) /\ \A i, j \in 1 .. Len(items) : items[i] = items[j] => i = j
      BY <1>0 DEF HistoryTypes, ListOf
    <3>2. DOMAIN items = 1 .. Len(items)
      BY <3>1
    <3> QED
      BY <3>1, <3>2 DEF History!IsInjective
  <2> QED
    BY <1>0, <2>1, HistoryCardinality DEF History!ShownOnce, HistoryTypes
<1>3. History!ShowsWhatIsStored
  <2> SUFFICES ASSUME historyLoaded, ~History!Recording, ~spoiled, clock <= Keep
               PROVE  Shown(items) = stored
    BY DEF History!ShowsWhatIsStored, History!ToSet, Shown
  <2>1. appended = {}
    BY <1>0 DEF HistoryTypes, History!Recording
  <2> QED
    BY <1>0, <2>1 DEF Agreeing
<1> QED
  BY <1>1, <1>2, <1>3 DEF History!HistoryAgrees

\* The sign-in history (signin.py), for any threads and requests, any bound on
\* its records and any failures of the store: nothing is shown twice, the store
\* keeps no more than the bound, and what a first look shows is what a restart
\* would, unless a write failed, a record was made meanwhile or one had to go.
THEOREM HistoryIsShown == PartSpec => []HistorySound
<1> DEFINE Inv == part = "history" => HistoryInv
<1>1. PartInit => Inv
  BY HistoryStarts DEF PartInit
<1>2. Inv /\ [PartNext]_partsVars => Inv'
  <2>1. [PartNext]_partsVars => part' = part /\ (part = "history" => [History!Next]_historyVars)
    BY DEF PartNext, RestOf, partsVars
  <2> QED
    BY <2>1, HistoryKeeps
<1>3. Inv => HistorySound
  BY HistoryIsSound DEF HistorySound
<1> QED
  BY <1>1, <1>2, <1>3, PTL DEF PartSpec

-----------------------------------------------------------------------------
(* The sign-in scan *)

\* A list of members of S, none of them twice.
Once(s, S) == s \in Seq(S) /\ \A i, j \in 1 .. Len(s) : s[i] = s[j] => i = j

Listed == UNION {listed[f] : f \in Folder}
Wanted(a) == Scan!Kind(a) # "unknown" /\ wanted \in {"all", Scan!Kind(a)}
Found == Shown(found) \cup failed \cup signed

ScanTypes ==
    /\ place \in Scan!Places
    /\ attempts \in 0 .. 2 /\ (place = "login" => attempts < 2)
    /\ folders \subseteq Folder /\ Once(courses, Course) /\ Once(found, Activity)
    /\ failures \in Nat /\ posts \in [Activity -> 0 .. 1]
    /\ failed \subseteq Activity /\ signed \subseteq Activity
    /\ verdict \in {"none", "error", "nothing open", "completed"}
    /\ listed \in [Folder -> SUBSET Course]

\* Nothing is signed before the search is over, nor found before the courses are.
NotSignedYet ==
    /\ place \in {"login", "folders", "courses", "activities"} =>
        failed = {} /\ signed = {} /\ \A a \in Activity : posts[a] = 0
    /\ place \in {"login", "folders", "courses"} => found = <<>> /\ failures = 0
    /\ place \in {"login", "folders"} => courses = <<>>

\* The courses found are those of the folders read.
CoursesRead ==
    /\ place = "courses" => Shown(courses) = UNION {listed[f] : f \in Folder \ folders}
    /\ place = "activities" => Shown(courses) \subseteq Listed

\* What is due is found or of a course still to check, or some course could not be
\* checked; what is found is due, and of no course still to check.
Searched ==
    place = "activities" =>
        /\ Shown(found) \subseteq Scan!Due
        /\ \A a \in Shown(found) : open[a] \notin Shown(courses)
        /\ failures = 0 => \A a \in Scan!Due : a \in Shown(found) \/ open[a] \in Shown(courses)

\* What was found is due and is signed, failed or still to sign, and in the last
\* case it was not submitted.
AtSigning == place \in {"sign", "analysis", "analysis2", "prepare", "submit"}
Signing ==
    /\ AtSigning => /\ Found \subseteq Scan!Due /\ Found # {}
                    /\ failures = 0 => Scan!Due \subseteq Found
                    /\ \A a \in Shown(found) : posts[a] = 0
    /\ AtSigning /\ place # "sign" => found # <<>>

Told == place # "reported" => verdict = "none"

ScanInv ==
    /\ ScanTypes /\ NotSignedYet /\ CoursesRead /\ Searched /\ Signing /\ Told
    /\ Scan!VerdictIsTrue /\ Scan!SubmittedOnce

LEMMA ScanCardinality == \A S : Scan!Cardinality(S) = Cardinality(S)
  BY DEF Scan!Cardinality, Cardinality

\* The members of a finite set, in some order.
LEMMA OrderOf ==
  ASSUME NEW S, IsFiniteSet(S)
  PROVE  Once(Scan!SetToSeq(S), S) /\ Shown(Scan!SetToSeq(S)) = S
<1> DEFINE m == Cardinality(S)
           s == Scan!SetToSeq(S)
<1>1. m \in Nat /\ ExistsBijection(1 .. m, S)
  BY FS_CardinalityType
<1>2. PICK f \in [1 .. m -> S] : Scan!IsInjective(f)
  BY <1>1 DEF ExistsBijection, Bijection, Injection, IsInjective, Scan!IsInjective
<1>3. s \in [1 .. m -> S] /\ Scan!IsInjective(s)
  BY <1>2, ScanCardinality DEF Scan!SetToSeq
<1> HIDE DEF s
<1>4. s \in Injection(1 .. m, S)
  BY <1>3 DEF Scan!IsInjective, Injection, IsInjective
<1>5. s \in Surjection(1 .. m, S)
  <2>1. IsFiniteSet(1 .. m) /\ Cardinality(1 .. m) = m
    BY <1>1, FS_Interval
  <2> QED
    BY <1>4, <2>1, FS_Injection
<1>6. Shown(s) = S
  BY <1>3, <1>5 DEF Shown, Surjection
<1>7. s \in Seq(S) /\ Len(s) = m
  <2> HIDE DEF m
  <2> QED
    BY <1>1, <1>3
<1>8. \A i, j \in 1 .. m : s[i] = s[j] => i = j
  BY <1>3 DEF Scan!IsInjective
<1> QED
  BY <1>6, <1>7, <1>8 DEF Once, s

LEMMA OnceWithin ==
  ASSUME NEW S, NEW T, S \subseteq T, NEW s, Once(s, S)
  PROVE  Once(s, T)
<1>1. s \in Seq(S) /\ \A i \in 1 .. Len(s) : s[i] \in T
  <2>1. s \in Seq(S)
    BY DEF Once
  <2>2. \A i \in 1 .. Len(s) : s[i] \in S
    BY <2>1, ElementOfSeq
  <2> QED
    BY <2>1, <2>2
<1>2. s \in Seq(T)
  BY <1>1
<1> QED
  BY <1>2 DEF Once

\* Two such lists with no member in common, and a list of the members of both.
Disjoint(s, t) == Shown(s) \cap Shown(t) = {}
JoinOf(j, s, t, S) == Once(j, S) /\ Shown(j) = Shown(s) \cup Shown(t)

LEMMA JoinedLists ==
  ASSUME NEW S, NEW s, NEW t, Once(s, S), Once(t, S), Disjoint(s, t)
  PROVE  JoinOf(s \o t, s, t, S)
<1> DEFINE m == Len(s)
           n == Len(t)
           j == s \o t
<1>1. /\ s \in Seq(S) /\ t \in Seq(S) /\ m \in Nat /\ n \in Nat
      /\ DOMAIN s = 1 .. m /\ DOMAIN t = 1 .. n
  BY DEF Once
<1>2. /\ j \in Seq(S) /\ Len(j) = m + n /\ DOMAIN j = 1 .. m + n
      /\ \A i \in 1 .. m + n : j[i] = IF i <= m THEN s[i] ELSE t[i - m]
  BY <1>1
<1> HIDE DEF m, n, j
<1>3. /\ \A i \in 1 .. m + n : i <= m => i \in 1 .. m
      /\ \A i \in 1 .. m + n : ~(i <= m) => i - m \in 1 .. n
      /\ \A i \in 1 .. m : i \in 1 .. m + n /\ i <= m
      /\ \A i \in 1 .. n : i + m \in 1 .. m + n /\ ~(i + m <= m) /\ (i + m) - m = i
  BY <1>1
<1>0. (\A i \in 1 .. m : s[i] \in Shown(s)) /\ (\A i \in 1 .. n : t[i] \in Shown(t))
  BY <1>1 DEF Shown
<1>4. Shown(j) = Shown(s) \cup Shown(t)
  <2>1. ASSUME NEW i \in 1 .. m + n PROVE j[i] \in Shown(s) \cup Shown(t)
    <3>1. CASE i <= m
      BY <1>2, <1>3, <3>1, <1>0
    <3>2. CASE ~(i <= m)
      BY <1>2, <1>3, <3>2, <1>0
    <3> QED
      BY <3>1, <3>2
  <2>2. ASSUME NEW i \in 1 .. m PROVE s[i] \in Shown(j)
    <3>1. i \in DOMAIN j /\ j[i] = s[i]
      BY <1>2, <1>3
    <3> QED
      BY <3>1 DEF Shown
  <2>3. ASSUME NEW i \in 1 .. n PROVE t[i] \in Shown(j)
    <3>1. i + m \in DOMAIN j /\ j[i + m] = t[i]
      BY <1>2, <1>3
    <3> QED
      BY <3>1 DEF Shown
  <2>4. Shown(j) \subseteq Shown(s) \cup Shown(t)
    BY <1>2, <2>1 DEF Shown
  <2>5. Shown(s) \subseteq Shown(j)
    BY <1>1, <2>2 DEF Shown
  <2>6. Shown(t) \subseteq Shown(j)
    BY <1>1, <2>3 DEF Shown
  <2> QED
    BY <2>4, <2>5, <2>6
<1>5. ASSUME NEW i \in 1 .. m + n, NEW k \in 1 .. m + n, j[i] = j[k] PROVE i = k
  <2>1. CASE i <= m /\ k <= m
    BY <1>2, <1>3, <1>5, <2>1 DEF Once, m
  <2>2. CASE ~(i <= m) /\ ~(k <= m)
    <3>1. t[i - m] = t[k - m] /\ i - m \in 1 .. n /\ k - m \in 1 .. n
      BY <1>2, <1>3, <1>5, <2>2
    <3>2. i - m = k - m
      BY <3>1 DEF Once, n
    <3> QED
      BY <1>1, <3>2
  <2>3. ~(i <= m /\ ~(k <= m)) /\ ~(k <= m /\ ~(i <= m))
    <3>1. ASSUME NEW a \in 1 .. m + n, NEW b \in 1 .. m + n, a <= m, ~(b <= m) PROVE j[a] # j[b]
      <4>1. j[a] \in Shown(s) /\ j[b] \in Shown(t)
        BY <1>0, <1>2, <1>3, <3>1
      <4> QED
        BY <4>1 DEF Disjoint
    <3> QED
      BY <1>5, <3>1
  <2> QED
    BY <2>1, <2>2, <2>3
<1> QED
  BY <1>2, <1>4, <1>5 DEF JoinOf, Once, j

LEMMA RestOfList ==
  ASSUME NEW S, NEW s, Once(s, S), s # <<>>
  PROVE  /\ Head(s) \in S /\ Head(s) \in Shown(s)
         /\ Once(Tail(s), S) /\ Shown(Tail(s)) = Shown(s) \ {Head(s)}
<1> DEFINE n == Len(s)
           t == Tail(s)
<1>1. s \in Seq(S) /\ n \in Nat \ {0} /\ DOMAIN s = 1 .. n
  BY DEF Once
<1>2. /\ Head(s) = s[1] /\ t \in Seq(S) /\ Len(t) = n - 1 /\ DOMAIN t = 1 .. n - 1
      /\ \A i \in 1 .. n - 1 : t[i] = s[i + 1]
  BY <1>1
<1>3. \A i, j \in 1 .. n : s[i] = s[j] => i = j
  BY DEF Once
<1> HIDE DEF n, t
<1>4. /\ 1 \in 1 .. n
      /\ \A i \in 1 .. n - 1 : i + 1 \in 1 .. n /\ i + 1 # 1
      /\ \A i \in 1 .. n : i # 1 => i - 1 \in 1 .. n - 1 /\ (i - 1) + 1 = i
  BY <1>1
<1>5. Head(s) \in S /\ Head(s) \in Shown(s)
  BY <1>1, <1>2, <1>4 DEF Shown
<1>6. Shown(t) = Shown(s) \ {Head(s)}
  <2>1. ASSUME NEW i \in 1 .. n - 1 PROVE t[i] \in Shown(s) \ {s[1]}
    BY <1>1, <1>2, <1>3, <1>4 DEF Shown
  <2>2. ASSUME NEW i \in 1 .. n, s[i] # s[1] PROVE s[i] \in Shown(t)
    <3>1. i - 1 \in DOMAIN t /\ t[i - 1] = s[i]
      BY <1>2, <1>4, <2>2
    <3> QED
      BY <3>1 DEF Shown
  <2>3. Shown(t) \subseteq Shown(s) \ {s[1]}
    BY <1>2, <2>1 DEF Shown
  <2>4. Shown(s) \ {s[1]} \subseteq Shown(t)
    <3> SUFFICES ASSUME NEW x \in Shown(s), x # s[1] PROVE x \in Shown(t)
      OBVIOUS
    <3>1. PICK i \in 1 .. n : x = s[i]
      BY <1>1 DEF Shown
    <3> QED
      BY <2>2, <3>1
  <2> QED
    BY <1>2, <2>3, <2>4
<1>7. \A i, j \in 1 .. n - 1 : t[i] = t[j] => i = j
  <2> SUFFICES ASSUME NEW i \in 1 .. n - 1, NEW j \in 1 .. n - 1, t[i] = t[j] PROVE i = j
    OBVIOUS
  <2>1. i + 1 = j + 1
    BY <1>2, <1>3, <1>4
  <2> QED
    BY <2>1
<1> QED
  BY <1>2, <1>5, <1>6, <1>7 DEF Once, t

LEMMA NoList ==
  /\ \A S : Once(<<>>, S)
  /\ Shown(<<>>) = {}
  /\ \A S : \A s : Once(s, S) /\ Shown(s) = {} => s = <<>>
<1>1. \A S : Once(<<>>, S)
  BY DEF Once
<1>2. Shown(<<>>) = {}
  BY DEF Shown
<1>3. ASSUME NEW S, NEW s, Once(s, S), s # <<>> PROVE Shown(s) # {}
  BY <1>3, RestOfList
<1> QED
  BY <1>1, <1>2, <1>3

LEMMA ListMembers ==
  ASSUME NEW S, NEW s, Once(s, S)
  PROVE  Shown(s) \subseteq S
<1>1. s \in Seq(S) /\ DOMAIN s = 1 .. Len(s)
  BY DEF Once
<1>2. \A i \in 1 .. Len(s) : s[i] \in S
  BY <1>1, ElementOfSeq
<1> QED
  BY <1>1, <1>2 DEF Shown

\* What is due: the activities of a kind that is wanted in courses that are listed
\* and selected.
LEMMA DueOnes ==
  /\ \A a : a \in Scan!Due <=>
        a \in Activity /\ open[a] \in Listed /\ open[a] \in selected /\ Wanted(a)
  /\ \A c, a : a \in Scan!Matching(c) <=> a \in Activity /\ open[a] = c /\ Wanted(a)
<1>1. \A c, a : a \in Scan!Matching(c) <=> a \in Activity /\ open[a] = c /\ Wanted(a)
  BY DEF Scan!Matching, Wanted
<1>2. \A c : c \in Scan!Taught <=> c \in Listed /\ c \in selected
  BY DEF Scan!Taught, Listed
<1>3. \A a : a \in Scan!Due <=> \E c \in Scan!Taught : a \in Scan!Matching(c)
  BY DEF Scan!Due
<1> QED
  BY <1>1, <1>2, <1>3

\* The platform stays as it is.
LEMMA PlatformStays ==
  ASSUME UNCHANGED Scan!platform
  PROVE  /\ Scan!Due' = Scan!Due /\ Listed' = Listed
         /\ UNCHANGED <<listed, open, selected>>
<1>1. UNCHANGED <<listed, open, wanted, selected, provided>>
  BY DEF Scan!platform
<1>2. Listed' = Listed
  BY <1>1 DEF Listed
<1>3. Scan!Due' = Scan!Due
  <2>1. Scan!Taught' = Scan!Taught
    BY <1>1 DEF Scan!Taught
  <2>2. \A c : Scan!Matching(c)' = Scan!Matching(c)
    BY <1>1 DEF Scan!Matching
  <2> QED
    BY <2>1, <2>2 DEF Scan!Due
<1> QED
  BY <1>1, <1>2, <1>3

LEMMA ScanStarts == Scan!Init => ScanInv
<1> SUFFICES ASSUME Scan!Init PROVE ScanInv
  OBVIOUS
<1>1. /\ place = "login" /\ attempts = 0 /\ folders = {} /\ courses = <<>> /\ failures = 0
      /\ found = <<>> /\ failed = {} /\ signed = {} /\ verdict = "none"
      /\ posts = [a \in Activity |-> 0] /\ listed \in [Folder -> SUBSET Course]
  BY DEF Scan!Init
<1>2. ScanTypes
  BY <1>1, NoList DEF ScanTypes, Scan!Places
<1>3. Scan!SubmittedOnce
  BY <1>1 DEF Scan!SubmittedOnce
<1> QED
  BY <1>1, <1>2, <1>3 DEF ScanInv, NotSignedYet, CoursesRead, Searched, Signing, AtSigning, Told,
                          Scan!VerdictIsTrue

\* A search that fails is over, and says nothing of the activities.
LEMMA ErrorKeeps ==
  ASSUME ScanInv, Scan!Report("error"), UNCHANGED Scan!platform, attempts' \in 0 .. 2,
         UNCHANGED <<folders, courses, failures, found, failed, posts, signed>>
  PROVE  ScanInv'
<1>1. place' = "reported" /\ verdict' = "error"
  BY DEF Scan!Report
<1>2. ScanTypes'
  BY <1>1, PlatformStays DEF ScanInv, ScanTypes, Scan!Places
<1>3. Scan!SubmittedOnce'
  BY PlatformStays DEF ScanInv, Scan!SubmittedOnce
<1> QED
  BY <1>1, <1>2, <1>3 DEF ScanInv, NotSignedYet, CoursesRead, Searched, Signing, AtSigning, Told,
                          Scan!VerdictIsTrue

\* The way to the courses.
LEMMA ReadingKeeps ==
  ASSUME ScanInv, Scan!LogIn \/ Scan!ReadFolders \/ Scan!EndCourses
  PROVE  ScanInv'
<1>0. ScanTypes /\ NotSignedYet /\ CoursesRead /\ Told /\ Scan!SubmittedOnce
  BY DEF ScanInv
<1>1. UNCHANGED Scan!platform /\ UNCHANGED <<courses, failures, found, failed, posts, signed>>
  BY DEF Scan!LogIn, Scan!ReadFolders, Scan!EndCourses, Scan!search, Scan!signing
<1>2. attempts' \in 0 .. 2 /\ (place' = "login" => attempts' < 2)
  <2>1. CASE Scan!LogIn
    <3>1. attempts \in 0 .. 2 /\ attempts < 2 /\ attempts' = attempts + 1
      BY <1>0, <2>1 DEF ScanTypes, Scan!LogIn
    <3>2. place' = "login" => attempts' < 2
      BY <2>1 DEF Scan!LogIn, Scan!Report, Scan!Go
    <3> QED
      BY <3>1, <3>2
  <2>2. CASE Scan!ReadFolders \/ Scan!EndCourses
    <3>1. attempts' = attempts /\ place' # "login"
      BY <2>2 DEF Scan!ReadFolders, Scan!EndCourses, Scan!Report, Scan!Go
    <3> QED
      BY <1>0, <3>1 DEF ScanTypes
  <2> QED
    BY <2>1, <2>2
<1>3. CASE Scan!Report("error")
  <2>1. UNCHANGED folders
    BY <1>3 DEF Scan!Report, Scan!Go, Scan!LogIn, Scan!ReadFolders, Scan!EndCourses, Scan!search
  <2> QED
    BY <1>1, <1>2, <1>3, <2>1, ErrorKeeps
<1>4. CASE ~Scan!Report("error")
  <2>1. /\ place \in {"login", "folders", "courses"} /\ verdict' = verdict
        /\ \/ place = "login" /\ place' \in {"login", "folders"} /\ folders' = folders
           \/ place = "folders" /\ place' = "courses" /\ folders' = Folder
           \/ /\ place = "courses" /\ place' = "activities" /\ folders = {}
              /\ folders' = folders
    BY <1>4 DEF Scan!LogIn, Scan!ReadFolders, Scan!EndCourses, Scan!Go, Scan!search
  <2>2. ScanTypes'
    BY <1>0, <1>1, <1>2, <2>1, PlatformStays DEF ScanTypes, Scan!Places
  <2>3. NotSignedYet' /\ Told' /\ Scan!SubmittedOnce'
    BY <1>0, <1>1, <2>1, PlatformStays DEF NotSignedYet, Told, Scan!SubmittedOnce
  <2>4. CoursesRead'
    BY <1>0, <1>1, <2>1, NoList, PlatformStays DEF NotSignedYet, CoursesRead, Listed
  <2>5. Searched'
    <3> SUFFICES ASSUME place' = "activities" PROVE Searched'
      BY DEF Searched
    <3>1. place = "courses" /\ folders = {} /\ found = <<>>
      BY <1>0, <2>1 DEF NotSignedYet
    <3>2. Shown(found') = {} /\ Shown(courses') = Listed
      BY <1>0, <1>1, <3>1, NoList DEF CoursesRead, Listed
    <3>3. \A a \in Scan!Due' : open'[a] \in Shown(courses')
      BY <1>1, <3>2, DueOnes, PlatformStays
    <3> QED
      BY <3>2, <3>3 DEF Searched
  <2>6. Signing' /\ Scan!VerdictIsTrue'
    BY <1>0, <2>1 DEF Signing, AtSigning, Told, Scan!VerdictIsTrue
  <2> QED
    BY <2>2, <2>3, <2>4, <2>5, <2>6 DEF ScanInv
<1> QED
  BY <1>3, <1>4

\* A folder is read: its courses that are not in the list yet come to it.
LEMMA FolderKeeps ==
  ASSUME ScanInv, Scan!ReadCourses
  PROVE  ScanInv'
<1> USE ScanAssumption
<1>0. ScanTypes /\ NotSignedYet /\ CoursesRead /\ Told /\ Scan!SubmittedOnce
  BY DEF ScanInv
<1>1. /\ place = "courses" /\ folders # {} /\ UNCHANGED Scan!platform
      /\ UNCHANGED <<attempts, failures, found, failed, posts, signed>>
  BY DEF Scan!ReadCourses, Scan!signing
<1>2. CASE Scan!Report("error") /\ UNCHANGED <<folders, courses>>
  <2>1. attempts' \in 0 .. 2
    BY <1>0, <1>1 DEF ScanTypes
  <2> QED
    BY <1>1, <1>2, <2>1, ErrorKeeps
<1>3. CASE /\ courses' = courses \o Scan!NewCourses(Scan!FolderNext)
           /\ folders' = folders \ {Scan!FolderNext}
           /\ UNCHANGED <<place, verdict>>
  <2> DEFINE f == Scan!FolderNext
             new == listed[f] \ Shown(courses)
  <2>1. f \in folders /\ f \in Folder /\ listed[f] \subseteq Course
    <3>1. f \in folders
      BY <1>1 DEF Scan!FolderNext
    <3> QED
      BY <1>0, <3>1 DEF ScanTypes
  <2>2. Scan!NewCourses(f) = Scan!SetToSeq(new)
    BY DEF Scan!NewCourses, Scan!ToSet, Shown
  <2> HIDE DEF f
  <2>3. Once(Scan!SetToSeq(new), new) /\ Shown(Scan!SetToSeq(new)) = new
    <3>1. IsFiniteSet(new)
      BY <2>1, FS_Subset
    <3> QED
      BY <3>1, OrderOf
  <2>4. Once(Scan!SetToSeq(new), Course)
    <3>1. new \subseteq Course
      BY <2>1
    <3> HIDE DEF new
    <3> QED
      BY <2>3, <3>1, OnceWithin
  <2>5. Once(courses', Course) /\ Shown(courses') = Shown(courses) \cup new
    <3>1. Once(courses, Course) /\ Disjoint(courses, Scan!SetToSeq(new))
      BY <1>0, <2>3 DEF ScanTypes, Disjoint
    <3> HIDE DEF new
    <3> QED
      <4> DEFINE more == Scan!SetToSeq(new)
      <4>1. courses' = courses \o more /\ Shown(more) = new /\ Once(more, Course)
        BY <1>3, <2>2, <2>3, <2>4 DEF f
      <4>2. Once(courses, Course) /\ Disjoint(courses, more)
        BY <3>1
      <4> HIDE DEF more
      <4>3. JoinOf(courses \o more, courses, more, Course)
        BY <4>1, <4>2, JoinedLists
      <4> QED
        BY <4>1, <4>3 DEF JoinOf
  <2>6. Shown(courses') = UNION {listed'[g] : g \in Folder \ folders'}
    <3>1. Folder \ folders' = (Folder \ folders) \cup {f}
      BY <1>0, <1>3, <2>1 DEF f, ScanTypes
    <3>2. Shown(courses) = UNION {listed[g] : g \in Folder \ folders}
      BY <1>0, <1>1 DEF CoursesRead
    <3>3. Shown(courses') = UNION {listed[g] : g \in Folder \ folders'}
      BY <2>5, <3>1, <3>2
    <3> QED
      BY <1>1, <3>3, PlatformStays
  <2>7. ScanTypes'
    BY <1>0, <1>1, <1>3, <2>5, PlatformStays DEF ScanTypes, f
  <2>8. NotSignedYet' /\ CoursesRead' /\ Told' /\ Scan!SubmittedOnce'
    BY <1>0, <1>1, <1>3, <2>6, PlatformStays
    DEF NotSignedYet, CoursesRead, Told, Scan!SubmittedOnce
  <2> QED
    BY <1>0, <1>1, <1>3, <2>7, <2>8
    DEF ScanInv, Searched, Signing, AtSigning, Told, Scan!VerdictIsTrue
<1> QED
  BY <1>1, <1>2, <1>3 DEF Scan!ReadCourses

\* A course is checked, could not be, or is not one that the filters let through.
LEMMA CourseKeeps ==
  ASSUME ScanInv, Scan!PassOver \/ Scan!CheckCourse
  PROVE  ScanInv'
<1> USE ScanAssumption
<1> DEFINE c == Head(courses)
<1>0. /\ ScanTypes /\ NotSignedYet /\ CoursesRead /\ Searched /\ Told
      /\ Scan!SubmittedOnce
  BY DEF ScanInv
<1>1. /\ place = "activities" /\ courses # <<>> /\ UNCHANGED Scan!platform
      /\ UNCHANGED <<attempts, folders, failed, posts, signed>>
  BY DEF Scan!PassOver, Scan!CheckCourse, Scan!signing
<1>2. CASE Scan!Report("error") /\ UNCHANGED <<courses, failures, found>>
  <2>1. attempts' \in 0 .. 2
    BY <1>0, <1>1 DEF ScanTypes
  <2> QED
    BY <1>1, <1>2, <2>1, ErrorKeeps
<1>3. CASE courses' = Tail(courses) /\ UNCHANGED <<place, verdict>>
  <2>1. /\ c \in Course /\ c \in Shown(courses)
        /\ Once(courses', Course) /\ Shown(courses') = Shown(courses) \ {c}
    <3>1. Once(courses, Course)
      BY <1>0 DEF ScanTypes
    <3> QED
      BY <1>1, <1>3, <3>1, RestOfList
  <2>2. \/ c \notin selected /\ UNCHANGED <<failures, found>>
        \/ UNCHANGED found /\ failures' = failures + 1
        \/ c \in selected /\ UNCHANGED failures /\ found' = found \o Scan!SetToSeq(Scan!Matching(c))
    BY <1>1, <1>3 DEF Scan!PassOver, Scan!CheckCourse, Scan!Report
  <2> HIDE DEF c
  <2>3. /\ Shown(found) \subseteq Scan!Due
        /\ \A a \in Shown(found) : open[a] \notin Shown(courses)
        /\ failures = 0 => \A a \in Scan!Due : a \in Shown(found) \/ open[a] \in Shown(courses)
    BY <1>0, <1>1 DEF Searched
  <2>4. failures \in Nat /\ Once(found, Activity) /\ Shown(courses) \subseteq Listed
    BY <1>0, <1>1 DEF ScanTypes, CoursesRead
  <2>5. /\ failures' \in Nat /\ Once(found', Activity)
        /\ Shown(found') \subseteq Scan!Due
        /\ \A a \in Shown(found') : open[a] \notin Shown(courses')
        /\ failures' = 0 => \A a \in Scan!Due : a \in Shown(found') \/ open[a] \in Shown(courses')
    <3>1. CASE c \notin selected /\ UNCHANGED <<failures, found>>
      <4>1. \A a \in Scan!Due : open[a] # c
        BY <3>1, DueOnes
      <4> QED
        BY <2>1, <2>3, <2>4, <3>1, <4>1
    <3>2. CASE UNCHANGED found /\ failures' = failures + 1
      <4>1. failures' \in Nat /\ failures' # 0
        BY <2>4, <3>2
      <4> QED
        BY <2>1, <2>3, <2>4, <3>2, <4>1
    <3>3. CASE /\ c \in selected /\ UNCHANGED failures
               /\ found' = found \o Scan!SetToSeq(Scan!Matching(c))
      <4> DEFINE new == Scan!Matching(c)
      <4>1. /\ \A a \in new : a \in Scan!Due /\ open[a] = c
            /\ \A a \in Scan!Due : open[a] = c => a \in new
            /\ new \subseteq Activity
        BY <2>1, <2>4, <3>3, DueOnes
      <4>2. Once(Scan!SetToSeq(new), new) /\ Shown(Scan!SetToSeq(new)) = new
        <5>1. IsFiniteSet(new)
          BY <4>1, FS_Subset
        <5> QED
          BY <5>1, OrderOf
      <4>6. found' = found \o Scan!SetToSeq(new)
        BY <3>3
      <4> HIDE DEF new
      <4>3. Once(Scan!SetToSeq(new), Activity)
        BY <4>1, <4>2, OnceWithin
      <4>4. Shown(found) \cap new = {}
        BY <2>1, <2>3, <4>1
      <4>5. Once(found', Activity) /\ Shown(found') = Shown(found) \cup new
        <5> DEFINE more == Scan!SetToSeq(new)
        <5>1. /\ Once(more, Activity) /\ Shown(more) = new
              /\ found' = found \o more
          BY <4>2, <4>3, <4>6
        <5> HIDE DEF more
        <5>2. Once(found, Activity) /\ Disjoint(found, more)
          BY <2>4, <4>4, <5>1 DEF Disjoint
        <5>3. JoinOf(found \o more, found, more, Activity)
          BY <5>1, <5>2, JoinedLists
        <5> QED
          BY <5>1, <5>3 DEF JoinOf
      <4> QED
        BY <2>1, <2>3, <2>4, <3>3, <4>1, <4>5
    <3> QED
      BY <2>2, <3>1, <3>2, <3>3
  <2>6. ScanTypes'
    BY <1>0, <1>1, <1>3, <2>1, <2>5, PlatformStays DEF ScanTypes
  <2>7. NotSignedYet' /\ CoursesRead' /\ Told' /\ Scan!SubmittedOnce'
    <3>1. Shown(courses') \subseteq Listed'
      BY <1>1, <2>1, <2>4, PlatformStays
    <3> QED
      BY <1>0, <1>1, <1>3, <3>1, PlatformStays
      DEF NotSignedYet, CoursesRead, Told, Scan!SubmittedOnce
  <2>8. Searched'
    BY <1>1, <2>5, PlatformStays DEF Searched
  <2> QED
    BY <1>0, <1>1, <1>3, <2>6, <2>7, <2>8
    DEF ScanInv, Signing, AtSigning, Told, Scan!VerdictIsTrue
<1> QED
  BY <1>1, <1>2, <1>3 DEF Scan!PassOver, Scan!CheckCourse

LEMMA SearchOverKeeps ==
  ASSUME ScanInv, Scan!SearchEnds
  PROVE  ScanInv'
<1>0. ScanTypes /\ NotSignedYet /\ Searched /\ Told /\ Scan!SubmittedOnce
  BY DEF ScanInv
<1>1. /\ place = "activities" /\ courses = <<>> /\ UNCHANGED Scan!platform
      /\ UNCHANGED <<attempts, folders, courses, failures, found, failed, posts, signed>>
  BY DEF Scan!SearchEnds, Scan!search, Scan!signing
<1>2. /\ Shown(found) \subseteq Scan!Due
      /\ failures = 0 => Scan!Due \subseteq Shown(found)
  <2>1. Shown(courses) = {}
    BY <1>1, NoList
  <2> QED
    BY <1>0, <1>1, <2>1 DEF Searched
<1>3. failed = {} /\ signed = {} /\ \A a \in Activity : posts[a] = 0
  BY <1>0, <1>1 DEF NotSignedYet
<1>4. Scan!SubmittedOnce'
  BY <1>0, <1>1, PlatformStays DEF Scan!SubmittedOnce
<1>5. CASE Scan!Report("error")
  <2>1. attempts' \in 0 .. 2
    BY <1>0, <1>1 DEF ScanTypes
  <2> QED
    BY <1>1, <1>5, <2>1, ErrorKeeps
<1>6. CASE found # <<>> /\ Scan!Go("sign")
  <2>1. place' = "sign" /\ verdict' = "none"
    BY <1>0, <1>1, <1>6 DEF Told, Scan!Go
  <2>2. ScanTypes'
    BY <1>0, <1>1, <2>1, PlatformStays DEF ScanTypes, Scan!Places
  <2>3. Shown(found) # {} /\ Shown(found) \subseteq Activity
    BY <1>0, <1>6, NoList, ListMembers DEF ScanTypes
  <2>4. Found' = Shown(found)
    BY <1>1, <1>3 DEF Found
  <2>5. Signing'
    BY <1>1, <1>2, <1>3, <2>1, <2>3, <2>4, PlatformStays DEF Signing, AtSigning
  <2> QED
    BY <1>4, <2>1, <2>2, <2>5
    DEF ScanInv, NotSignedYet, CoursesRead, Searched, Told, Scan!VerdictIsTrue
<1>7. CASE found = <<>> /\ ~(failures > 0) /\ Scan!Report("nothing open")
  <2>1. place' = "reported" /\ verdict' = "nothing open"
    BY <1>7 DEF Scan!Report
  <2>2. failures = 0
    <3>1. failures \in Nat
      BY <1>0 DEF ScanTypes
    <3>2. ~(failures > 0)
      BY <1>7
    <3> QED
      BY <3>1, <3>2
  <2>3. Scan!Due' = {}
    BY <1>1, <1>2, <1>7, <2>2, NoList, PlatformStays
  <2>4. ScanTypes'
    BY <1>0, <1>1, <2>1, PlatformStays DEF ScanTypes, Scan!Places
  <2> QED
    BY <1>4, <2>1, <2>3, <2>4
    DEF ScanInv, NotSignedYet, CoursesRead, Searched, Signing, AtSigning, Told,
        Scan!VerdictIsTrue
<1> QED
  BY <1>5, <1>6, <1>7 DEF Scan!SearchEnds

\* A step on the way to a submission.
LEMMA PassesKeep ==
  ASSUME ScanInv, AtSigning, found # <<>>,
         NEW next \in {"analysis", "analysis2", "prepare", "submit"},
         Scan!Go(next), UNCHANGED <<Scan!platform, attempts, Scan!search, Scan!signing>>
  PROVE  ScanInv'
<1>0. ScanTypes /\ Signing /\ Told /\ Scan!SubmittedOnce
  BY DEF ScanInv
<1>1. /\ place' = next /\ verdict' = "none" /\ UNCHANGED Scan!platform
      /\ UNCHANGED <<attempts, folders, courses, failures, found, failed, posts, signed>>
  BY <1>0 DEF Scan!Go, Scan!search, Scan!signing, Told, AtSigning
<1>2. ScanTypes'
  BY <1>0, <1>1, PlatformStays DEF ScanTypes, Scan!Places
<1>3. Signing' /\ Scan!SubmittedOnce'
  BY <1>0, <1>1, PlatformStays DEF Signing, AtSigning, Found, Scan!SubmittedOnce
<1> QED
  BY <1>1, <1>2, <1>3
  DEF ScanInv, NotSignedYet, CoursesRead, Searched, Told, Scan!VerdictIsTrue

\* The next activity: the one before was signed or failed, and submitted or not.
LEMMA NextKeeps ==
  ASSUME ScanInv, AtSigning, found # <<>>, Scan!Go("sign"), found' = Tail(found),
         UNCHANGED Scan!platform, UNCHANGED <<attempts, folders, courses, failures>>,
         failed' \in {failed, failed \cup {Head(found)}},
         signed' \in {signed, signed \cup {Head(found)}},
         Head(found) \in failed' \cup signed',
         posts' = posts \/ posts' = [posts EXCEPT ![Head(found)] = @ + 1]
  PROVE  ScanInv'
<1> DEFINE a == Head(found)
<1>0. ScanTypes /\ Signing /\ Told /\ Scan!SubmittedOnce
  BY DEF ScanInv
<1>1. place' = "sign" /\ verdict' = "none"
  BY <1>0 DEF Scan!Go, Told, AtSigning
<1>2. /\ a \in Activity /\ a \in Shown(found)
      /\ Once(found', Activity) /\ Shown(found') = Shown(found) \ {a}
  <2>1. Once(found, Activity)
    BY <1>0 DEF ScanTypes
  <2> QED
    BY <2>1, RestOfList
<1> HIDE DEF a
<1>3. Found' = Found
  BY <1>2 DEF Found, a
<1>4. a \in Scan!Due /\ posts[a] = 0 /\ \A b \in Shown(found) : posts[b] = 0
  BY <1>0, <1>2 DEF Signing, Found
<1>5. posts' \in [Activity -> 0 .. 1] /\ \A b \in Activity \ {a} : posts'[b] = posts[b]
  <2>1. posts \in [Activity -> 0 .. 1]
    BY <1>0 DEF ScanTypes
  <2>2. posts' = posts \/ posts' = [posts EXCEPT ![a] = 1]
    BY <1>4 DEF a
  <2> QED
    BY <1>2, <2>1, <2>2
<1>6. ScanTypes'
  BY <1>0, <1>1, <1>2, <1>5, PlatformStays DEF ScanTypes, Scan!Places, a
<1>7. Signing'
  <2>1. \A b \in Shown(found') : posts'[b] = 0
    <3>1. Shown(found) \subseteq Activity
      BY <1>0, ListMembers DEF ScanTypes
    <3> QED
      BY <1>2, <1>4, <1>5, <3>1
  <2> QED
    BY <1>0, <1>1, <1>3, <2>1, PlatformStays DEF Signing, AtSigning
<1>8. Scan!SubmittedOnce'
  <2>1. ASSUME NEW b \in Activity PROVE posts'[b] <= (IF b \in Scan!Due THEN 1 ELSE 0)
    <3>1. CASE b = a
      BY <1>4, <1>5, <3>1
    <3>2. CASE b # a
      BY <1>0, <1>5, <3>2 DEF Scan!SubmittedOnce
    <3> QED
      BY <3>1, <3>2
  <2> QED
    BY <2>1, PlatformStays DEF Scan!SubmittedOnce
<1> QED
  BY <1>1, <1>6, <1>7, <1>8
  DEF ScanInv, NotSignedYet, CoursesRead, Searched, Told, Scan!VerdictIsTrue

LEMMA SigningKeeps ==
  ASSUME ScanInv, Scan!PreSign \/ Scan!Prepare \/ Scan!Submit
  PROVE  ScanInv'
<1>1. AtSigning /\ found # <<>>
  <2>1. \/ place = "sign" /\ found # <<>>
        \/ place \in {"analysis", "analysis2", "prepare", "submit"}
    BY DEF Scan!PreSign, Scan!Prepare, Scan!Submit, Scan!Passes, Scan!Fails
  <2> QED
    BY <2>1 DEF ScanInv, Signing, AtSigning
<1>2. CASE \E stage : \E next \in {"analysis", "analysis2", "prepare", "submit"} :
             Scan!Passes(stage, next)
  BY <1>1, <1>2, PassesKeep DEF Scan!Passes
<1>3. CASE \E stage : Scan!Fails(stage)
  <2>1. /\ Scan!Go("sign") /\ found' = Tail(found) /\ failed' = failed \cup {Head(found)}
        /\ UNCHANGED Scan!platform
        /\ UNCHANGED <<attempts, folders, courses, failures, posts, signed>>
    BY <1>3 DEF Scan!Fails, Scan!NextTask, Scan!Current
  <2> QED
    BY <1>1, <2>1, NextKeeps
<1>4. CASE Scan!Submit
  <2>1. /\ Scan!Go("sign") /\ found' = Tail(found) /\ UNCHANGED Scan!platform
        /\ UNCHANGED <<attempts, folders, courses, failures>>
        /\ posts' = [posts EXCEPT ![Head(found)] = @ + 1]
        /\ \/ signed' = signed \cup {Head(found)} /\ failed' = failed
           \/ /\ signed' \in {signed, signed \cup {Head(found)}}
              /\ failed' = failed \cup {Head(found)}
    BY <1>4 DEF Scan!Submit, Scan!NextTask, Scan!Current
  <2> QED
    BY <1>1, <2>1, NextKeeps
<1> QED
  BY <1>2, <1>3, <1>4 DEF Scan!PreSign, Scan!Prepare

\* The end: all that was found has been signed or failed.
LEMMA VerdictKeeps ==
  ASSUME ScanInv, Scan!Finish
  PROVE  ScanInv'
<1>0. ScanTypes /\ Signing /\ Scan!SubmittedOnce
  BY DEF ScanInv
<1>1. /\ place = "sign" /\ found = <<>> /\ UNCHANGED Scan!platform /\ place' = "reported"
      /\ verdict' = (IF failed = {} THEN "completed" ELSE "error")
      /\ UNCHANGED <<attempts, folders, courses, failures, found, failed, posts, signed>>
  BY DEF Scan!Finish, Scan!Report, Scan!search, Scan!signing
<1>2. Found = failed \cup signed
  BY <1>1, NoList DEF Found
<1>3. Scan!VerdictIsTrue'
  BY <1>0, <1>1, <1>2, PlatformStays DEF Signing, AtSigning, Scan!VerdictIsTrue
<1>4. ScanTypes'
  BY <1>0, <1>1, PlatformStays DEF ScanTypes, Scan!Places
<1>5. Scan!SubmittedOnce'
  BY <1>0, <1>1, PlatformStays DEF Scan!SubmittedOnce
<1> QED
  BY <1>1, <1>3, <1>4, <1>5
  DEF ScanInv, NotSignedYet, CoursesRead, Searched, Signing, AtSigning, Told

LEMMA ScanKeeps == ScanInv /\ [Scan!Next]_scanVars => ScanInv'
<1> SUFFICES ASSUME ScanInv, [Scan!Next]_scanVars PROVE ScanInv'
  OBVIOUS
<1>1. CASE UNCHANGED scanVars
  <2>1. /\ UNCHANGED Scan!platform
        /\ UNCHANGED <<place, attempts, folders, courses, failures, found, failed, posts,
                       signed, verdict>>
    BY <1>1 DEF scanVars, Scan!platform
  <2>2. ScanTypes' /\ NotSignedYet' /\ CoursesRead' /\ Told'
    BY <2>1, PlatformStays DEF ScanInv, ScanTypes, NotSignedYet, CoursesRead, Told
  <2>3. Searched' /\ Signing'
    BY <2>1, PlatformStays DEF ScanInv, Searched, Signing, AtSigning, Found
  <2>4. Scan!VerdictIsTrue' /\ Scan!SubmittedOnce'
    BY <2>1, PlatformStays DEF ScanInv, Scan!VerdictIsTrue, Scan!SubmittedOnce
  <2> QED
    BY <2>2, <2>3, <2>4 DEF ScanInv
<1>2. CASE Scan!Next
  BY <1>2, ReadingKeeps, FolderKeeps, CourseKeeps, SearchOverKeeps, SigningKeeps, VerdictKeeps
  DEF Scan!Next
<1> QED
  BY <1>1, <1>2

\* The search and the signing of a sign-in task (signin.py: get_courses,
\* get_active_tasks, sign_task), for any folders, courses and activities and
\* whatever the platform answers: "nothing open" is said only when nothing is,
\* "completed" only when all that was found is signed, and no activity is
\* submitted twice though its course is in several folders.
THEOREM ScanTellsTruth == PartSpec => []ScanSound
<1> DEFINE Inv == part = "scan" => ScanInv
<1>1. PartInit => Inv
  BY ScanStarts DEF PartInit
<1>2. Inv /\ [PartNext]_partsVars => Inv'
  <2>1. [PartNext]_partsVars => part' = part /\ (part = "scan" => [Scan!Next]_scanVars)
    BY DEF PartNext, RestOf, partsVars
  <2> QED
    BY <2>1, ScanKeeps
<1>3. Inv => ScanSound
  <2> SUFFICES ASSUME ScanInv PROVE Scan!ScanSound
    BY DEF ScanSound
  <2>1. Scan!ToSet(courses) \subseteq Course /\ Scan!ToSet(found) \subseteq Activity
    BY ListMembers DEF ScanInv, ScanTypes, Scan!ToSet, Shown
  <2>2. Scan!TypeOK
    BY <2>1 DEF ScanInv, ScanTypes, Scan!TypeOK
  <2> QED
    BY <2>2 DEF ScanInv, Scan!ScanSound
<1> QED
  BY <1>1, <1>2, <1>3, PTL DEF PartSpec

\* Signing in (signin.py) as a whole: its tasks, their history and their scans.
THEOREM SigninIsSound == PartSpec => []SigninSound
  BY SigninTasksSound, HistoryIsShown, ScanTellsTruth, PTL DEF SigninSound

-----------------------------------------------------------------------------
(* The question bank *)

Posting == {t \in Thread : bankPlace[t] = "post"}
Using(k) == {t \in Thread : bankPlace[t] = "like" /\ key[t] = k}

CacheTypes ==
    /\ memory \in [Title -> {"none", "fits"}] /\ file \in [Title -> {"none", "fits"}]
    /\ bankLoaded \in BOOLEAN /\ known \subseteq Title
AskTypes ==
    /\ Len(chain) \in Nat \ {0}
    /\ bankPlace \in [Thread -> {"idle", "load", "lookup", "ask", "store", "rotate", "loadToken",
                          "like", "post"}]
    /\ title \in [Thread -> Title] /\ key \in [Thread -> Key]
    /\ pos \in [Thread -> 1 .. Len(chain)] /\ tries \in [Thread -> 0 .. MaxTries - 1]
    /\ given \in [Thread -> {"none", "fits"}]
YanxiTypes ==
    /\ index \in 0 .. NumTokens + 1 /\ token \in 0 .. NumTokens - 1
    /\ over \in BOOLEAN /\ spent \subseteq 0 .. NumTokens - 1
LikeTypes ==
    /\ balance \in [Key -> Int] /\ \A k \in Key : balance[k] <= MaxBalance
    /\ count \in 0 .. RefreshEvery - 1
BankTypes == CacheTypes /\ AskTypes /\ YanxiTypes /\ LikeTypes

\* What is in the cache was put there, or read once before anything was.
Cached ==
    /\ \A q \in known : memory[q] # "none"
    /\ ~bankLoaded => known = {}
    /\ \A t \in Thread : bankPlace[t] \notin {"idle", "load"} => bankLoaded
    /\ \A t \in Thread : bankPlace[t] = "store" => given[t] = "fits"

\* A token beyond the first is reached only when the first is used up.
FirstIsSpent ==
    (index > 0 \/ token > 0 \/ over \/ \E t \in Thread : bankPlace[t] = "rotate") => 0 \in spent

\* A permit for each request.
Permitted == free \in 0 .. Permits /\ free = Permits - Cardinality(Posting)

\* The threads that go to use a token had a balance to look at.
Afforded == \A k \in Key : balance[k] >= 1 - Cardinality(Thread) + Cardinality(Using(k))

\* Without the AI one thread asks at a time, and spends what is there.
OneByOne ==
    ~Bank!Concurrent =>
        /\ \A s, t \in Thread : bankPlace[s] # "idle" /\ bankPlace[t] # "idle" => s = t
        /\ \A k \in Key : balance[k] >= 0
        /\ \A t \in Thread : bankPlace[t] = "like" => balance[key[t]] > 0

BankInv == BankTypes /\ Cached /\ FirstIsSpent /\ Permitted /\ Afforded /\ OneByOne

\* The instance has its own name for the number of elements.
LEMMA BankNumber == \A S : Bank!Cardinality(S) = Cardinality(S)
BY DEF Cardinality, Bank!Cardinality

LEMMA ThreadsFinite ==
  /\ Cardinality(Thread) \in Nat \ {0}
  /\ IsFiniteSet(Posting) /\ Cardinality(Posting) \in Nat
  /\ \A k \in Key : IsFiniteSet(Using(k)) /\ Cardinality(Using(k)) \in 0 .. Cardinality(Thread)
<1>1. IsFiniteSet(Thread) /\ Cardinality(Thread) \in Nat /\ Cardinality(Thread) # 0
  BY BankAssumption, FS_CardinalityType, FS_EmptySet
<1>2. \A S \in SUBSET Thread : /\ IsFiniteSet(S) /\ Cardinality(S) \in Nat
                               /\ Cardinality(S) <= Cardinality(Thread)
  BY <1>1, FS_Subset, FS_CardinalityType
<1>3. Posting \in SUBSET Thread /\ \A k \in Key : Using(k) \in SUBSET Thread
  BY DEF Posting, Using
<1>4. \A k \in Key : Cardinality(Using(k)) \in 0 .. Cardinality(Thread)
  BY <1>1, <1>2, <1>3
<1> QED
  BY <1>1, <1>2, <1>3, <1>4

LEMMA BankStarts == Bank!Init => BankInv
<1> SUFFICES ASSUME Bank!Init PROVE BankInv
  OBVIOUS
<1>1. \A t \in Thread : bankPlace[t] = "idle"
  BY DEF Bank!Init
<1>2. Len(chain) \in Nat \ {0}
  <2>1. CASE \E p \in Bank!Providers : chain = <<p>>
    BY <2>1
  <2>2. CASE chain \in [1 .. 2 -> Bank!Providers]
    <3>1. Len(chain) = 2
      BY <2>2
    <3> QED
      BY <3>1
  <2> QED
    BY <2>1, <2>2 DEF Bank!Init
<1>3. AskTypes
  BY <1>2, BankAssumption DEF Bank!Init, AskTypes
<1>4. CacheTypes
  BY DEF Bank!Init, CacheTypes, Bank!Empty
<1>5. YanxiTypes
  <2>1. NumTokens \in Nat \ {0}
    BY BankAssumption
  <2>2. index = 0 /\ token = 0 /\ over = FALSE /\ spent = {}
    BY DEF Bank!Init
  <2>3. index \in 0 .. NumTokens + 1 /\ token \in 0 .. NumTokens - 1
    BY <2>1, <2>2
  <2> QED
    BY <2>2, <2>3 DEF YanxiTypes
<1>6. LikeTypes
  BY BankAssumption DEF Bank!Init, LikeTypes
<1>7. Posting = {} /\ \A k \in Key : Using(k) = {}
  BY <1>1 DEF Posting, Using
<1>8. Permitted
  BY <1>7, BankAssumption, FS_EmptySet DEF Bank!Init, Permitted
<1>9. \A k \in Key : balance[k] \in 0 .. MaxBalance
  BY DEF Bank!Init
<1>10. Afforded
  BY <1>7, <1>9, ThreadsFinite, FS_EmptySet, BankAssumption DEF Afforded
<1>11. OneByOne
  BY <1>1, <1>9, BankAssumption DEF OneByOne
<1>12. Cached /\ FirstIsSpent
  BY <1>1, BankAssumption DEF Bank!Init, Cached, FirstIsSpent
<1> QED
  BY <1>3, <1>4, <1>5, <1>6, <1>8, <1>10, <1>11, <1>12 DEF BankInv, BankTypes

-----------------------------------------------------------------------------
Stages == {"idle", "load", "lookup", "ask", "store", "rotate", "loadToken", "like", "post"}
Moved(t, p) == bankPlace' = [bankPlace EXCEPT ![t] = p]
MayBegin(t) == bankPlace[t] # "idle" \/ Bank!Concurrent \/ \A s \in Thread : bankPlace[s] = "idle"

LEMMA MovedIs ==
  ASSUME AskTypes, NEW t \in Thread, NEW p \in Stages, Moved(t, p)
  PROVE  /\ bankPlace' \in [Thread -> Stages] /\ bankPlace'[t] = p
         /\ \A s \in Thread \ {t} : bankPlace'[s] = bankPlace[s]
BY DEF AskTypes, Stages, Moved

\* One thread at a time.
LEMMA MoveAlone ==
  ASSUME AskTypes, OneByOne, NEW t \in Thread, NEW p \in Stages, Moved(t, p), MayBegin(t)
  PROVE  ~Bank!Concurrent =>
            \A r, s \in Thread : bankPlace'[r] # "idle" /\ bankPlace'[s] # "idle" => r = s
<1>1. bankPlace'[t] = p /\ \A s \in Thread \ {t} : bankPlace'[s] = bankPlace[s]
  BY MovedIs
<1> QED
  BY <1>1 DEF OneByOne, MayBegin

\* A step that makes no request to the AI and does not touch Like's tokens.
LEMMA CalmKeeps ==
  ASSUME AskTypes, Permitted, Afforded, OneByOne,
         NEW t \in Thread, NEW p \in Stages \ {"like", "post"}, Moved(t, p), MayBegin(t),
         bankPlace[t] \notin {"like", "post"}, UNCHANGED <<chain, key, balance, free>>
  PROVE  Permitted' /\ Afforded' /\ OneByOne'
<1>1. bankPlace'[t] = p /\ \A s \in Thread \ {t} : bankPlace'[s] = bankPlace[s]
  BY MovedIs
<1>2. Posting' = Posting
  BY <1>1 DEF Posting
<1>3. \A k \in Key : Using(k)' = Using(k)
  BY <1>1 DEF Using
<1>4. \A s \in Thread : bankPlace'[s] = "like" => bankPlace[s] = "like"
  BY <1>1
<1>5. Bank!Concurrent' = Bank!Concurrent
  BY DEF Bank!Concurrent
<1>6. OneByOne'
  BY <1>4, <1>5, MoveAlone DEF OneByOne
<1> QED
  BY <1>2, <1>3, <1>6 DEF Permitted, Afforded

\* Nor does one that leaves the cache alone turn it.
LEMMA CacheStays ==
  ASSUME AskTypes, CacheTypes, Cached, NEW t \in Thread, NEW p \in Stages, Moved(t, p),
         UNCHANGED <<memory, file, bankLoaded, known>>,
         bankPlace[t] \notin {"idle", "load"} \/ p \in {"idle", "load"},
         given' \in [Thread -> {"none", "fits"}],
         \A s \in Thread \ {t} : given'[s] = given[s],
         p = "store" => given'[t] = "fits"
  PROVE  CacheTypes' /\ Cached'
<1>1. bankPlace'[t] = p /\ \A s \in Thread \ {t} : bankPlace'[s] = bankPlace[s]
  BY MovedIs
<1> QED
  BY <1>1 DEF CacheTypes, Cached

\* Where the chain goes after a provider.
Turned(t, p) ==
    /\ Moved(t, p)
    /\ UNCHANGED <<title, key>>
    /\ pos' \in [Thread -> 1 .. Len(chain)] /\ tries' \in [Thread -> 0 .. MaxTries - 1]
    /\ given' \in [Thread -> {"none", "fits"}]
    /\ \A s \in Thread \ {t} : given'[s] = given[s]
    /\ p = "store" => given'[t] = "fits"

LEMMA MissTurns ==
  ASSUME AskTypes, NEW t \in Thread, Bank!Miss(t)
  PROVE  \E p \in {"idle", "ask"} : Turned(t, p)
<1>1. tries' \in [Thread -> 0 .. MaxTries - 1]
  BY BankAssumption DEF AskTypes, Bank!Miss
<1>2. CASE pos[t] < Len(chain)
  <2>1. pos' = [pos EXCEPT ![t] = pos[t] + 1] /\ Moved(t, "ask") /\ UNCHANGED given
    BY <1>2 DEF Bank!Miss, Bank!Goto, Moved
  <2>2. pos' \in [Thread -> 1 .. Len(chain)]
    BY <1>2, <2>1 DEF AskTypes
  <2>3. Turned(t, "ask")
    BY <1>1, <2>1, <2>2 DEF AskTypes, Bank!Miss, Turned
  <2> QED
    BY <2>3
<1>3. CASE ~(pos[t] < Len(chain))
  <2>1. given' = [given EXCEPT ![t] = "none"] /\ Moved(t, "idle") /\ UNCHANGED pos
    BY <1>3 DEF Bank!Miss, Bank!Goto, Moved
  <2>2. Turned(t, "idle")
    BY <1>1, <2>1 DEF AskTypes, Bank!Miss, Turned
  <2> QED
    BY <2>2
<1> QED
  BY <1>2, <1>3

LEMMA TakesTurns ==
  ASSUME AskTypes, NEW t \in Thread, NEW a \in {"fits", "misfit"}, Bank!Takes(t, a)
  PROVE  \E p \in {"idle", "ask", "store"} : Turned(t, p)
<1>1. CASE a = "fits"
  <2>1. given' = [given EXCEPT ![t] = "fits"] /\ Moved(t, "store") /\ UNCHANGED <<title, pos, tries, key>>
    BY <1>1 DEF Bank!Takes, Bank!Goto, Bank!askers, Moved
  <2>2. Turned(t, "store")
    BY <2>1 DEF AskTypes, Turned
  <2> QED
    BY <2>2
<1>2. CASE a # "fits"
  BY <1>2, MissTurns DEF Bank!Takes
<1> QED
  BY <1>1, <1>2

LEMMA AttemptTurns ==
  ASSUME AskTypes, NEW t \in Thread, Bank!Attempt(t)
  PROVE  \E p \in {"idle", "ask", "store"} : Turned(t, p)
<1>1. CASE /\ tries[t] + 1 < MaxTries /\ tries' = [tries EXCEPT ![t] = tries[t] + 1]
           /\ Moved(t, "ask") /\ UNCHANGED <<title, pos, key, given>>
  <2>1. tries' \in [Thread -> 0 .. MaxTries - 1]
    BY <1>1, BankAssumption DEF AskTypes
  <2>2. Turned(t, "ask")
    BY <1>1, <2>1 DEF AskTypes, Turned
  <2> QED
    BY <2>2
<1>2. CASE Bank!Miss(t)
  BY <1>2, MissTurns
<1>3. CASE \E a \in {"fits", "misfit"} : Bank!Takes(t, a)
  BY <1>3, TakesTurns
<1> QED
  BY <1>1, <1>2, <1>3 DEF Bank!Attempt, Bank!Goto, Moved

\* After such a turn the types and the cache are as before.
LEMMA TurnKeeps ==
  ASSUME BankInv, NEW t \in Thread, NEW p \in {"idle", "ask", "store"}, Turned(t, p),
         bankPlace[t] \notin {"idle", "load"}, UNCHANGED <<chain, memory, file, bankLoaded, known>>
  PROVE  AskTypes' /\ CacheTypes' /\ Cached'
<1>1. AskTypes'
  BY MovedIs DEF BankInv, BankTypes, AskTypes, Turned, Stages
<1>2. p \in Stages
  BY DEF Stages
<1> QED
  BY <1>1, <1>2, CacheStays DEF BankInv, BankTypes, Turned

-----------------------------------------------------------------------------
\* The cache, a provider without tokens, and the next question.
LEMMA QuestionKeeps ==
  ASSUME BankInv, NEW t \in Thread,
         \/ Bank!NextQuestion(t) \/ Bank!Load(t) \/ Bank!LookUp(t) \/ Bank!Store(t)
         \/ Bank!AskPlain(t)
  PROVE  BankInv'
<1>0. AskTypes /\ CacheTypes /\ Cached /\ Permitted /\ Afforded /\ OneByOne
  BY DEF BankInv, BankTypes
<1>1. UNCHANGED <<chain, key, index, token, over, spent, balance, count, free>>
  <2>1. CASE Bank!AskPlain(t)
    <3>1. key' = key
      BY <1>0, <2>1, AttemptTurns DEF Bank!AskPlain, Turned
    <3> QED
      BY <2>1, <3>1 DEF Bank!AskPlain, Bank!yanxi, Bank!like
  <2>2. CASE ~Bank!AskPlain(t)
    BY <2>2 DEF Bank!NextQuestion, Bank!Load, Bank!LookUp, Bank!Store, Bank!askers, Bank!yanxi, Bank!like
  <2> QED
    BY <2>1, <2>2
<1>2. YanxiTypes' /\ LikeTypes'
  BY <1>1 DEF BankInv, BankTypes, YanxiTypes, LikeTypes
<1>3. PICK p \in {"load", "lookup", "idle", "ask", "store"} :
        Moved(t, p) /\ MayBegin(t) /\ bankPlace[t] \notin {"like", "post"}
  <2>1. CASE Bank!AskPlain(t)
    BY <1>0, <2>1, AttemptTurns DEF Bank!AskPlain, Bank!Asking, Turned, MayBegin
  <2>2. CASE ~Bank!AskPlain(t)
    BY <2>2 DEF Bank!NextQuestion, Bank!Load, Bank!LookUp, Bank!Store, Bank!Goto, Moved, MayBegin
  <2> QED
    BY <2>1, <2>2
<1>4. p \in Stages \ {"like", "post"}
  BY DEF Stages
<1>5. Permitted' /\ Afforded' /\ OneByOne'
  BY <1>0, <1>1, <1>3, <1>4, CalmKeeps
<1>6. bankPlace' \in [Thread -> Stages] /\ bankPlace'[t] = p
      /\ \A s \in Thread \ {t} : bankPlace'[s] = bankPlace[s]
  BY <1>0, <1>3, <1>4, MovedIs
<1>7. FirstIsSpent'
  BY <1>1, <1>6 DEF BankInv, FirstIsSpent
<1>8. AskTypes' /\ CacheTypes' /\ Cached'
  <2>1. CASE Bank!NextQuestion(t)
    <3>1. /\ title' \in [Thread -> Title] /\ pos' \in [Thread -> 1 .. Len(chain)]
          /\ tries' \in [Thread -> 0 .. MaxTries - 1]
      BY <1>0, <2>1, BankAssumption DEF AskTypes, Bank!NextQuestion
    <3>2. AskTypes'
      BY <1>0, <1>1, <1>6, <2>1, <3>1 DEF AskTypes, Stages, Bank!NextQuestion
    <3>3. Moved(t, "load") /\ UNCHANGED <<memory, file, bankLoaded, known, given>>
      BY <2>1 DEF Bank!NextQuestion, Bank!Goto, Bank!cacheState, Moved
    <3>4. "load" \in Stages
      BY DEF Stages
    <3> QED
      BY <1>0, <3>2, <3>3, <3>4, CacheStays DEF AskTypes
  <2>2. CASE Bank!Load(t)
    <3>1. /\ Moved(t, "lookup") /\ UNCHANGED <<file, known, title, pos, tries, key, given>>
          /\ bankLoaded' = TRUE /\ (bankLoaded => memory' = memory)
          /\ memory' \in {memory, file, Bank!Empty}
      BY <2>2 DEF Bank!Load, Bank!Goto, Bank!askers, Moved
    <3>2. AskTypes'
      BY <1>0, <1>1, <1>6, <3>1 DEF AskTypes, Stages
    <3>3. CacheTypes'
      BY <1>0, <3>1 DEF CacheTypes, Bank!Empty
    <3>4. bankPlace'[t] = "lookup" /\ \A s \in Thread \ {t} : bankPlace'[s] = bankPlace[s]
      BY <1>0, <3>1, MovedIs DEF Stages
    <3>5. Cached'
      BY <1>0, <3>1, <3>4 DEF CacheTypes, Cached
    <3> QED
      BY <3>2, <3>3, <3>5
  <2>3. CASE Bank!LookUp(t)
    <3>1. /\ bankPlace[t] = "lookup" /\ p \in {"idle", "ask"}
          /\ given' \in [Thread -> {"none", "fits"}]
          /\ \A s \in Thread \ {t} : given'[s] = given[s]
          /\ UNCHANGED <<memory, file, bankLoaded, known, title, pos, tries, key>>
      <4>1. /\ bankPlace[t] = "lookup"
            /\ Moved(t, "idle") \/ Moved(t, "ask")
            /\ given' = given \/ given' = [given EXCEPT ![t] = memory[title[t]]]
            /\ UNCHANGED <<memory, file, bankLoaded, known, title, pos, tries, key>>
        BY <2>3 DEF Bank!LookUp, Bank!Goto, Bank!cacheState, Bank!askers, Moved
      <4>2. memory[title[t]] \in {"none", "fits"}
        BY <1>0 DEF AskTypes, CacheTypes
      <4>3. p \in {"idle", "ask"}
        BY <1>0, <1>6, <4>1, MovedIs DEF Stages
      <4> QED
        BY <1>0, <4>1, <4>2, <4>3 DEF AskTypes
    <3>2. AskTypes'
      BY <1>0, <1>1, <1>6, <3>1 DEF AskTypes, Stages
    <3> QED
      BY <1>0, <1>3, <1>4, <3>1, <3>2, CacheStays
  <2>4. CASE Bank!Store(t)
    <3>1. /\ bankPlace[t] = "store" /\ Moved(t, "idle") /\ UNCHANGED <<title, pos, tries, key, given>>
          /\ memory' = [memory EXCEPT ![title[t]] = given[t]]
          /\ file' \in {file, memory'} /\ known' = known \cup {title[t]} /\ UNCHANGED bankLoaded
      BY <2>4 DEF Bank!Store, Bank!Cache, Bank!Goto, Bank!askers, Moved
    <3>2. title[t] \in Title /\ given[t] = "fits" /\ bankLoaded
      BY <1>0, <3>1 DEF AskTypes, Cached
    <3>3. AskTypes'
      BY <1>0, <1>1, <1>6, <3>1 DEF AskTypes, Stages
    <3>4. CacheTypes'
      BY <1>0, <3>1, <3>2 DEF CacheTypes
    <3>5. bankPlace'[t] = "idle" /\ \A s \in Thread \ {t} : bankPlace'[s] = bankPlace[s]
      BY <1>0, <3>1, MovedIs DEF Stages
    <3>6. Cached'
      BY <1>0, <3>1, <3>2, <3>5 DEF CacheTypes, Cached
    <3> QED
      BY <3>3, <3>4, <3>6
  <2>5. CASE Bank!AskPlain(t)
    BY <1>0, <1>1, <2>5, AttemptTurns, TurnKeeps DEF Bank!AskPlain, Bank!Asking, Bank!cacheState
  <2> QED
    BY <2>1, <2>2, <2>3, <2>4, <2>5
<1> QED
  BY <1>2, <1>5, <1>7, <1>8 DEF BankInv, BankTypes

\* Yanxi: the first token is given up only when it is used up.
LEMMA YanxiKeeps ==
  ASSUME BankInv, NEW t \in Thread, Bank!AskYanxi(t) \/ Bank!Rotate(t) \/ Bank!LoadToken(t)
  PROVE  BankInv'
<1>0. AskTypes /\ CacheTypes /\ Cached /\ Permitted /\ Afforded /\ OneByOne /\ YanxiTypes /\ LikeTypes
      /\ FirstIsSpent
  BY DEF BankInv, BankTypes
<1>1. /\ UNCHANGED <<chain, memory, file, bankLoaded, known, balance, count, free>>
      /\ bankPlace[t] \in {"ask", "rotate", "loadToken"}
  BY DEF Bank!AskYanxi, Bank!Rotate, Bank!LoadToken, Bank!Asking, Bank!cacheState, Bank!like
<1>2. LikeTypes'
  BY <1>0, <1>1 DEF LikeTypes
<1>3. \/ \E p \in {"idle", "ask", "store"} : Turned(t, p)
      \/ \E p \in {"rotate", "loadToken", "ask"} : Moved(t, p) /\ UNCHANGED <<title, pos, tries, key, given>>
  BY <1>0, MissTurns, TakesTurns
     DEF Bank!AskYanxi, Bank!Rotate, Bank!LoadToken, Bank!Goto, Bank!askers, Moved
<1>4. PICK p \in {"idle", "ask", "store", "rotate", "loadToken"} : Moved(t, p) /\ UNCHANGED key
  BY <1>3 DEF Turned
<1>5. p \in Stages \ {"like", "post"} /\ MayBegin(t)
  BY <1>1 DEF Stages, MayBegin
<1>6. Permitted' /\ Afforded' /\ OneByOne'
  BY <1>0, <1>1, <1>4, <1>5, CalmKeeps
<1>7. AskTypes' /\ CacheTypes' /\ Cached'
  <2>1. CASE \E q \in {"idle", "ask", "store"} : Turned(t, q)
    BY <1>1, <2>1, TurnKeeps
  <2>2. ASSUME NEW q \in {"rotate", "loadToken", "ask"}, Moved(t, q),
               UNCHANGED <<title, pos, tries, key, given>>
        PROVE  AskTypes' /\ CacheTypes' /\ Cached'
    <3>1. q \in Stages /\ q # "store"
      BY DEF Stages
    <3>2. AskTypes'
      BY <1>0, <1>1, <2>2, <3>1, MovedIs DEF AskTypes, Stages
    <3> QED
      BY <1>0, <1>1, <2>2, <3>1, <3>2, CacheStays DEF AskTypes
  <2> QED
    BY <1>3, <2>1, <2>2
<1>8. bankPlace'[t] = p /\ \A s \in Thread \ {t} : bankPlace'[s] = bankPlace[s]
  BY <1>0, <1>4, <1>5, MovedIs
<1>9. YanxiTypes' /\ FirstIsSpent'
  <2>1. CASE Bank!AskYanxi(t)
    <3>1. UNCHANGED <<index, token>>
      BY <2>1 DEF Bank!AskYanxi
    <3>2. /\ spent \subseteq spent' /\ spent' \subseteq spent \cup {token}
          /\ over' \in {over, (token \in spent')}
      BY <2>1 DEF Bank!AskYanxi
    <3>3. token \in 0 .. NumTokens - 1 /\ over \in BOOLEAN /\ spent \subseteq 0 .. NumTokens - 1
      BY <1>0 DEF YanxiTypes
    <3>4. (token \in spent') \in BOOLEAN
      OBVIOUS
    <3>5. over' \in BOOLEAN
      BY <3>2, <3>3, <3>4, Zenon
    <3>6. YanxiTypes'
      BY <1>0, <3>1, <3>2, <3>3, <3>5 DEF YanxiTypes
    <3>7. over' => over \/ token \in spent'
      BY <3>2
    <3>8. token \in spent' => 0 \in spent'
      <4>1. CASE token = 0
        BY <4>1
      <4>2. CASE token # 0
        BY <1>0, <3>2, <3>3, <4>2 DEF FirstIsSpent
      <4> QED
        BY <4>1, <4>2
    <3>9. p = "rotate" => over \/ token \in spent
      BY <1>0, <2>1, <1>8, MissTurns, TakesTurns, MovedIs DEF Bank!AskYanxi, Turned, Stages
    <3>10. FirstIsSpent'
      BY <1>0, <1>8, <3>1, <3>2, <3>7, <3>8, <3>9 DEF FirstIsSpent
    <3> QED
      BY <3>6, <3>10
  <2>2. CASE Bank!Rotate(t)
    <3>1. /\ index' = (IF index > NumTokens THEN index ELSE index + 1)
          /\ UNCHANGED <<token, over, spent>>
      BY <2>2 DEF Bank!Rotate
    <3>2. NumTokens \in Nat \ {0}
      BY BankAssumption
    <3>3. YanxiTypes'
      BY <1>0, <3>1, <3>2 DEF YanxiTypes
    <3>4. 0 \in spent
      BY <1>0, <2>2 DEF Bank!Rotate, FirstIsSpent
    <3> QED
      BY <3>1, <3>3, <3>4 DEF FirstIsSpent
  <2>3. CASE Bank!LoadToken(t)
    <3>1. UNCHANGED <<index, over, spent>> /\ (token' = token \/ (index < NumTokens /\ token' = index))
      BY <2>3 DEF Bank!LoadToken
    <3>2. NumTokens \in Nat \ {0}
      BY BankAssumption
    <3>3. YanxiTypes'
      BY <1>0, <3>1, <3>2 DEF YanxiTypes
    <3>4. p # "rotate"
      BY <1>0, <1>8, <2>3, MissTurns, MovedIs DEF Bank!LoadToken, Bank!Goto, Moved, Turned, Stages
    <3>5. FirstIsSpent'
      BY <1>0, <1>8, <3>1, <3>4 DEF FirstIsSpent
    <3> QED
      BY <3>3, <3>5
  <2> QED
    BY <2>1, <2>2, <2>3
<1> QED
  BY <1>2, <1>6, <1>7, <1>9 DEF BankInv, BankTypes

\* Like: a token with a balance is picked, ...
LEMMA PickKeyKeeps ==
  ASSUME BankInv, NEW t \in Thread, Bank!PickKey(t)
  PROVE  BankInv'
<1>0. AskTypes /\ CacheTypes /\ Cached /\ Permitted /\ Afforded /\ OneByOne /\ YanxiTypes /\ LikeTypes
      /\ FirstIsSpent
  BY DEF BankInv, BankTypes
<1>1. /\ UNCHANGED <<chain, memory, file, bankLoaded, known, index, token, over, spent, balance,
                     count, free>>
      /\ bankPlace[t] = "ask"
  BY DEF Bank!PickKey, Bank!Asking, Bank!cacheState, Bank!yanxi, Bank!like
<1>2. YanxiTypes' /\ LikeTypes'
  BY <1>0, <1>1 DEF YanxiTypes, LikeTypes
<1>3. CASE \E p \in {"idle", "ask"} : Turned(t, p)
  <2>1. PICK p \in {"idle", "ask"} : Turned(t, p)
    BY <1>3
  <2>2. AskTypes' /\ CacheTypes' /\ Cached'
    BY <1>1, <2>1, TurnKeeps
  <2>3. p \in Stages \ {"like", "post"} /\ MayBegin(t) /\ Moved(t, p) /\ UNCHANGED key
    BY <1>1, <2>1 DEF Stages, MayBegin, Turned
  <2>4. Permitted' /\ Afforded' /\ OneByOne'
    BY <1>0, <1>1, <2>3, CalmKeeps
  <2>5. bankPlace'[t] = p /\ \A s \in Thread \ {t} : bankPlace'[s] = bankPlace[s]
    BY <1>0, <2>3, MovedIs
  <2>6. FirstIsSpent'
    BY <1>0, <1>1, <2>5 DEF FirstIsSpent
  <2> QED
    BY <1>2, <2>2, <2>4, <2>6 DEF BankInv, BankTypes
<1>4. ASSUME NEW k \in Key, balance[k] > 0, key' = [key EXCEPT ![t] = k], Moved(t, "like"),
             UNCHANGED <<title, pos, tries, given>>
      PROVE  BankInv'
  <2>1. /\ bankPlace' \in [Thread -> Stages] /\ bankPlace'[t] = "like"
        /\ \A s \in Thread \ {t} : bankPlace'[s] = bankPlace[s]
    BY <1>0, <1>4, MovedIs DEF Stages
  <2>2. key' \in [Thread -> Key] /\ key'[t] = k /\ \A s \in Thread \ {t} : key'[s] = key[s]
    BY <1>0, <1>4 DEF AskTypes
  <2>3. AskTypes'
    BY <1>0, <1>1, <1>4, <2>1, <2>2 DEF AskTypes, Stages
  <2>4. CacheTypes' /\ Cached'
    BY <1>0, <1>1, <1>4, <2>1 DEF CacheTypes, Cached
  <2>5. FirstIsSpent'
    BY <1>0, <1>1, <2>1 DEF FirstIsSpent
  <2>6. Posting' = Posting
    BY <1>1, <2>1 DEF Posting
  <2>7. Permitted'
    BY <1>0, <1>1, <2>6 DEF Permitted
  <2>8. \A j \in Key \ {k} : Using(j)' = Using(j)
    BY <1>1, <2>1, <2>2 DEF Using
  <2>9. Cardinality(Using(k)') \in 0 .. Cardinality(Thread)
    <3>1. Using(k)' \subseteq Thread
      BY DEF Using
    <3>2. IsFiniteSet(Using(k)') /\ Cardinality(Using(k)') <= Cardinality(Thread)
      BY <3>1, BankAssumption, FS_Subset
    <3> QED
      BY <3>2, FS_CardinalityType, ThreadsFinite
  <2>10. Afforded'
    <3> SUFFICES ASSUME NEW j \in Key
                 PROVE  balance'[j] >= 1 - Cardinality(Thread) + Cardinality(Using(j)')
      BY DEF Afforded
    <3>1. CASE j = k
      BY <1>0, <1>1, <1>4, <2>9, <3>1, ThreadsFinite DEF LikeTypes
    <3>2. CASE j # k
      BY <1>0, <1>1, <2>8, <3>2 DEF Afforded
    <3> QED
      BY <3>1, <3>2
  <2>11. OneByOne'
    <3>1. Bank!Concurrent' = Bank!Concurrent
      BY <1>1 DEF Bank!Concurrent
    <3>2. ~Bank!Concurrent =>
            \A r, s \in Thread : bankPlace'[r] # "idle" /\ bankPlace'[s] # "idle" => r = s
      BY <1>0, <1>1, <1>4, MoveAlone DEF Stages, MayBegin
    <3> QED
      BY <1>0, <1>1, <1>4, <2>1, <2>2, <3>1, <3>2 DEF OneByOne
  <2> QED
    BY <1>2, <2>3, <2>4, <2>5, <2>7, <2>10, <2>11 DEF BankInv, BankTypes
<1> QED
  BY <1>0, <1>3, <1>4, MissTurns DEF Bank!PickKey, Bank!Goto, Moved

\* ... and what answers is paid for.
LEMMA AskLikeKeeps ==
  ASSUME BankInv, NEW t \in Thread, Bank!AskLike(t)
  PROVE  BankInv'
<1>0. AskTypes /\ CacheTypes /\ Cached /\ Permitted /\ Afforded /\ OneByOne /\ YanxiTypes /\ LikeTypes
      /\ FirstIsSpent
  BY DEF BankInv, BankTypes
<1>1. /\ UNCHANGED <<chain, memory, file, bankLoaded, known, index, token, over, spent, free>>
      /\ bankPlace[t] = "like"
  BY DEF Bank!AskLike, Bank!cacheState, Bank!yanxi
<1>2. YanxiTypes'
  BY <1>0, <1>1 DEF YanxiTypes
<1>3. CASE /\ tries[t] + 1 < MaxTries /\ tries' = [tries EXCEPT ![t] = tries[t] + 1]
           /\ UNCHANGED <<bankPlace, title, pos, key, given, balance, count>>
  <2>1. tries' \in [Thread -> 0 .. MaxTries - 1]
    BY <1>0, <1>3, BankAssumption DEF AskTypes
  <2>2. AskTypes' /\ CacheTypes' /\ Cached' /\ LikeTypes' /\ FirstIsSpent'
    BY <1>0, <1>1, <1>3, <2>1 DEF AskTypes, CacheTypes, Cached, LikeTypes, FirstIsSpent
  <2>3. Permitted' /\ Afforded' /\ OneByOne'
    BY <1>0, <1>1, <1>3 DEF Permitted, Afforded, OneByOne, Posting, Using, Bank!Concurrent
  <2> QED
    BY <1>2, <2>2, <2>3 DEF BankInv, BankTypes
<1>4. ASSUME NEW p \in {"idle", "ask", "store"}, Turned(t, p), count' = (count + 1) % RefreshEvery,
             \/ balance' \in [Key -> 0 .. MaxBalance]
             \/ balance' = balance
             \/ balance' = [balance EXCEPT ![key[t]] = balance[key[t]] - 1]
      PROVE  BankInv'
  <2>0. key[t] \in Key /\ balance \in [Key -> Int]
    BY <1>0 DEF AskTypes, LikeTypes
  <2>1. AskTypes' /\ CacheTypes' /\ Cached'
    BY <1>1, <1>4, TurnKeeps
  <2>2. Moved(t, p) /\ UNCHANGED key
    BY <1>4 DEF Turned
  <2>3. bankPlace'[t] = p /\ \A s \in Thread \ {t} : bankPlace'[s] = bankPlace[s]
    BY <1>0, <2>2, MovedIs DEF Stages
  <2>4. FirstIsSpent'
    BY <1>0, <1>1, <2>3 DEF FirstIsSpent
  <2>5. Posting' = Posting
    BY <1>1, <2>3 DEF Posting
  <2>6. Permitted'
    BY <1>0, <1>1, <2>5 DEF Permitted
  <2>7. \A k \in Key : Using(k)' = Using(k) \ {t} /\ (t \in Using(k) <=> k = key[t])
    BY <1>1, <2>2, <2>3 DEF Using
  <2>8. \A k \in Key : /\ k = key[t] => Cardinality(Using(k)') = Cardinality(Using(k)) - 1
                       /\ k # key[t] => Using(k)' = Using(k)
    <3> SUFFICES ASSUME NEW k \in Key
                 PROVE  /\ k = key[t] => Cardinality(Using(k)') = Cardinality(Using(k)) - 1
                        /\ k # key[t] => Using(k)' = Using(k)
      OBVIOUS
    <3>1. CASE t \in Using(k)
      <4>1. Cardinality(Using(k) \ {t}) = Cardinality(Using(k)) - 1
        BY <3>1, ThreadsFinite, FS_RemoveElement
      <4> QED
        BY <2>7, <3>1, <4>1
    <3>2. CASE t \notin Using(k)
      <4>1. Using(k) \ {t} = Using(k)
        BY <3>2
      <4> QED
        BY <2>7, <3>2, <4>1
    <3> QED
      BY <3>1, <3>2
  <2>9. count' \in 0 .. RefreshEvery - 1
    <3>1. RefreshEvery \in Nat \ {0} /\ count \in Nat
      BY <1>0, BankAssumption DEF LikeTypes
    <3> QED
      BY <1>4, <3>1
  <2>10. LikeTypes'
    <3>1. MaxBalance \in Nat
      BY BankAssumption
    <3>2. CASE balance' \in [Key -> 0 .. MaxBalance]
      BY <2>9, <3>1, <3>2 DEF LikeTypes
    <3>3. CASE balance' = balance
      BY <1>0, <2>9, <3>3 DEF LikeTypes
    <3>4. CASE balance' = [balance EXCEPT ![key[t]] = balance[key[t]] - 1]
      BY <1>0, <2>0, <2>9, <3>1, <3>4 DEF LikeTypes
    <3> QED
      BY <1>4, <3>2, <3>3, <3>4
  <2>11. Afforded'
    <3> SUFFICES ASSUME NEW k \in Key
                 PROVE  balance'[k] >= 1 - Cardinality(Thread) + Cardinality(Using(k)')
      BY DEF Afforded
    <3> DEFINE n == Cardinality(Using(k))
    <3>1. n \in 0 .. Cardinality(Thread) /\ Cardinality(Thread) \in Nat /\ balance[k] \in Int
      BY <2>0, ThreadsFinite
    <3>2. balance[k] >= 1 - Cardinality(Thread) + n
      BY <1>0 DEF Afforded
    <3>3. Cardinality(Using(k)') = IF k = key[t] THEN n - 1 ELSE n
      BY <2>8
    <3>4. t \notin Using(k)' /\ Using(k)' \subseteq Thread
      BY <2>3 DEF Using
    <3>5. Cardinality(Using(k)') <= Cardinality(Thread) - 1
      <4>1. Using(k)' \subseteq Thread \ {t}
        BY <3>4
      <4>2. IsFiniteSet(Thread \ {t}) /\ Cardinality(Thread \ {t}) = Cardinality(Thread) - 1
        BY BankAssumption, FS_RemoveElement
      <4> QED
        BY <4>1, <4>2, FS_Subset
    <3> HIDE DEF n
    <3>6. CASE balance' \in [Key -> 0 .. MaxBalance]
      <4>1. balance'[k] \in 0 .. MaxBalance
        BY <3>6
      <4> QED
        BY <3>1, <3>3, <3>5, <4>1, BankAssumption
    <3>7. CASE balance' = balance
      BY <3>1, <3>2, <3>3, <3>7
    <3>8. CASE balance' = [balance EXCEPT ![key[t]] = balance[key[t]] - 1]
      <4>1. balance'[k] = IF k = key[t] THEN balance[k] - 1 ELSE balance[k]
        BY <2>0, <3>8
      <4> QED
        BY <3>1, <3>2, <3>3, <4>1
    <3> QED
      BY <1>4, <3>6, <3>7, <3>8
  <2>12. OneByOne'
    <3>1. Bank!Concurrent' = Bank!Concurrent
      BY <1>1 DEF Bank!Concurrent
    <3>2. ~Bank!Concurrent =>
            \A r, s \in Thread : bankPlace'[r] # "idle" /\ bankPlace'[s] # "idle" => r = s
      BY <1>0, <1>1, <2>2, MoveAlone DEF Stages, MayBegin
    <3>3. ~Bank!Concurrent => \A s \in Thread : bankPlace'[s] # "like"
      BY <1>0, <1>1, <2>3 DEF OneByOne
    <3>4. ~Bank!Concurrent => \A k \in Key : balance[k] >= 0 /\ balance[key[t]] > 0
      BY <1>0, <1>1 DEF OneByOne
    <3>5. ~Bank!Concurrent => \A k \in Key : balance'[k] >= 0
      <4> SUFFICES ASSUME ~Bank!Concurrent, NEW k \in Key PROVE balance'[k] >= 0
        OBVIOUS
      <4>1. CASE balance' \in [Key -> 0 .. MaxBalance]
        BY <4>1, BankAssumption
      <4>2. CASE balance' = balance
        BY <3>4, <4>2
      <4>3. CASE balance' = [balance EXCEPT ![key[t]] = balance[key[t]] - 1]
        BY <2>0, <3>4, <4>3
      <4> QED
        BY <1>4, <4>1, <4>2, <4>3
    <3> QED
      BY <3>1, <3>2, <3>3, <3>5 DEF OneByOne
  <2> QED
    BY <1>2, <2>1, <2>4, <2>6, <2>10, <2>11, <2>12 DEF BankInv, BankTypes
<1>5. PICK a \in {"none", "fits", "misfit"} :
        IF a = "none" /\ tries[t] + 1 < MaxTries
        THEN /\ tries' = [tries EXCEPT ![t] = tries[t] + 1]
             /\ UNCHANGED <<bankPlace, title, pos, key, given, balance, count>>
        ELSE /\ count' = (count + 1) % RefreshEvery
             /\ \/ balance' \in [Key -> 0 .. MaxBalance]
                \/ balance' = [balance EXCEPT ![key[t]] =
                                 IF a = "none" THEN balance[key[t]] ELSE balance[key[t]] - 1]
             /\ IF a = "none" THEN Bank!Miss(t) ELSE Bank!Takes(t, a)
  BY DEF Bank!AskLike, Bank!like
<1>6. CASE ~(a = "none" /\ tries[t] + 1 < MaxTries)
  <2>1. \E p \in {"idle", "ask", "store"} : Turned(t, p)
    <3>1. CASE a = "none"
      BY <1>0, <1>5, <1>6, <3>1, MissTurns
    <3>2. CASE a # "none"
      <4>1. a \in {"fits", "misfit"}
        BY <3>2
      <4> QED
        BY <1>0, <1>5, <1>6, <3>2, <4>1, TakesTurns
    <3> QED
      BY <3>1, <3>2
  <2>2. count' = (count + 1) % RefreshEvery
    BY <1>5, <1>6
  <2>3. \/ balance' \in [Key -> 0 .. MaxBalance] \/ balance' = balance
        \/ balance' = [balance EXCEPT ![key[t]] = balance[key[t]] - 1]
    <3>1. [balance EXCEPT ![key[t]] = balance[key[t]]] = balance
      BY <1>0 DEF LikeTypes
    <3> QED
      BY <1>5, <1>6, <3>1
  <2> QED
    BY <1>4, <2>1, <2>2, <2>3
<1> QED
  BY <1>3, <1>5, <1>6

\* The AI: a permit is held during a request.
LEMMA RequestKeeps ==
  ASSUME BankInv, NEW t \in Thread, Bank!Acquire(t) \/ Bank!Post(t)
  PROVE  BankInv'
<1>0. AskTypes /\ CacheTypes /\ Cached /\ Permitted /\ Afforded /\ OneByOne /\ YanxiTypes /\ LikeTypes
      /\ FirstIsSpent
  BY DEF BankInv, BankTypes
<1>1. /\ UNCHANGED <<chain, memory, file, bankLoaded, known, index, token, over, spent, balance, count>>
      /\ bankPlace[t] \in {"ask", "post"}
  BY DEF Bank!Acquire, Bank!Post, Bank!Asking, Bank!cacheState, Bank!yanxi, Bank!like
<1>2. YanxiTypes' /\ LikeTypes'
  BY <1>0, <1>1 DEF YanxiTypes, LikeTypes
<1>3. PICK p \in {"idle", "ask", "store", "post"} : Moved(t, p) /\ UNCHANGED key /\
        \/ Turned(t, p) /\ p # "post"
        \/ p = "post" /\ UNCHANGED <<title, pos, tries, given>>
  BY <1>0, AttemptTurns DEF Bank!Acquire, Bank!Post, Bank!Goto, Bank!askers, Moved, Turned
<1>4. p \in Stages /\ MayBegin(t)
  BY <1>1 DEF Stages, MayBegin
<1>5. /\ bankPlace' \in [Thread -> Stages] /\ bankPlace'[t] = p
      /\ \A s \in Thread \ {t} : bankPlace'[s] = bankPlace[s]
  BY <1>0, <1>3, <1>4, MovedIs
<1>6. AskTypes' /\ CacheTypes' /\ Cached'
  <2>1. CASE Turned(t, p) /\ p # "post"
    <3>1. p \in {"idle", "ask", "store"}
      BY <2>1
    <3> QED
      BY <1>1, <2>1, <3>1, TurnKeeps
  <2>2. CASE p = "post" /\ UNCHANGED <<title, pos, tries, given>>
    <3>1. AskTypes'
      BY <1>0, <1>1, <1>3, <1>5, <2>2 DEF AskTypes, Stages
    <3>2. given' \in [Thread -> {"none", "fits"}]
      BY <3>1 DEF AskTypes
    <3> QED
      BY <1>0, <1>1, <1>3, <1>4, <2>2, <3>1, <3>2, CacheStays
  <2> QED
    BY <1>3, <2>1, <2>2
<1>7. FirstIsSpent'
  BY <1>0, <1>1, <1>5 DEF FirstIsSpent
<1>8. Permitted'
  <2>1. CASE Bank!Acquire(t)
    <3>1. bankPlace[t] = "ask" /\ free > 0 /\ free' = free - 1 /\ Moved(t, "post")
      BY <2>1 DEF Bank!Acquire, Bank!Asking, Bank!Goto, Moved
    <3>2. bankPlace'[t] = "post" /\ \A s \in Thread \ {t} : bankPlace'[s] = bankPlace[s]
      BY <1>0, <3>1, MovedIs DEF Stages
    <3>3. Posting' = Posting \cup {t} /\ t \notin Posting
      BY <3>1, <3>2 DEF Posting
    <3>4. Cardinality(Posting') = Cardinality(Posting) + 1
      BY <3>3, ThreadsFinite, FS_AddElement
    <3> QED
      BY <1>0, <3>1, <3>4, ThreadsFinite, BankAssumption DEF Permitted
  <2>2. CASE Bank!Post(t)
    <3>1. bankPlace[t] = "post" /\ free' = free + 1
      BY <2>2 DEF Bank!Post
    <3>2. PICK q \in {"idle", "ask", "store"} : Moved(t, q)
      BY <1>0, <2>2, AttemptTurns DEF Bank!Post, Turned
    <3>3. bankPlace'[t] # "post" /\ \A s \in Thread \ {t} : bankPlace'[s] = bankPlace[s]
      BY <1>0, <3>2, MovedIs DEF Stages
    <3>4. Posting' = Posting \ {t} /\ t \in Posting
      BY <3>1, <3>3 DEF Posting
    <3>5. Cardinality(Posting') = Cardinality(Posting) - 1 /\ Cardinality(Posting) \in Nat
      BY <3>4, ThreadsFinite, FS_RemoveElement
    <3>6. Cardinality(Posting) # 0
      BY <3>4, ThreadsFinite, FS_EmptySet
    <3> QED
      BY <1>0, <3>1, <3>5, <3>6, BankAssumption DEF Permitted
  <2> QED
    BY <2>1, <2>2
<1>9. \A k \in Key : Using(k)' = Using(k)
  BY <1>1, <1>3, <1>5 DEF Using
<1>10. Afforded'
  BY <1>0, <1>1, <1>9 DEF Afforded
<1>11. OneByOne'
  <2>1. Bank!Concurrent' = Bank!Concurrent
    BY <1>1 DEF Bank!Concurrent
  <2>2. ~Bank!Concurrent =>
          \A r, s \in Thread : bankPlace'[r] # "idle" /\ bankPlace'[s] # "idle" => r = s
    BY <1>0, <1>3, <1>4, MoveAlone
  <2> QED
    BY <1>0, <1>1, <1>3, <1>5, <2>1, <2>2 DEF OneByOne
<1> QED
  BY <1>2, <1>6, <1>7, <1>8, <1>10, <1>11 DEF BankInv, BankTypes

\* The other tasks of the process, and a new process.
LEMMA BeyondKeeps ==
  ASSUME BankInv, Bank!CachedElsewhere \/ Bank!Restart \/ UNCHANGED bankVars
  PROVE  BankInv'
<1>0. AskTypes /\ CacheTypes /\ Cached /\ Permitted /\ Afforded /\ OneByOne /\ YanxiTypes /\ LikeTypes
      /\ FirstIsSpent
  BY DEF BankInv, BankTypes
<1>1. CASE Bank!CachedElsewhere \/ UNCHANGED bankVars
  <2>1. UNCHANGED <<chain, bankPlace, title, pos, tries, key, given, index, token, over, spent,
                    balance, count, free>>
    BY <1>1 DEF Bank!CachedElsewhere, Bank!askers, Bank!yanxi, Bank!like, bankVars
  <2>2. AskTypes' /\ YanxiTypes' /\ LikeTypes' /\ FirstIsSpent'
    BY <1>0, <2>1 DEF AskTypes, YanxiTypes, LikeTypes, FirstIsSpent
  <2>3. Permitted' /\ Afforded' /\ OneByOne'
    BY <1>0, <2>1 DEF Permitted, Afforded, OneByOne, Posting, Using, Bank!Concurrent
  <2>4. CASE UNCHANGED bankVars
    <3>1. CacheTypes' /\ Cached'
      BY <1>0, <2>4 DEF CacheTypes, Cached, bankVars
    <3> QED
      BY <2>2, <2>3, <3>1 DEF BankInv, BankTypes
  <2>5. ASSUME NEW q \in Title, bankLoaded, Bank!Cache(q, "fits") PROVE BankInv'
    <3>1. /\ memory' = [memory EXCEPT ![q] = "fits"] /\ file' \in {file, memory'}
          /\ known' = known \cup {q} /\ UNCHANGED bankLoaded
      BY <2>5 DEF Bank!Cache
    <3>2. CacheTypes' /\ Cached'
      BY <1>0, <2>1, <2>5, <3>1 DEF CacheTypes, Cached
    <3> QED
      BY <2>2, <2>3, <3>2 DEF BankInv, BankTypes
  <2> QED
    BY <1>1, <2>4, <2>5 DEF Bank!CachedElsewhere
<1>2. CASE Bank!Restart
  <2>1. /\ memory' = Bank!Empty /\ bankLoaded' = FALSE /\ known' = {} /\ UNCHANGED file
        /\ bankPlace' = [t \in Thread |-> "idle"] /\ given' = [t \in Thread |-> "none"]
        /\ index' = 0 /\ token' = 0 /\ over' = FALSE /\ UNCHANGED spent
        /\ count' = 0 /\ balance' \in [Key -> 0 .. MaxBalance]
        /\ free' = Permits /\ UNCHANGED <<chain, title, pos, tries, key>>
    BY <1>2 DEF Bank!Restart, Bank!askers
  <2>2. CacheTypes' /\ Cached'
    BY <1>0, <2>1 DEF CacheTypes, Cached, Bank!Empty
  <2>3. AskTypes'
    BY <1>0, <2>1 DEF AskTypes
  <2>4. NumTokens \in Nat \ {0} /\ RefreshEvery \in Nat \ {0} /\ MaxBalance \in Nat /\ Permits \in Nat
    BY BankAssumption
  <2>5. YanxiTypes'
    <3>1. index' \in 0 .. NumTokens + 1 /\ token' \in 0 .. NumTokens - 1
      BY <2>1, <2>4
    <3> QED
      BY <1>0, <2>1, <3>1 DEF YanxiTypes
  <2>6. LikeTypes'
    BY <2>1, <2>4 DEF LikeTypes
  <2>7. FirstIsSpent'
    BY <2>1 DEF FirstIsSpent
  <2>8. Posting' = {} /\ \A k \in Key : Using(k)' = {}
    BY <2>1 DEF Posting, Using
  <2>9. Permitted'
    BY <2>1, <2>4, <2>8, FS_EmptySet DEF Permitted
  <2>10. Afforded'
    <3>1. \A k \in Key : Cardinality(Using(k)') = 0
      BY <2>8, FS_EmptySet
    <3>2. \A k \in Key : balance'[k] \in 0 .. MaxBalance
      BY <2>1
    <3> QED
      BY <2>4, <3>1, <3>2, ThreadsFinite DEF Afforded
  <2>11. OneByOne'
    BY <2>1, <2>4 DEF OneByOne
  <2> QED
    BY <2>2, <2>3, <2>5, <2>6, <2>7, <2>9, <2>10, <2>11 DEF BankInv, BankTypes
<1> QED
  BY <1>1, <1>2

LEMMA BankKeeps == BankInv /\ [Bank!Next]_bankVars => BankInv'
BY QuestionKeeps, YanxiKeeps, PickKeyKeeps, AskLikeKeeps, RequestKeeps, BeyondKeeps
   DEF Bank!Next, Bank!Step

LEMMA BankIsSound == BankInv => Bank!BankSound
<1> SUFFICES ASSUME BankInv PROVE Bank!BankSound
  OBVIOUS
<1>0. AskTypes /\ CacheTypes /\ Cached /\ Permitted /\ Afforded /\ OneByOne /\ YanxiTypes /\ LikeTypes
      /\ FirstIsSpent
  BY DEF BankInv, BankTypes
<1>1. \A k \in Key : balance[k] \in 1 - Cardinality(Thread) .. MaxBalance
  BY <1>0, ThreadsFinite, BankAssumption DEF LikeTypes, Afforded
<1>2. balance \in [Key -> 1 - Bank!Cardinality(Thread) .. MaxBalance]
  BY <1>0, <1>1, BankNumber DEF LikeTypes
<1>3. /\ {memory, file} \subseteq [Title -> {"none", "fits", "misfit"}]
      /\ {bankLoaded, over} \subseteq BOOLEAN /\ known \subseteq Title
  BY <1>0 DEF CacheTypes, YanxiTypes
<1>4. Bank!TypeOK
  BY <1>0, <1>2, <1>3 DEF AskTypes, YanxiTypes, LikeTypes, Permitted, Bank!TypeOK
<1>5. Bank!CacheIsTrusted
  <2>1. \A q \in Title : memory[q] # "misfit" /\ file[q] # "misfit"
    BY <1>0 DEF CacheTypes
  <2>2. \A t \in Thread : given[t] # "misfit"
    BY <1>0 DEF AskTypes
  <2> QED
    BY <1>0, <2>1, <2>2 DEF Cached, Bank!CacheIsTrusted
<1>6. Bank!MeansAreKept
  <2>1. ~Bank!Concurrent => Cardinality(Bank!Busy) <= 1
    <3> SUFFICES ASSUME ~Bank!Concurrent PROVE Cardinality(Bank!Busy) <= 1
      OBVIOUS
    <3>1. CASE Bank!Busy = {}
      BY <3>1, FS_EmptySet
    <3>2. ASSUME NEW t \in Bank!Busy PROVE Cardinality(Bank!Busy) <= 1
      <4>1. Bank!Busy = {t}
        BY <1>0, <3>2 DEF Bank!Busy, OneByOne
      <4>2. Cardinality({t}) = 1
        BY FS_Singleton, Zenon
      <4> QED
        BY <4>1, <4>2
    <3> QED
      BY <3>1, <3>2
  <2>2. token > 0 => 0 \in spent
    BY <1>0 DEF FirstIsSpent
  <2>3. free = Permits - Cardinality(Posting)
    BY <1>0 DEF Permitted
  <2>4. ~Bank!Concurrent => \A k \in Key : balance[k] >= 0
    BY <1>0 DEF OneByOne
  <2> QED
    BY <2>1, <2>2, <2>3, <2>4, BankNumber DEF Posting, Bank!MeansAreKept
<1> QED
  BY <1>4, <1>5, <1>6 DEF Bank!BankSound

\* The question bank (answer_base.py, answer_providers, answer_cache.py), for any
\* threads, tokens, balances and permits: no answer that does not fit is given or
\* cached, what was cached stays known, and permits and tokens are not lost.
THEOREM AnswersFitAndMeansLast == PartSpec => []BankSound
<1> DEFINE Inv == part = "bank" => BankInv
<1>1. PartInit => Inv
  BY BankStarts DEF PartInit
<1>2. Inv /\ [PartNext]_partsVars => Inv'
  <2>1. [PartNext]_partsVars => part' = part /\ (part = "bank" => [Bank!Next]_bankVars)
    BY DEF PartNext, RestOf, partsVars
  <2> QED
    BY <2>1, BankKeeps
<1>3. Inv => BankSound
  BY BankIsSound DEF BankSound
<1> QED
  BY <1>1, <1>2, <1>3, PTL DEF PartSpec

-----------------------------------------------------------------------------
(* The task feed *)

RegistryTypes == logins \in 0 .. MaxLogins /\ entry \in 0 .. logins
TaskTypes ==
    /\ latest \in [Feed!Adapter -> 0 .. MaxTasks]
    /\ feedOwner \in [Feed!FeedTask -> 0 .. MaxLogins]
    /\ state \in [Feed!FeedTask -> Feed!Active \cup Feed!Terminal \cup {"absent"}]
    /\ told \in [Feed!FeedTask -> BOOLEAN]
RecordTypes == feed \in [Feed!FeedTask -> Feed!Active \cup Feed!Terminal \cup {"absent", "idle"}]
CallTypes ==
    /\ callPlace \in [Call -> Feed!Place] /\ held \in [Call -> 0 .. MaxLogins]
    /\ on \in [Call -> 0 .. MaxTasks]
    /\ word \in [Call -> Feed!Active \cup Feed!Terminal \cup {"absent", "idle", "none"}]
FeedTypes == RegistryTypes /\ TaskTypes /\ RecordTypes /\ CallTypes

\* A task that an adapter knows was created.
Known ==
    /\ \A t \in Feed!FeedTask : feedOwner[t] # 0 => state[t] # "absent"
    /\ \A a \in Feed!Adapter : latest[a] # 0 => state[latest[a]] # "absent"

\* What a request has at hand: a task that was created, the adapter it was
\* created in, and a status to write.
AtHand(c) ==
    /\ callPlace[c] \in {"progress", "register", "ask", "update", "mark"} =>
        on[c] # 0 /\ state[on[c]] # "absent"
    /\ callPlace[c] = "create" => held[c] # 0
    /\ callPlace[c] = "progress" => held[c] # 0 /\ latest[held[c]] # 0
    /\ callPlace[c] \in {"register", "update"} => word[c] # "none"
    /\ callPlace[c] = "update" => word[c] # "idle"
    /\ callPlace[c] = "markAll" => word[c] \notin {"none", "idle", "absent"}

\* A task that is being started has no record, so no poll is under way for it
\* and no other request will register it.
Starts(c) == callPlace[c] \in {"progress", "register"}
NotRegistered ==
    /\ \A c \in Call : Starts(c) => feed[on[c]] = "absent" /\ ~told[on[c]]
    /\ \A c, d \in Call :
        Starts(c) /\ (Starts(d) \/ callPlace[d] \in {"ask", "update"}) /\ on[c] = on[d] => c = d
    /\ \A t \in Feed!FeedTask : state[t] = "absent" => feed[t] = "absent" /\ ~told[t]

\* Once an end was recorded the task has ended, its record says so or is gone,
\* and every poll that is still going to write has read an end.
ToldForGood ==
    /\ \A t \in Feed!FeedTask :
        told[t] => state[t] \in Feed!Terminal /\ feed[t] \in Feed!Terminal \cup {"absent"}
    /\ \A c \in Call : callPlace[c] = "update" /\ told[on[c]] => word[c] \in Feed!Terminal

FeedInv ==
    /\ FeedTypes /\ Known /\ (\A c \in Call : AtHand(c)) /\ NotRegistered /\ ToldForGood

LEMMA FeedStarts == Feed!Init => FeedInv
<1> SUFFICES ASSUME Feed!Init PROVE FeedInv
  OBVIOUS
<1> USE FeedAssumption DEF Feed!Init
<1>1. RegistryTypes
  BY DEF RegistryTypes
<1>2. TaskTypes
  BY DEF TaskTypes, Feed!Adapter, Feed!FeedTask
<1>3. RecordTypes
  BY DEF RecordTypes
<1>4. CallTypes
  BY DEF CallTypes, Feed!Place
<1>5. \A c \in Call : callPlace[c] = "idle"
  OBVIOUS
<1>6. \A t \in Feed!FeedTask : feedOwner[t] = 0 /\ state[t] = "absent" /\ feed[t] = "absent" /\ told[t] = FALSE
  OBVIOUS
<1>7. \A a \in Feed!Adapter : latest[a] = 0
  OBVIOUS
<1> QED
  BY <1>1, <1>2, <1>3, <1>4, <1>5, <1>6, <1>7
     DEF FeedInv, FeedTypes, Known, AtHand, NotRegistered, Starts, ToldForGood

-----------------------------------------------------------------------------
\* How tasks change: not at all, or from one status of a created task to
\* another, where a status that is no end is news.
TaskMoves(t) ==
    \/ state'[t] = state[t] /\ told'[t] = told[t]
    \/ /\ state[t] # "absent" /\ state'[t] # "absent"
       /\ told'[t] => told[t] /\ state'[t] \in Feed!Terminal

\* How records change: none comes, and one that says how the task ended keeps
\* saying so until it goes.
RecordMoves(t) ==
    /\ feed[t] = "absent" => feed'[t] = "absent"
    /\ feed[t] \in Feed!Terminal => feed'[t] \in Feed!Terminal \cup {"absent"}

\* How requests change: none begins to start a task, a poll begins with a record,
\* and what it read of a task whose end is told is an end.
CallMoves(c) ==
    /\ AtHand(c)'
    /\ Starts(c)' => Starts(c) /\ on'[c] = on[c]
    /\ callPlace'[c] \in {"ask", "update"} =>
        \/ callPlace[c] \in {"ask", "update"} /\ on'[c] = on[c]
        \/ feed[on'[c]] # "absent"
    /\ callPlace'[c] = "update" /\ told'[on'[c]] => word'[c] \in Feed!Terminal

\* A request that does nothing moves like this, too.
LEMMA RestingCall ==
  ASSUME FeedInv, UNCHANGED latest, \A t \in Feed!FeedTask : TaskMoves(t), NEW c \in Call,
         callPlace'[c] = callPlace[c], held'[c] = held[c], on'[c] = on[c], word'[c] = word[c]
  PROVE  CallMoves(c)
<1>1. AtHand(c) /\ (callPlace[c] = "update" /\ told[on[c]] => word[c] \in Feed!Terminal)
  BY DEF FeedInv, ToldForGood
<1>2. on[c] # 0 => on[c] \in Feed!FeedTask
  BY FeedAssumption DEF FeedInv, FeedTypes, CallTypes, Feed!FeedTask
<1>3. on[c] # 0 => TaskMoves(on[c])
  BY <1>2
<1> QED
  BY <1>1, <1>3 DEF AtHand, Starts, TaskMoves, CallMoves

\* A step of this kind keeps the invariant.
LEMMA QuietKeeps ==
  ASSUME FeedInv, FeedTypes', UNCHANGED <<latest, feedOwner>>,
         \A t \in Feed!FeedTask : TaskMoves(t), \A t \in Feed!FeedTask : RecordMoves(t),
         \A c \in Call : CallMoves(c)
  PROVE  FeedInv'
<1>1. \A a \in Feed!Adapter : latest[a] # 0 => latest[a] \in Feed!FeedTask
  BY FeedAssumption DEF FeedInv, FeedTypes, TaskTypes, Feed!FeedTask
<1>2. Known'
  BY <1>1 DEF FeedInv, Known, TaskMoves
<1>3. \A c \in Call : AtHand(c)'
  BY DEF CallMoves
<1>4. \A c \in Call : Starts(c) => on[c] \in Feed!FeedTask
  BY FeedAssumption DEF FeedInv, FeedTypes, CallTypes, AtHand, Starts, Feed!FeedTask
<1>5. NotRegistered'
  <2>1. \A c \in Call : Starts(c)' => feed'[on'[c]] = "absent" /\ ~told'[on'[c]]
    <3> SUFFICES ASSUME NEW c \in Call, Starts(c)' PROVE feed'[on'[c]] = "absent" /\ ~told'[on'[c]]
      OBVIOUS
    <3>1. Starts(c) /\ on'[c] = on[c] /\ on[c] \in Feed!FeedTask
      BY <1>4 DEF CallMoves
    <3>2. feed[on[c]] = "absent" /\ ~told[on[c]]
      BY <3>1 DEF FeedInv, NotRegistered
    <3>3. TaskMoves(on[c]) /\ RecordMoves(on[c])
      BY <3>1
    <3> QED
      BY <3>1, <3>2, <3>3 DEF TaskMoves, RecordMoves
  <2>2. ASSUME NEW c \in Call, NEW d \in Call, Starts(c)',
               Starts(d)' \/ callPlace'[d] \in {"ask", "update"}, on'[c] = on'[d]
        PROVE  c = d
    <3>1. Starts(c) /\ on'[c] = on[c] /\ feed[on[c]] = "absent"
      BY <2>2 DEF CallMoves, FeedInv, NotRegistered
    <3>2. (Starts(d) \/ callPlace[d] \in {"ask", "update"}) /\ on'[d] = on[d]
      BY <2>2, <3>1 DEF CallMoves
    <3> QED
      BY <2>2, <3>1, <3>2 DEF FeedInv, NotRegistered
  <2>3. \A t \in Feed!FeedTask : state'[t] = "absent" => feed'[t] = "absent" /\ ~told'[t]
    BY DEF FeedInv, NotRegistered, TaskMoves, RecordMoves
  <2> QED
    BY <2>1, <2>2, <2>3 DEF NotRegistered
<1>6. ToldForGood'
  <2>1. ASSUME NEW t \in Feed!FeedTask, told'[t]
        PROVE  state'[t] \in Feed!Terminal /\ feed'[t] \in Feed!Terminal \cup {"absent"}
    <3>1. told[t] /\ state'[t] \in Feed!Terminal
      BY <2>1 DEF FeedInv, ToldForGood, TaskMoves
    <3>2. feed[t] \in Feed!Terminal \cup {"absent"} /\ RecordMoves(t)
      BY <3>1 DEF FeedInv, ToldForGood
    <3> QED
      BY <3>1, <3>2 DEF RecordMoves
  <2> QED
    BY <2>1 DEF ToldForGood, CallMoves
<1> QED
  BY <1>2, <1>3, <1>5, <1>6 DEF FeedInv

-----------------------------------------------------------------------------
\* What the types say of a request's task and adapter.
LEMMA FeedIndices ==
  ASSUME FeedInv
  PROVE  /\ \A c \in Call : on[c] # 0 => on[c] \in Feed!FeedTask
         /\ \A c \in Call : held[c] # 0 => held[c] \in Feed!Adapter
         /\ \A a \in Feed!Adapter : latest[a] # 0 => latest[a] \in Feed!FeedTask
         /\ entry # 0 => entry \in Feed!Adapter
         /\ entry \in 0 .. MaxLogins
BY FeedAssumption
   DEF FeedInv, FeedTypes, RegistryTypes, TaskTypes, CallTypes, Feed!FeedTask, Feed!Adapter

\* The adapter gives a created task another status, or does not.
LEMMA BecomesMoves ==
  ASSUME FeedInv, NEW t \in Feed!FeedTask, state[t] # "absent",
         NEW s \in Feed!Active \cup Feed!Terminal, Feed!Becomes(t, s),
         UNCHANGED <<latest, feedOwner>>
  PROVE  TaskTypes' /\ \A u \in Feed!FeedTask : TaskMoves(u)
<1>1. /\ state' = [state EXCEPT ![t] = s]
      /\ told' = [told EXCEPT ![t] = told[t] /\ s \in Feed!Terminal]
  BY DEF Feed!Becomes
<1>2. TaskTypes'
  BY <1>1 DEF FeedInv, FeedTypes, TaskTypes
<1>3. \A u \in Feed!FeedTask \ {t} : state'[u] = state[u] /\ told'[u] = told[u]
  BY <1>1 DEF FeedInv, FeedTypes, TaskTypes
<1>4. state'[t] = s /\ (told'[t] => told[t] /\ s \in Feed!Terminal)
  BY <1>1 DEF FeedInv, FeedTypes, TaskTypes
<1>5. s # "absent"
  BY DEF Feed!Active, Feed!Terminal
<1> QED
  BY <1>2, <1>3, <1>4, <1>5 DEF TaskMoves

LEMMA KeepsMoves ==
  ASSUME FeedInv, Feed!Keeps, UNCHANGED <<latest, feedOwner>>
  PROVE  TaskTypes' /\ \A u \in Feed!FeedTask : TaskMoves(u)
BY DEF Feed!Keeps, FeedInv, FeedTypes, TaskTypes, TaskMoves

LEMMA ChangeMoves ==
  ASSUME FeedInv, NEW a \in Feed!Adapter, NEW s \in {"paused", "running", "cancelled"},
         Feed!Change(a, s), UNCHANGED <<latest, feedOwner>>
  PROVE  TaskTypes' /\ \A u \in Feed!FeedTask : TaskMoves(u)
<1>1. CASE Feed!Keeps
  BY <1>1, KeepsMoves
<1>2. CASE latest[a] # 0 /\ Feed!Becomes(latest[a], s)
  <2>1. latest[a] \in Feed!FeedTask /\ state[latest[a]] # "absent"
    BY <1>2, FeedIndices DEF FeedInv, Known
  <2>2. s \in Feed!Active \cup Feed!Terminal
    BY DEF Feed!Active, Feed!Terminal
  <2> QED
    BY <1>2, <2>1, <2>2, BecomesMoves
<1> QED
  BY <1>1, <1>2 DEF Feed!Change

\* A step in which one request moves.
LEMMA OneCallKeeps ==
  ASSUME FeedInv, RegistryTypes', TaskTypes', RecordTypes', CallTypes',
         UNCHANGED <<latest, feedOwner>>,
         \A t \in Feed!FeedTask : TaskMoves(t), \A t \in Feed!FeedTask : RecordMoves(t),
         NEW c \in Call, CallMoves(c),
         \A d \in Call \ {c} : /\ callPlace'[d] = callPlace[d] /\ held'[d] = held[d]
                               /\ on'[d] = on[d] /\ word'[d] = word[d]
  PROVE  FeedInv'
<1>1. \A d \in Call : CallMoves(d)
  BY RestingCall
<1>2. FeedTypes'
  BY DEF FeedTypes
<1> QED
  BY <1>1, <1>2, QuietKeeps

\* A request that has answered.
LEMMA AnswerMoves ==
  ASSUME FeedInv, NEW c \in Call, Feed!Answer(c)
  PROVE  /\ CallTypes' /\ callPlace'[c] = "idle" /\ CallMoves(c)
         /\ \A d \in Call \ {c} : /\ callPlace'[d] = callPlace[d] /\ held'[d] = held[d]
                                  /\ on'[d] = on[d] /\ word'[d] = word[d]
<1>1. callPlace'[c] = "idle"
  BY DEF FeedInv, FeedTypes, CallTypes, Feed!Answer
<1>2. CallTypes'
  BY FeedAssumption DEF FeedInv, FeedTypes, CallTypes, Feed!Answer, Feed!Place
<1>3. CallMoves(c)
  BY <1>1 DEF CallMoves, AtHand, Starts
<1> QED
  BY <1>1, <1>2, <1>3 DEF FeedInv, FeedTypes, CallTypes, Feed!Answer

\* Records that stay.
LEMMA RecordsStay ==
  ASSUME FeedInv, UNCHANGED feed
  PROVE  RecordTypes' /\ \A t \in Feed!FeedTask : RecordMoves(t)
BY DEF FeedInv, FeedTypes, RecordTypes, RecordMoves

-----------------------------------------------------------------------------
\* The registry, the expiry of records and the end of a task.
LEMMA RegistryKeeps ==
  ASSUME FeedInv,
         \/ Feed!LogIn \/ Feed!ExpireAdapter
         \/ \E t \in Feed!FeedTask : Feed!ExpireRecord(t) \/ Feed!End(t)
         \/ UNCHANGED feedVars
  PROVE  FeedInv'
<1>1. UNCHANGED <<latest, feedOwner, callPlace, held, on, word>>
  BY DEF Feed!LogIn, Feed!ExpireAdapter, Feed!ExpireRecord, Feed!End, feedVars, Feed!tasks, Feed!calls
<1>2. RegistryTypes'
  BY FeedAssumption
     DEF FeedInv, FeedTypes, RegistryTypes, Feed!LogIn, Feed!ExpireAdapter, Feed!ExpireRecord, Feed!End,
         feedVars
<1>3. TaskTypes' /\ \A u \in Feed!FeedTask : TaskMoves(u)
  <2>1. CASE \E t \in Feed!FeedTask : Feed!End(t)
    <3>1. PICK t \in Feed!FeedTask : Feed!End(t)
      BY <2>1
    <3>2. state[t] # "absent"
      BY <3>1 DEF Feed!End, Feed!Active
    <3>3. PICK s \in {"completed", "error"} : Feed!Becomes(t, s)
      BY <3>1 DEF Feed!End
    <3>4. s \in Feed!Active \cup Feed!Terminal
      BY DEF Feed!Terminal
    <3> QED
      BY <1>1, <3>2, <3>3, <3>4, BecomesMoves
  <2>2. CASE ~\E t \in Feed!FeedTask : Feed!End(t)
    <3>1. Feed!Keeps
      BY <2>2 DEF Feed!LogIn, Feed!ExpireAdapter, Feed!ExpireRecord, feedVars, Feed!tasks,
                  Feed!records, Feed!Keeps
    <3> QED
      BY <1>1, <3>1, KeepsMoves
  <2> QED
    BY <2>1, <2>2
<1>4. RecordTypes' /\ \A t \in Feed!FeedTask : RecordMoves(t)
  <2>1. CASE UNCHANGED feed
    BY <2>1, RecordsStay
  <2>2. ASSUME NEW t \in Feed!FeedTask, Feed!ExpireRecord(t)
        PROVE  RecordTypes' /\ \A u \in Feed!FeedTask : RecordMoves(u)
    BY <2>2 DEF Feed!ExpireRecord, FeedInv, FeedTypes, RecordTypes, RecordMoves
  <2> QED
    BY <2>1, <2>2 DEF Feed!LogIn, Feed!ExpireAdapter, Feed!End, feedVars, Feed!records
<1>5. CallTypes'
  BY <1>1 DEF FeedInv, FeedTypes, CallTypes
<1>6. \A c \in Call : CallMoves(c)
  BY <1>1, <1>3, RestingCall
<1>7. FeedTypes'
  BY <1>2, <1>3, <1>4, <1>5 DEF FeedTypes
<1> QED
  BY <1>1, <1>3, <1>4, <1>6, <1>7, QuietKeeps

\* Starting a task, but for its creation and registration.
LEMMA StartingKeeps ==
  ASSUME FeedInv, NEW c \in Call,
         Feed!StartCourse(c) \/ Feed!StartFails(c) \/ Feed!SpawnFails(c) \/ Feed!ReadProgress(c)
  PROVE  FeedInv'
<1>1. UNCHANGED <<entry, logins, latest, feedOwner, feed>>
  BY DEF Feed!StartCourse, Feed!StartFails, Feed!SpawnFails, Feed!ReadProgress, Feed!tasks, Feed!records
<1>2. RegistryTypes'
  BY <1>1 DEF FeedInv, FeedTypes, RegistryTypes
<1>3. RecordTypes' /\ \A t \in Feed!FeedTask : RecordMoves(t)
  BY <1>1, RecordsStay
<1>4. CASE Feed!StartCourse(c)
  <2>1. TaskTypes' /\ \A t \in Feed!FeedTask : TaskMoves(t)
    BY <1>1, <1>4, KeepsMoves DEF Feed!StartCourse, Feed!tasks, Feed!records, Feed!Keeps
  <2>2. /\ callPlace' = [callPlace EXCEPT ![c] = "create"]
        /\ held' = [held EXCEPT ![c] = entry] /\ entry # 0 /\ UNCHANGED <<on, word>>
    BY <1>4 DEF Feed!StartCourse, Feed!Gets, Feed!Needs, Feed!To
  <2>3. CallTypes'
    BY <2>2, FeedIndices DEF FeedInv, FeedTypes, CallTypes, Feed!Place
  <2>4. callPlace'[c] = "create" /\ held'[c] # 0
    BY <2>2 DEF FeedInv, FeedTypes, CallTypes
  <2>5. CallMoves(c)
    BY <2>4 DEF CallMoves, AtHand, Starts
  <2> QED
    BY <1>1, <1>2, <1>3, <2>1, <2>2, <2>3, <2>5, OneCallKeeps DEF FeedInv, FeedTypes, CallTypes
<1>5. CASE Feed!StartFails(c)
  <2>1. TaskTypes' /\ \A t \in Feed!FeedTask : TaskMoves(t)
    BY <1>1, <1>5, KeepsMoves DEF Feed!StartFails, Feed!tasks, Feed!records, Feed!Keeps
  <2> QED
    BY <1>1, <1>2, <1>3, <1>5, <2>1, AnswerMoves, OneCallKeeps DEF Feed!StartFails
<1>6. CASE Feed!SpawnFails(c)
  <2>1. on[c] \in Feed!FeedTask /\ state[on[c]] # "absent"
    BY <1>6, FeedIndices DEF Feed!SpawnFails, FeedInv, AtHand
  <2>2. "error" \in Feed!Active \cup Feed!Terminal
    BY DEF Feed!Terminal
  <2>3. TaskTypes' /\ \A t \in Feed!FeedTask : TaskMoves(t)
    BY <1>1, <1>6, <2>1, <2>2, BecomesMoves DEF Feed!SpawnFails
  <2> QED
    BY <1>1, <1>2, <1>3, <1>6, <2>3, AnswerMoves, OneCallKeeps DEF Feed!SpawnFails
<1>7. CASE Feed!ReadProgress(c)
  <2>1. TaskTypes' /\ \A t \in Feed!FeedTask : TaskMoves(t)
    BY <1>1, <1>7, KeepsMoves DEF Feed!ReadProgress, Feed!tasks, Feed!records, Feed!Keeps
  <2>2. callPlace[c] = "progress" /\ held[c] \in Feed!Adapter /\ latest[held[c]] \in Feed!FeedTask
    BY <1>7, FeedIndices DEF Feed!ReadProgress, FeedInv, AtHand
  <2>3. PICK s \in Feed!Active \cup Feed!Terminal \cup {"absent", "idle"} :
             word' = [word EXCEPT ![c] = s]
    BY <1>7, <2>2 DEF Feed!ReadProgress, FeedInv, FeedTypes, TaskTypes
  <2>4. /\ callPlace' = [callPlace EXCEPT ![c] = "register"]
        /\ held' = [held EXCEPT ![c] = 0] /\ UNCHANGED on
    BY <1>7 DEF Feed!ReadProgress, Feed!To
  <2>5. CallTypes'
    BY <2>3, <2>4, FeedAssumption DEF FeedInv, FeedTypes, CallTypes, Feed!Place
  <2>6. s # "none"
    BY DEF Feed!Active, Feed!Terminal
  <2>7. callPlace'[c] = "register" /\ word'[c] # "none" /\ on'[c] = on[c]
    BY <2>3, <2>4, <2>6 DEF FeedInv, FeedTypes, CallTypes
  <2>8. on[c] # 0 /\ state'[on[c]] # "absent"
    BY <2>1, <2>2, FeedIndices DEF FeedInv, AtHand, TaskMoves
  <2>9. CallMoves(c)
    BY <2>2, <2>7, <2>8 DEF CallMoves, AtHand, Starts
  <2> QED
    BY <1>1, <1>2, <1>3, <2>1, <2>3, <2>4, <2>5, <2>9, OneCallKeeps DEF FeedInv, FeedTypes, CallTypes
<1> QED
  BY <1>4, <1>5, <1>6, <1>7

\* A poll until it writes.
LEMMA PollKeeps ==
  ASSUME FeedInv, NEW c \in Call, Feed!Poll(c) \/ Feed!ReadTask(c)
  PROVE  FeedInv'
<1>1. UNCHANGED <<entry, logins, latest, feedOwner, feed, state, told>>
  BY DEF Feed!Poll, Feed!ReadTask, Feed!tasks, Feed!records
<1>2. RegistryTypes'
  BY <1>1 DEF FeedInv, FeedTypes, RegistryTypes
<1>3. RecordTypes' /\ \A t \in Feed!FeedTask : RecordMoves(t)
  BY <1>1, RecordsStay
<1>4. TaskTypes' /\ \A t \in Feed!FeedTask : TaskMoves(t)
  BY <1>1, KeepsMoves DEF Feed!Keeps
<1>5. CASE Feed!Poll(c)
  <2>1. PICK t \in Feed!FeedTask :
          /\ feed[t] # "absent" /\ entry # 0
          /\ callPlace' = [callPlace EXCEPT ![c] = "ask"]
          /\ held' = [held EXCEPT ![c] = entry]
          /\ on' = [on EXCEPT ![c] = t] /\ UNCHANGED word
    BY <1>5 DEF Feed!Poll, Feed!Gets, Feed!Needs, Feed!To
  <2>2. t \in 0 .. MaxTasks /\ t # 0
    BY FeedAssumption DEF Feed!FeedTask
  <2>3. CallTypes'
    BY <2>1, <2>2, FeedIndices DEF FeedInv, FeedTypes, CallTypes, Feed!Place
  <2>4. callPlace'[c] = "ask" /\ on'[c] = t
    BY <2>1 DEF FeedInv, FeedTypes, CallTypes
  <2>5. state'[t] # "absent"
    BY <1>1, <2>1 DEF FeedInv, NotRegistered
  <2>6. CallMoves(c)
    BY <2>1, <2>2, <2>4, <2>5 DEF CallMoves, AtHand, Starts
  <2> QED
    BY <1>1, <1>2, <1>3, <1>4, <2>1, <2>3, <2>6, OneCallKeeps DEF FeedInv, FeedTypes, CallTypes
<1>6. CASE Feed!ReadTask(c) /\ Feed!Answer(c)
  BY <1>1, <1>2, <1>3, <1>4, <1>6, AnswerMoves, OneCallKeeps
<1>7. CASE Feed!ReadTask(c) /\ ~Feed!Answer(c)
  <2>1. /\ callPlace[c] = "ask"
        /\ word' = [word EXCEPT ![c] = state[on[c]]]
        /\ callPlace' = [callPlace EXCEPT ![c] = "update"]
        /\ held' = [held EXCEPT ![c] = 0] /\ UNCHANGED on
    BY <1>7 DEF Feed!ReadTask, Feed!To
  <2>2. on[c] \in Feed!FeedTask /\ on[c] # 0 /\ state[on[c]] # "absent"
    BY <2>1, FeedIndices DEF FeedInv, AtHand
  <2>3. state[on[c]] \in Feed!Active \cup Feed!Terminal
    BY <2>2 DEF FeedInv, FeedTypes, TaskTypes
  <2>4. CallTypes'
    BY <2>1, <2>3, FeedAssumption DEF FeedInv, FeedTypes, CallTypes, Feed!Place
  <2>5. callPlace'[c] = "update" /\ on'[c] = on[c] /\ word'[c] = state[on[c]]
    BY <2>1 DEF FeedInv, FeedTypes, CallTypes
  <2>6. word'[c] \notin {"none", "idle"}
    BY <2>3, <2>5 DEF Feed!Active, Feed!Terminal
  <2>7. told[on[c]] => state[on[c]] \in Feed!Terminal
    BY <2>2 DEF FeedInv, ToldForGood
  <2>8. CallMoves(c)
    BY <1>1, <2>1, <2>2, <2>5, <2>6, <2>7 DEF CallMoves, AtHand, Starts
  <2> QED
    BY <1>1, <1>2, <1>3, <1>4, <2>1, <2>4, <2>8, OneCallKeeps DEF FeedInv, FeedTypes, CallTypes
<1> QED
  BY <1>5, <1>6, <1>7

\* The requests that pause, resume, cancel or log out.
LEMMA SteeringKeeps ==
  ASSUME FeedInv, NEW c \in Call,
         \/ Feed!Steer(c) \/ Feed!MarkAll(c) \/ Feed!CancelTask(c) \/ Feed!MarkOne(c)
         \/ Feed!LogOut(c)
  PROVE  FeedInv'
<1>1. UNCHANGED <<logins, latest, feedOwner>>
  BY DEF Feed!Steer, Feed!MarkAll, Feed!CancelTask, Feed!MarkOne, Feed!LogOut, Feed!tasks
<1>2. RegistryTypes'
  BY FeedAssumption DEF FeedInv, FeedTypes, RegistryTypes, Feed!Steer, Feed!MarkAll, Feed!CancelTask,
                        Feed!MarkOne, Feed!LogOut
<1>3. CASE Feed!Steer(c) \/ Feed!LogOut(c)
  <2>1. TaskTypes' /\ \A t \in Feed!FeedTask : TaskMoves(t)
    <3>1. CASE Feed!Keeps
      BY <1>1, <3>1, KeepsMoves
    <3>2. CASE ~Feed!Keeps
      <4>1. entry # 0 /\ \E s \in {"paused", "running", "cancelled"} : Feed!Change(entry, s)
        BY <1>3, <3>2 DEF Feed!Steer, Feed!LogOut, Feed!Needs
      <4> QED
        BY <1>1, <4>1, FeedIndices, ChangeMoves
    <3> QED
      BY <3>1, <3>2
  <2>2. RecordTypes' /\ \A t \in Feed!FeedTask : RecordMoves(t)
    BY <1>3, RecordsStay DEF Feed!Steer, Feed!LogOut
  <2>3. PICK s \in {"paused", "running", "cancelled"} :
          /\ callPlace' = [callPlace EXCEPT ![c] = "markAll"]
          /\ word' = [word EXCEPT ![c] = s] /\ UNCHANGED <<held, on>>
    BY <1>3 DEF Feed!Steer, Feed!LogOut, Feed!Needs, Feed!To
  <2>4. CallTypes'
    BY <2>3 DEF FeedInv, FeedTypes, CallTypes, Feed!Place, Feed!Active, Feed!Terminal
  <2>5. callPlace'[c] = "markAll" /\ word'[c] = s
    BY <2>3 DEF FeedInv, FeedTypes, CallTypes
  <2>6. s \notin {"none", "idle", "absent"}
    OBVIOUS
  <2>7. CallMoves(c)
    BY <2>5, <2>6 DEF CallMoves, AtHand, Starts
  <2> QED
    BY <1>1, <1>2, <2>1, <2>2, <2>3, <2>4, <2>7, OneCallKeeps DEF FeedInv, FeedTypes, CallTypes
<1>4. CASE Feed!CancelTask(c)
  <2>1. PICK t \in Feed!FeedTask :
          /\ feedOwner[t] = entry /\ entry # 0
          /\ callPlace' = [callPlace EXCEPT ![c] = "mark"]
          /\ Feed!Becomes(t, "cancelled")
          /\ on' = [on EXCEPT ![c] = t] /\ UNCHANGED <<held, word>>
    BY <1>4 DEF Feed!CancelTask, Feed!Needs, Feed!To
  <2>2. state[t] # "absent" /\ t # 0 /\ t \in 0 .. MaxTasks
    BY <2>1, FeedAssumption DEF FeedInv, Known, Feed!FeedTask
  <2>3. "cancelled" \in Feed!Active \cup Feed!Terminal
    BY DEF Feed!Terminal
  <2>4. TaskTypes' /\ \A u \in Feed!FeedTask : TaskMoves(u)
    BY <1>1, <2>1, <2>2, <2>3, BecomesMoves
  <2>5. RecordTypes' /\ \A u \in Feed!FeedTask : RecordMoves(u)
    BY <1>4, RecordsStay DEF Feed!CancelTask
  <2>6. CallTypes'
    BY <2>1, <2>2 DEF FeedInv, FeedTypes, CallTypes, Feed!Place
  <2>7. callPlace'[c] = "mark" /\ on'[c] = t
    BY <2>1 DEF FeedInv, FeedTypes, CallTypes
  <2>8. CallMoves(c)
    BY <2>2, <2>4, <2>7 DEF CallMoves, AtHand, Starts, TaskMoves
  <2> QED
    BY <1>1, <1>2, <2>1, <2>4, <2>5, <2>6, <2>8, OneCallKeeps DEF FeedInv, FeedTypes, CallTypes
<1>5. CASE Feed!MarkAll(c) \/ Feed!MarkOne(c)
  <2>1. Feed!Answer(c)
    BY <1>5 DEF Feed!MarkAll, Feed!MarkOne
  <2>2. TaskTypes' /\ \A t \in Feed!FeedTask : TaskMoves(t)
    BY <1>1, <1>5, KeepsMoves DEF Feed!MarkAll, Feed!MarkOne, Feed!tasks, Feed!Keeps
  <2>3. RecordTypes' /\ \A t \in Feed!FeedTask : RecordMoves(t)
    <3>1. CASE Feed!MarkAll(c)
      <4>1. feed' = [t \in Feed!FeedTask |-> IF feed[t] \in Feed!Terminal \cup {"absent"}
                                             THEN feed[t] ELSE word[c]]
        BY <3>1 DEF Feed!MarkAll
      <4>2. word[c] \in Feed!Active \cup Feed!Terminal
        BY <3>1 DEF Feed!MarkAll, FeedInv, FeedTypes, CallTypes, AtHand
      <4>3. RecordTypes'
        BY <4>1, <4>2 DEF FeedInv, FeedTypes, RecordTypes
      <4> QED
        BY <4>1, <4>3 DEF RecordMoves
    <3>2. CASE Feed!MarkOne(c)
      <4>1. on[c] \in Feed!FeedTask
        BY <3>2, FeedIndices DEF Feed!MarkOne, FeedInv, AtHand
      <4>2. feed' = [feed EXCEPT ![on[c]] = IF feed[on[c]] \in Feed!Terminal \cup {"absent"}
                                            THEN feed[on[c]] ELSE "cancelled"]
        BY <3>2 DEF Feed!MarkOne
      <4>3. RecordTypes'
        BY <4>1, <4>2 DEF FeedInv, FeedTypes, RecordTypes, Feed!Terminal
      <4> QED
        BY <4>1, <4>2, <4>3 DEF FeedInv, FeedTypes, RecordTypes, RecordMoves
    <3> QED
      BY <1>5, <3>1, <3>2
  <2> QED
    BY <1>1, <1>2, <2>1, <2>2, <2>3, AnswerMoves, OneCallKeeps
<1> QED
  BY <1>3, <1>4, <1>5

\* A new task is nobody's business yet.
LEMMA CreateKeeps ==
  ASSUME FeedInv, NEW c \in Call, Feed!Create(c)
  PROVE  FeedInv'
<1>0. UNCHANGED <<entry, logins, feed>> /\ callPlace[c] = "create" /\ held[c] \in Feed!Adapter
  BY FeedIndices DEF Feed!Create, FeedInv, AtHand
<1>1. RegistryTypes'
  BY <1>0 DEF FeedInv, FeedTypes, RegistryTypes
<1>2. RecordTypes' /\ \A t \in Feed!FeedTask : RecordMoves(t)
  BY <1>0, RecordsStay
<1>3. CASE Feed!Answer(c) /\ Feed!Keeps /\ UNCHANGED <<latest, feedOwner>>
  BY <1>0, <1>1, <1>2, <1>3, KeepsMoves, AnswerMoves, OneCallKeeps
<1>4. CASE ~(Feed!Answer(c) /\ Feed!Keeps /\ UNCHANGED <<latest, feedOwner>>)
  <2>1. PICK t \in Feed!FeedTask, s \in {"running", "completed"} :
          /\ state[t] = "absent"
          /\ Feed!Becomes(t, s)
          /\ latest' = [latest EXCEPT ![held[c]] = t]
          /\ feedOwner' = [feedOwner EXCEPT ![t] = held[c]]
          /\ on' = [on EXCEPT ![c] = t]
          /\ callPlace' = [callPlace EXCEPT ![c] = "progress"] /\ UNCHANGED <<held, word>>
    BY <1>4 DEF Feed!Create, Feed!To
  <2>2. /\ state' = [state EXCEPT ![t] = s]
        /\ told' = [told EXCEPT ![t] = told[t] /\ s \in Feed!Terminal]
    BY <2>1 DEF Feed!Becomes
  <2>3. t \in 0 .. MaxTasks /\ t # 0 /\ held[c] \in 0 .. MaxLogins /\ held[c] # 0
    BY <1>0, FeedAssumption DEF Feed!FeedTask, Feed!Adapter
  <2>4. s \in Feed!Active \cup Feed!Terminal /\ s # "absent"
    BY DEF Feed!Active, Feed!Terminal
  <2>5. TaskTypes'
    BY <1>0, <2>1, <2>2, <2>3, <2>4 DEF FeedInv, FeedTypes, TaskTypes
  <2>6. CallTypes'
    BY <2>1, <2>3 DEF FeedInv, FeedTypes, CallTypes, Feed!Place
  <2>7. feed[t] = "absent" /\ ~told[t] /\ \A d \in Call : on[d] = t =>
            callPlace[d] \notin {"progress", "register", "ask", "update", "mark"}
    BY <2>1 DEF FeedInv, NotRegistered, AtHand
  <2>8. /\ \A u \in Feed!FeedTask \ {t} : state'[u] = state[u] /\ told'[u] = told[u]
                                          /\ feedOwner'[u] = feedOwner[u]
        /\ state'[t] = s /\ told'[t] = FALSE
    BY <2>1, <2>2, <2>7 DEF FeedInv, FeedTypes, TaskTypes
  <2>9. /\ latest'[held[c]] = t
        /\ \A a \in Feed!Adapter \ {held[c]} : latest'[a] = latest[a]
    BY <1>0, <2>1 DEF FeedInv, FeedTypes, TaskTypes
  <2>10. /\ callPlace'[c] = "progress" /\ on'[c] = t /\ held'[c] = held[c]
         /\ \A d \in Call \ {c} : /\ callPlace'[d] = callPlace[d] /\ held'[d] = held[d]
                                  /\ on'[d] = on[d] /\ word'[d] = word[d]
    BY <2>1 DEF FeedInv, FeedTypes, CallTypes
  <2>11. Known'
    BY <2>4, <2>8, <2>9, FeedIndices DEF FeedInv, Known
  <2>12. \A d \in Call : AtHand(d)'
    <3> SUFFICES ASSUME NEW d \in Call PROVE AtHand(d)'
      OBVIOUS
    <3>1. CASE d = c
      BY <2>3, <2>4, <2>8, <2>9, <2>10, <3>1 DEF AtHand
    <3>2. CASE d # c
      <4>1. AtHand(d)
        BY DEF FeedInv
      <4>2. on[d] # 0 /\ state[on[d]] # "absent" => state'[on[d]] # "absent"
        BY <2>4, <2>8, FeedIndices
      <4>3. held[d] # 0 /\ latest[held[d]] # 0 => latest'[held[d]] # 0
        BY <2>3, <2>9, FeedIndices
      <4> QED
        BY <2>10, <3>2, <4>1, <4>2, <4>3 DEF AtHand
    <3> QED
      BY <3>1, <3>2
  <2>13. \A d \in Call \ {c} :
           callPlace[d] \in {"progress", "register", "ask", "update"} =>
             on[d] # t /\ told'[on[d]] = told[on[d]]
    BY <2>7, <2>8, FeedIndices DEF FeedInv, AtHand
  <2>14. NotRegistered'
    <3>1. \A d \in Call : Starts(d)' => feed'[on'[d]] = "absent" /\ ~told'[on'[d]]
      BY <1>0, <2>7, <2>8, <2>10, <2>13 DEF FeedInv, NotRegistered, Starts
    <3>2. \A d, e \in Call :
            Starts(d)' /\ (Starts(e)' \/ callPlace'[e] \in {"ask", "update"}) /\ on'[d] = on'[e]
              => d = e
      BY <2>10, <2>13 DEF FeedInv, NotRegistered, Starts
    <3>3. \A u \in Feed!FeedTask : state'[u] = "absent" => feed'[u] = "absent" /\ ~told'[u]
      BY <1>0, <2>4, <2>8 DEF FeedInv, NotRegistered
    <3> QED
      BY <3>1, <3>2, <3>3 DEF NotRegistered
  <2>15. ToldForGood'
    BY <1>0, <2>8, <2>10, <2>13 DEF FeedInv, ToldForGood
  <2> QED
    BY <1>1, <1>2, <2>5, <2>6, <2>11, <2>12, <2>14, <2>15 DEF FeedInv, FeedTypes
<1> QED
  BY <1>3, <1>4

\* Its record comes when no poll can be under way for it.
LEMMA RegisterKeeps ==
  ASSUME FeedInv, NEW c \in Call, Feed!RegisterTask(c)
  PROVE  FeedInv'
<1>1. /\ callPlace[c] = "register" /\ feed' = [feed EXCEPT ![on[c]] = word[c]]
      /\ Feed!Answer(c) /\ UNCHANGED <<entry, logins, latest, feedOwner, state, told>>
  BY DEF Feed!RegisterTask, Feed!tasks
<1>2. on[c] \in Feed!FeedTask /\ state[on[c]] # "absent" /\ ~told[on[c]] /\ word[c] # "none"
  BY <1>1, FeedIndices DEF FeedInv, AtHand, NotRegistered, Starts
<1>3. /\ CallTypes' /\ callPlace'[c] = "idle"
      /\ \A d \in Call \ {c} : /\ callPlace'[d] = callPlace[d] /\ held'[d] = held[d]
                               /\ on'[d] = on[d] /\ word'[d] = word[d]
  BY <1>1, AnswerMoves
<1>4. RecordTypes' /\ \A t \in Feed!FeedTask \ {on[c]} : feed'[t] = feed[t]
  BY <1>1, <1>2 DEF FeedInv, FeedTypes, RecordTypes, CallTypes
<1>5. FeedTypes'
  BY <1>1, <1>3, <1>4 DEF FeedInv, FeedTypes, RegistryTypes, TaskTypes
<1>6. Known' /\ \A d \in Call : AtHand(d)'
  BY <1>1, <1>3 DEF FeedInv, Known, AtHand
<1>7. \A d \in Call \ {c} : Starts(d) => on[d] \in Feed!FeedTask \ {on[c]}
  BY <1>1, FeedIndices DEF FeedInv, AtHand, NotRegistered, Starts
<1>8. NotRegistered'
  BY <1>1, <1>2, <1>3, <1>4, <1>7 DEF FeedInv, NotRegistered, Starts
<1>9. ToldForGood'
  BY <1>1, <1>2, <1>3, <1>4 DEF FeedInv, ToldForGood
<1> QED
  BY <1>5, <1>6, <1>8, <1>9 DEF FeedInv

\* A poll writes what it read; it tells an end for good when none that read
\* the task before is left.
LEMMA UpdateKeeps ==
  ASSUME FeedInv, NEW c \in Call, Feed!UpdateRecord(c)
  PROVE  FeedInv'
<1>0. PICK t \in Feed!FeedTask : t = on[c]
  BY FeedIndices DEF Feed!UpdateRecord, FeedInv, AtHand
<1>1. /\ callPlace[c] = "update" /\ Feed!Answer(c)
      /\ feed' = [feed EXCEPT ![t] = IF feed[t] = "absent" THEN "absent" ELSE word[c]]
      /\ UNCHANGED <<entry, logins, latest, feedOwner, state>>
  BY <1>0 DEF Feed!UpdateRecord, Feed!tasks
<1>2. PICK b \in BOOLEAN : /\ told' = [told EXCEPT ![t] = b]
                           /\ b => \/ told[t]
                                   \/ /\ word[c] \in Feed!Terminal /\ state[t] \in Feed!Terminal
                                      /\ ~Feed!Older(t, c)
  <2> DEFINE late == /\ {word[c], state[t]} \subseteq Feed!Terminal /\ ~Feed!Older(t, c)
             b == told[t] \/ late
  <2>1. told' = [told EXCEPT ![t] = b]
    BY <1>0, Zenon DEF Feed!UpdateRecord
  <2>2. told[t] \in BOOLEAN
    BY DEF FeedInv, FeedTypes, TaskTypes
  <2>3. b \in BOOLEAN
    BY <2>2
  <2>4. late => word[c] \in Feed!Terminal /\ state[t] \in Feed!Terminal /\ ~Feed!Older(t, c)
    BY Zenon
  <2> HIDE DEF late
  <2> QED
    BY <2>1, <2>3, <2>4, Zenon
<1>3. /\ CallTypes' /\ callPlace'[c] = "idle"
      /\ \A d \in Call \ {c} : /\ callPlace'[d] = callPlace[d] /\ held'[d] = held[d]
                               /\ on'[d] = on[d] /\ word'[d] = word[d]
  BY <1>1, AnswerMoves
<1>4. word[c] \notin {"none", "idle"}
  BY <1>1 DEF FeedInv, AtHand
<1>5. RecordTypes'
  BY <1>1, <1>4 DEF FeedInv, FeedTypes, RecordTypes, CallTypes
<1>6. /\ \A u \in Feed!FeedTask \ {t} : feed'[u] = feed[u] /\ told'[u] = told[u]
      /\ feed'[t] = (IF feed[t] = "absent" THEN "absent" ELSE word[c]) /\ told'[t] = b
  BY <1>1, <1>2 DEF FeedInv, FeedTypes, RecordTypes, TaskTypes
<1>7. FeedTypes'
  BY <1>1, <1>2, <1>3, <1>5 DEF FeedInv, FeedTypes, RegistryTypes, TaskTypes
<1>8. Known' /\ \A d \in Call : AtHand(d)'
  BY <1>1, <1>3 DEF FeedInv, Known, AtHand
<1>9. \A d \in Call \ {c} : Starts(d) => on[d] \in Feed!FeedTask \ {t}
  BY <1>0, <1>1, FeedIndices DEF FeedInv, AtHand, NotRegistered, Starts
<1>10. state[t] # "absent"
  BY <1>0, <1>1 DEF FeedInv, AtHand
<1>11. NotRegistered'
  BY <1>1, <1>3, <1>6, <1>9, <1>10 DEF FeedInv, NotRegistered, Starts
<1>12. told'[t] => /\ word[c] \in Feed!Terminal /\ state[t] \in Feed!Terminal
                   /\ \A d \in Call \ {c} :
                        callPlace[d] = "update" /\ on[d] = t => word[d] \in Feed!Terminal
  <2>1. CASE told[t]
    BY <1>0, <1>1, <2>1 DEF FeedInv, ToldForGood
  <2>2. CASE ~told[t]
    BY <1>2, <1>6, <2>2 DEF Feed!Older
  <2> QED
    BY <2>1, <2>2
<1>13. ToldForGood'
  <2>1. ASSUME NEW u \in Feed!FeedTask, told'[u]
        PROVE  state'[u] \in Feed!Terminal /\ feed'[u] \in Feed!Terminal \cup {"absent"}
    BY <1>1, <1>6, <1>12, <2>1 DEF FeedInv, ToldForGood
  <2>2. ASSUME NEW d \in Call, callPlace'[d] = "update", told'[on'[d]]
        PROVE  word'[d] \in Feed!Terminal
    <3>1. d # c /\ callPlace[d] = "update" /\ on'[d] = on[d] /\ word'[d] = word[d]
      BY <1>3, <2>2
    <3>2. on[d] \in Feed!FeedTask
      BY <3>1, FeedIndices DEF FeedInv, AtHand
    <3> QED
      BY <1>6, <1>12, <2>2, <3>1, <3>2 DEF FeedInv, ToldForGood
  <2> QED
    BY <2>1, <2>2 DEF ToldForGood
<1> QED
  BY <1>7, <1>8, <1>11, <1>13 DEF FeedInv

LEMMA FeedKeeps == FeedInv /\ [Feed!Next]_feedVars => FeedInv'
BY RegistryKeeps, StartingKeeps, PollKeeps, SteeringKeeps, CreateKeeps, RegisterKeeps, UpdateKeeps
   DEF Feed!Next, Feed!Starting, Feed!Polling, Feed!Steering

\* The task feed of the course API (course.py), for any adapters, tasks and
\* requests: what a poll has recorded of a task's end is never turned back.
THEOREM EndStaysRecorded == PartSpec => []FeedSound
<1> DEFINE Inv == part = "feed" => FeedInv
<1>1. PartInit => Inv
  BY FeedStarts DEF PartInit
<1>2. Inv /\ [PartNext]_partsVars => Inv'
  <2>1. [PartNext]_partsVars => part' = part /\ (part = "feed" => [Feed!Next]_feedVars)
    BY DEF PartNext, RestOf, partsVars
  <2> QED
    BY <2>1, FeedKeeps
<1>3. Inv => FeedSound
  <2>1. FeedInv => Feed!TypeOK
    BY DEF FeedInv, FeedTypes, RegistryTypes, TaskTypes, RecordTypes, CallTypes, Feed!TypeOK
  <2>2. FeedInv => Feed!EndStaysTold
    BY DEF FeedInv, ToldForGood, Feed!EndStaysTold
  <2> QED
    BY <2>1, <2>2 DEF FeedSound, Feed!FeedSound
<1> QED
  BY <1>1, <1>2, <1>3, PTL DEF PartSpec
=============================================================================
