------------------------------- MODULE MCStores -------------------------------
(***************************************************************************)
(* How rows are written, on small instances: the persist sequencer and the *)
(* two storage backends under it.  A behaviour is a behaviour of one part, *)
(* chosen in the initial state, while the others rest in theirs.           *)
(***************************************************************************)
EXTENDS PersistSequencer

CONSTANTS SqliteUpsert, Upsert, Entry, Look, Close, Keep, MaxConn, NoRow, Nobody

\* Calls are finitely many, each is of one kind and none is Nobody, who holds a
\* free lock; records are ordered by their times.
ASSUME CallAssumption ==
    /\ IsFiniteSet(Upsert \cup Entry \cup Look)
    /\ Nobody \notin Upsert \cup SqliteUpsert \cup Entry \cup Look \cup Close
    /\ SqliteUpsert \cap Entry = {}
    /\ (SqliteUpsert \cup Entry) \cap (Look \cup Close) = {}
    /\ Upsert \cap Entry = {} /\ (Upsert \cup Entry) \cap Look = {}
    /\ Entry \subseteq Int
    /\ Keep \in Nat /\ MaxConn \in Nat

VARIABLES db, conn, usable, initialized, closed, initLock, writeLock, stage
VARIABLES table, cut, ready, holder, pool, inUse, at
VARIABLE part

Sqlite == INSTANCE SqliteStore WITH Upsert <- SqliteUpsert
Postgres == INSTANCE PostgresStore

sqliteVars == <<db, conn, usable, initialized, closed, initLock, writeLock, stage>>
postgresVars == <<table, cut, ready, holder, pool, inUse, at>>
storesVars == <<vars, sqliteVars, postgresVars, part>>

Parts == {"sequencer", "sqlite", "postgres"}

StoresInit ==
    /\ part \in Parts
    /\ Init /\ Sqlite!Init /\ Postgres!Init

RestOf(p) ==
    /\ part = p /\ part' = p
    /\ p # "sequencer" => UNCHANGED vars
    /\ p # "sqlite" => UNCHANGED sqliteVars
    /\ p # "postgres" => UNCHANGED postgresVars

StoresNext ==
    \/ RestOf("sequencer") /\ Next
    \/ RestOf("sqlite") /\ Sqlite!Next
    \/ RestOf("postgres") /\ Postgres!Next

\* The fairness of each part; the actions it is about wait for a first step
\* that only the chosen part makes.
StoresSpec ==
    /\ StoresInit /\ [][StoresNext]_storesVars
    /\ \A t \in Thread : WF_vars(WaitFor(t) \/ Write(t) \/ Finish(t))
    /\ Sqlite!Fairness /\ Postgres!Fairness

-----------------------------------------------------------------------------
\* The backends never mix the work of two calls and leak no connection.
StoresSafe ==
    /\ Sqlite!TypeOK /\ Sqlite!OneTransaction
    /\ Postgres!TypeOK /\ Postgres!ConnectionsReturn

\* Both backends implement TaskRows, what the managers rely on.
StoresKeepRows == Sqlite!KeepsRows /\ Postgres!KeepsRows

\* Every call of a backend returns.
StoreCallsEnd == Sqlite!CallsEnd /\ Postgres!CallsEnd
=============================================================================
