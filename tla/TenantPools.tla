----------------------------- MODULE TenantPools -----------------------------
(***************************************************************************)
(* The per-tenant connection pools of backend/app/db/session.py: an LRU    *)
(* map of pools with a reference count each, used by request threads       *)
(* through get_db_session.                                                 *)
(*                                                                         *)
(* A critical section under _tenant_lock is one step.  getconn(),          *)
(* putconn(), the body of the session and the lookup before putconn() are  *)
(* steps of their own: the code keeps the slow calls outside the lock.     *)
(***************************************************************************)
EXTENDS Integers, FiniteSets

CONSTANTS
    Session,    \* threads inside get_db_session
    Tenant,     \* tenant databases
    Pool,       \* pool objects that may be built; bound in TLC runs
    MaxPools,   \* MAX_TENANT_POOLS
    None        \* no pool

ASSUME SessionAssumption == IsFiniteSet(Session)
ASSUME NoneAssumption    == None \notin Pool
ASSUME MaxAssumption     == MaxPools \in Nat

VARIABLES
    entry,      \* tenant_pools: the pool of each tenant in the map, or None
    older,      \* the order of the map: pairs of tenants, the one used less
                \* recently first
    in_use,     \* _TenantPoolEntry.in_use
    built,      \* pools built so far
    closed,     \* pools closed by an eviction
    pc,         \* where each session is
    tenant,     \* the database the session wants
    home,       \* the pool its checkout took the reference on
    target,     \* the pool its release looked up
    again       \* the session is discarding a closed connection and will
                \* check out another one

map     == <<entry, older, in_use, built, closed>>
session == <<pc, tenant, home, target, again>>
vars    == <<map, session>>

Init ==
    /\ entry = [n \in Tenant |-> None] /\ older = {}
    /\ in_use = [p \in Pool |-> 0]
    /\ built = {} /\ closed = {}
    /\ pc = [s \in Session |-> "idle"]
    /\ tenant \in [Session -> Tenant]
    /\ home = [s \in Session |-> None]
    /\ target = [s \in Session |-> None]
    /\ again = [s \in Session |-> FALSE]

-----------------------------------------------------------------------------
(* The map *)

InMap == {n \in Tenant : entry[n] # None}

\* Wrong on purpose: the cap outweighs the reference counts.
AnyInMap == InMap

Idle == {n \in InMap : in_use[entry[n]] = 0}

\* Wrong on purpose: only the oldest pool is looked at, idle or not.
EvictOldest ==
    LET oldest == {n \in InMap : ~\E m \in InMap : <<m, n>> \in older}
    IN  IF Cardinality(InMap) < MaxPools THEN {{}} ELSE {oldest \cap Idle}

\* The loop around _evict_if_idle_locked: evict the oldest idle pools until
\* the map is below the cap or nothing idle is left.
Evictable ==
    {E \in SUBSET Idle :
        /\ \A m \in E, n \in Idle \ E : <<m, n>> \in older
        /\ \/ Cardinality(InMap \ E) < MaxPools
           \/ E = Idle
        /\ \A n \in E : Cardinality(InMap \ (E \ {n})) >= MaxPools}

\* The order without the tenants E, and with a tenant put last.
Without(E) == {o \in older : o[1] \notin E /\ o[2] \notin E}
PutLast(E, n) == Without(E \cup {n}) \cup {<<m, n>> : m \in InMap \ (E \cup {n})}

\* max(0, in_use - 1), if the entry is still the one that was counted.
Unreference(n, p) ==
    in_use' = IF p # None /\ entry[n] = p /\ in_use[p] > 0
               THEN [in_use EXCEPT ![p] = @ - 1]
               ELSE in_use

-----------------------------------------------------------------------------
(* A session: get_db_session *)

Go(s, next) == pc' = [pc EXCEPT ![s] = next]

\* _checkout_tenant under the lock, the pool is there: make it the most
\* recently used one and take a reference.
CheckoutHit(s) ==
    /\ pc[s] \in {"idle", "again"}
    /\ LET n == tenant[s]
           p == entry[n]
       IN  /\ p # None
           /\ older' = PutLast({}, n)
           /\ in_use' = [in_use EXCEPT ![p] = @ + 1]
           /\ home' = [home EXCEPT ![s] = p]
    /\ Go(s, "getconn")
    /\ UNCHANGED <<entry, built, closed, tenant, target, again>>

\* _checkout_tenant under the lock, the pool is not there: evict, build it and
\* take a reference.
CheckoutMiss(s) ==
    /\ pc[s] \in {"idle", "again"}
    /\ entry[tenant[s]] = None
    /\ \E p \in Pool \ built, E \in Evictable :
          /\ built' = built \cup {p}
          /\ closed' = closed \cup {entry[n] : n \in E}
          /\ entry' = [n \in Tenant |-> IF n = tenant[s] THEN p
                                        ELSE IF n \in E THEN None ELSE entry[n]]
          /\ older' = PutLast(E, tenant[s])
          /\ in_use' = [in_use EXCEPT ![p] = 1]
          /\ home' = [home EXCEPT ![s] = p]
    /\ Go(s, "getconn")
    /\ UNCHANGED <<tenant, target, again>>

\* The new pool cannot be built (the tenant's database does not answer): the
\* evictions have happened, the request fails.
CheckoutFails(s) ==
    /\ pc[s] \in {"idle", "again"}
    /\ entry[tenant[s]] = None
    /\ \E E \in Evictable :
          /\ closed' = closed \cup {entry[n] : n \in E}
          /\ entry' = [n \in Tenant |-> IF n \in E THEN None ELSE entry[n]]
          /\ older' = Without(E)
    /\ Go(s, "idle")
    /\ again' = [again EXCEPT ![s] = FALSE]
    /\ UNCHANGED <<in_use, built, tenant, home, target>>

\* getconn(): a live connection, one the server has closed (discarded at the
\* first checkout only), or an error.
GetConn(s) ==
    /\ pc[s] = "getconn"
    /\ \/ Go(s, "using") /\ again' = [again EXCEPT ![s] = FALSE]
       \/ ~again[s] /\ Go(s, "release") /\ again' = [again EXCEPT ![s] = TRUE]
       \/ Go(s, "undo") /\ again' = [again EXCEPT ![s] = FALSE]
    /\ UNCHANGED <<map, tenant, home, target>>

\* Wrong on purpose: a failed getconn() keeps its reference.
UndoNothing(s) ==
    /\ pc[s] = "undo"
    /\ home' = [home EXCEPT ![s] = None]
    /\ Go(s, "idle")
    /\ UNCHANGED <<map, tenant, target, again>>

\* getconn() raised: give the reference back and fail.
Undo(s) ==
    /\ pc[s] = "undo"
    /\ Unreference(tenant[s], home[s])
    /\ home' = [home EXCEPT ![s] = None]
    /\ Go(s, "idle")
    /\ UNCHANGED <<entry, older, built, closed, tenant, target, again>>

\* The body of the session ends, by commit or by rollback.
Use(s) ==
    /\ pc[s] = "using"
    /\ Go(s, "release")
    /\ UNCHANGED <<map, tenant, home, target, again>>

\* _release_tenant looks the entry up under the lock.  (Were there none, the
\* connection would be closed on the spot and nothing counted.)
Lookup(s) ==
    /\ pc[s] = "release"
    /\ target' = [target EXCEPT ![s] = entry[tenant[s]]]
    /\ Go(s, "putconn")
    /\ UNCHANGED <<map, tenant, home, again>>

\* Wrong on purpose: the reference is given back before the connection.
PutConnUnreferenced(s) ==
    /\ pc[s] = "putconn"
    /\ Unreference(tenant[s], target[s])
    /\ Go(s, "drop")
    /\ UNCHANGED <<entry, older, built, closed, tenant, home, target, again>>

\* putconn(), or conn.close() when the pool does not accept the connection.
PutConn(s) ==
    /\ pc[s] = "putconn"
    /\ Go(s, "drop")
    /\ UNCHANGED <<map, tenant, home, target, again>>

\* The session is over, or goes on to its second checkout; the thread may
\* serve another tenant next.
Leave(s) ==
    /\ Go(s, IF again[s] THEN "again" ELSE "idle")
    /\ home' = [home EXCEPT ![s] = None]
    /\ target' = [target EXCEPT ![s] = None]
    /\ \/ UNCHANGED tenant
       \/ ~again[s] /\ \E n \in Tenant : tenant' = [tenant EXCEPT ![s] = n]
    /\ UNCHANGED again

\* The finally clause: drop the reference under the lock.
Drop(s) ==
    /\ pc[s] = "drop"
    /\ Unreference(tenant[s], target[s])
    /\ Leave(s)
    /\ UNCHANGED <<entry, older, built, closed>>

Step(s) ==
    \/ CheckoutHit(s) \/ CheckoutMiss(s) \/ CheckoutFails(s)
    \/ GetConn(s) \/ Undo(s) \/ Use(s)
    \/ Lookup(s) \/ PutConn(s) \/ Drop(s)

Next == \E s \in Session : Step(s)

Spec == Init /\ [][Next]_vars

-----------------------------------------------------------------------------
(* Properties *)

PC == {"idle", "again", "getconn", "using", "undo", "release", "putconn", "drop"}

TypeOK ==
    /\ entry \in [Tenant -> Pool \cup {None}]
    /\ older \in SUBSET (Tenant \X Tenant)
    /\ in_use \in [Pool -> Nat]
    /\ built \in SUBSET Pool /\ closed \in SUBSET Pool
    /\ pc \in [Session -> PC]
    /\ tenant \in [Session -> Tenant]
    /\ home \in [Session -> Pool \cup {None}]
    /\ target \in [Session -> Pool \cup {None}]
    /\ again \in [Session -> BOOLEAN]

\* From before getconn() until after putconn(), a session has a reference.
Holds(s) == pc[s] \in {"getconn", "using", "undo", "release", "putconn", "drop"}

\* The reference count of a pool in the map is the number of sessions between
\* the start of their checkout and the end of their release: no error path,
\* discarded connection or second checkout leaks a reference (the pool could
\* never be evicted) or drops one too many (it could be evicted in use).
RefsExact ==
    \A n \in InMap : in_use[entry[n]] = Cardinality({s \in Session : Holds(s) /\ home[s] = entry[n]})

\* A pool is never closed while a session is between its checkout and the end
\* of its release, however other tenants' requests force evictions.
NeverClosedInUse ==
    \A s \in Session : Holds(s) => home[s] \in built \ closed

\* A connection goes back to the pool it came from, although the release finds
\* that pool by the name of the tenant alone.
ReturnedHome ==
    \A s \in Session : pc[s] \in {"putconn", "drop"} => target[s] = home[s]

\* The eviction order is a strict total order of exactly the tenants in the
\* map, and no two tenants share a pool.
MapConsistent ==
    /\ \A o \in older : o[1] \in InMap /\ o[2] \in InMap /\ o[1] # o[2]
    /\ \A m, n \in InMap : m # n => (<<m, n>> \in older <=> <<n, m>> \notin older)
    /\ \A l, m, n \in InMap : <<l, m>> \in older /\ <<m, n>> \in older => <<l, n>> \in older
    /\ \A m, n \in InMap : entry[m] = entry[n] => m = n

\* The map grows beyond the cap only when every other pool in it is in use.
OverflowOnlyWhenBusy ==
    [][\A n \in Tenant :
          (entry[n] = None /\ entry'[n] # None /\ Cardinality(InMap') > MaxPools)
          => \A m \in InMap' \ {n} : in_use'[entry'[m]] > 0]_vars
=============================================================================
