-------------------------- MODULE TenantPoolsProofs --------------------------
(***************************************************************************)
(* What TenantPools guarantees for any sessions, tenants, pools and cap.   *)
(***************************************************************************)
EXTENDS TenantPools, FiniteSetTheorems, TLAPS

\* The sessions that have a reference on a pool.
Users(p) == {s \in Session : Holds(s) /\ home[s] = p}

\* A session's pool is the one of its tenant, all the time it has it.
HomeMapped == \A s \in Session : Holds(s) => home[s] # None /\ entry[tenant[s]] = home[s]

\* The pools of the map are distinct, were built and were not closed.
PoolsDistinct == \A m, n \in InMap : entry[m] = entry[n] => m = n
PoolsOpen     == \A n \in InMap : entry[n] \in built \ closed

Counted == \A n \in InMap : in_use[entry[n]] = Cardinality(Users(entry[n]))

\* The inductive invariant.
IInv ==
    /\ TypeOK
    /\ HomeMapped
    /\ ReturnedHome
    /\ PoolsDistinct
    /\ PoolsOpen
    /\ closed \subseteq built
    /\ Counted

-----------------------------------------------------------------------------
(* Counting *)

LEMMA UsersFinite ==
  ASSUME NEW p
  PROVE  IsFiniteSet(Users(p)) /\ Cardinality(Users(p)) \in Nat
  BY SessionAssumption, FS_Subset, FS_CardinalityType DEF Users

\* A session with a reference makes the count of its pool positive.
LEMMA HolderCounts ==
  ASSUME IInv, NEW s \in Session, Holds(s)
  PROVE  /\ tenant[s] \in InMap
         /\ entry[tenant[s]] = home[s]
         /\ in_use[home[s]] > 0
<1>1. tenant[s] \in InMap /\ entry[tenant[s]] = home[s]
  BY NoneAssumption DEF IInv, TypeOK, HomeMapped, InMap
<1>2. s \in Users(home[s])
  BY DEF Users
<1>3. Cardinality(Users(home[s])) > 0
  BY <1>2, UsersFinite, FS_EmptySet
<1>4. QED
  BY <1>1, <1>3 DEF IInv, Counted

\* An idle pool has no session.
LEMMA IdleUnheld ==
  ASSUME IInv, NEW n \in Idle, NEW s \in Session, Holds(s)
  PROVE  tenant[s] # n /\ home[s] # entry[n]
  BY HolderCounts DEF Idle, InMap

\* Idle tenants can go: what they leave is as it was.
LEMMA EvictionSafe ==
  ASSUME IInv, NEW E \in SUBSET Idle, NEW s \in Session, Holds(s)
  PROVE  tenant[s] \in InMap \ E /\ home[s] \notin {entry[n] : n \in E}
<1>1. tenant[s] \in InMap /\ entry[tenant[s]] = home[s]
  BY HolderCounts
<1>2. \A n \in E : tenant[s] # n /\ home[s] # entry[n]
  BY IdleUnheld
<1>3. QED
  BY <1>1, <1>2

-----------------------------------------------------------------------------
(* Every step keeps the invariant *)

LEMMA InitInv == Init => IInv
<1> SUFFICES ASSUME Init PROVE IInv
  OBVIOUS
<1>1. TypeOK
  BY DEF Init, TypeOK, PC
<1>2. InMap = {}
  BY DEF Init, InMap
<1>3. \A s \in Session : ~Holds(s) /\ pc[s] \notin {"putconn", "drop"}
  BY DEF Init, Holds
<1>4. closed \subseteq built
  BY DEF Init
<1>5. QED
  BY <1>1, <1>2, <1>3, <1>4
  DEF IInv, HomeMapped, ReturnedHome, PoolsDistinct, PoolsOpen, Counted

LEMMA CheckoutHitInv ==
  ASSUME IInv, NEW s \in Session, CheckoutHit(s)
  PROVE  IInv'
<1> DEFINE p == entry[tenant[s]]
<1> USE DEF CheckoutHit, Go
<1>0. TypeOK /\ ~Holds(s) /\ p \in Pool /\ tenant[s] \in InMap /\ p # None
  BY DEF IInv, TypeOK, Holds, InMap
<1>1. TypeOK'
  <2>1. older' \in SUBSET (Tenant \X Tenant)
    BY <1>0 DEF TypeOK, PutLast, Without, InMap
  <2>2. QED
    BY <1>0, <2>1 DEF TypeOK, PC
<1>2. InMap' = InMap
  BY DEF InMap
<1>3. \A t \in Session : Holds(t)' <=> Holds(t) \/ t = s
  BY <1>0 DEF TypeOK, Holds
<1>4. \A t \in Session : home'[t] = IF t = s THEN p ELSE home[t]
  BY <1>0 DEF TypeOK
<1>5. HomeMapped' /\ ReturnedHome' /\ PoolsDistinct' /\ PoolsOpen' /\ (closed \subseteq built)'
  <2>1. HomeMapped'
    BY <1>0, <1>3, <1>4 DEF IInv, HomeMapped
  <2>2. ReturnedHome'
    BY <1>0, <1>4 DEF IInv, ReturnedHome, TypeOK
  <2>3. QED
    BY <1>2, <2>1, <2>2 DEF IInv, PoolsDistinct, PoolsOpen
<1>6. Counted'
  <2> SUFFICES ASSUME NEW n \in InMap
               PROVE  in_use'[entry[n]] = Cardinality(Users(entry[n])')
    BY <1>2 DEF Counted
  <2>1. entry[n] \in Pool
    BY <1>0 DEF TypeOK, InMap
  <2>2. in_use[entry[n]] = Cardinality(Users(entry[n]))
    BY DEF IInv, Counted
  <2>3. CASE n = tenant[s]
    <3>1. Users(p)' = Users(p) \cup {s} /\ s \notin Users(p)
      BY <1>0, <1>3, <1>4 DEF Users
    <3>2. Cardinality(Users(p)') = Cardinality(Users(p)) + 1
      BY <3>1, UsersFinite, FS_AddElement
    <3>3. QED
      BY <1>0, <2>2, <2>3, <3>2 DEF TypeOK
  <2>4. CASE n # tenant[s]
    <3>1. entry[n] # p
      BY <1>0, <2>4 DEF IInv, PoolsDistinct
    <3>2. Users(entry[n])' = Users(entry[n])
      BY <1>0, <1>3, <1>4, <3>1 DEF Users
    <3>3. QED
      BY <1>0, <2>1, <2>2, <3>1, <3>2 DEF TypeOK
  <2>5. QED
    BY <2>3, <2>4
<1>7. QED
  BY <1>1, <1>5, <1>6 DEF IInv

LEMMA CheckoutMissInv ==
  ASSUME IInv, NEW s \in Session, CheckoutMiss(s)
  PROVE  IInv'
<1> USE DEF Go
<1>0. PICK p \in Pool \ built, E \in Evictable :
          /\ built' = built \cup {p}
          /\ closed' = closed \cup {entry[n] : n \in E}
          /\ entry' = [n \in Tenant |-> IF n = tenant[s] THEN p
                                        ELSE IF n \in E THEN None ELSE entry[n]]
          /\ older' = PutLast(E, tenant[s])
          /\ in_use' = [in_use EXCEPT ![p] = 1]
          /\ home' = [home EXCEPT ![s] = p]
  BY DEF CheckoutMiss
<1>1. /\ TypeOK /\ ~Holds(s) /\ entry[tenant[s]] = None /\ p # None
      /\ E \in SUBSET Idle /\ pc' = [pc EXCEPT ![s] = "getconn"]
      /\ UNCHANGED <<tenant, target, again>>
  BY NoneAssumption DEF IInv, TypeOK, Holds, CheckoutMiss, Evictable
<1>2. TypeOK'
  <2>1. older' \in SUBSET (Tenant \X Tenant)
    BY <1>0, <1>1 DEF TypeOK, PutLast, Without, InMap
  <2>2. closed' \in SUBSET Pool
    BY <1>0, <1>1 DEF TypeOK, Idle, InMap
  <2>3. entry' \in [Tenant -> Pool \cup {None}]
    BY <1>0, <1>1 DEF TypeOK
  <2>4. QED
    BY <1>0, <1>1, <2>1, <2>2, <2>3 DEF TypeOK, PC
<1>3. InMap' = (InMap \ E) \cup {tenant[s]}
  BY <1>0, <1>1 DEF InMap, TypeOK
<1>4. \A t \in Session : Holds(t)' <=> Holds(t) \/ t = s
  BY <1>1 DEF TypeOK, Holds
<1>5. \A t \in Session : home'[t] = IF t = s THEN p ELSE home[t]
  BY <1>0, <1>1 DEF TypeOK
<1>6. \A n \in InMap : n # tenant[s] /\ entry[n] \in built /\ entry[n] # p
  BY <1>0, <1>1 DEF IInv, PoolsOpen, InMap
<1>7. HomeMapped'
  <2> SUFFICES ASSUME NEW t \in Session, Holds(t)'
               PROVE  home'[t] # None /\ entry'[tenant[t]] = home'[t]
    BY <1>1 DEF HomeMapped
  <2>1. CASE t = s
    BY <1>0, <1>1, <1>5, <2>1 DEF TypeOK
  <2>2. CASE t # s
    <3>1. Holds(t)
      BY <1>4, <2>2
    <3>2. tenant[t] \in InMap \ E /\ entry[tenant[t]] = home[t]
      BY <1>1, <3>1, EvictionSafe, HolderCounts
    <3>3. QED
      BY <1>0, <1>5, <1>6, <2>2, <3>2 DEF InMap
  <2>3. QED
    BY <2>1, <2>2
<1>8. ReturnedHome'
  BY <1>1, <1>5 DEF IInv, ReturnedHome, TypeOK
<1>9. PoolsDistinct'
  BY <1>0, <1>1, <1>3, <1>6 DEF IInv, PoolsDistinct, InMap
<1>10. PoolsOpen' /\ closed' \subseteq built'
  <2>1. \A n \in E : entry[n] \in built
    BY <1>1, <1>6 DEF Idle
  <2>2. closed' \subseteq built'
    BY <1>0, <2>1 DEF IInv
  <2>3. \A n \in InMap \ E : entry[n] \in built \ closed'
    BY <1>0, <1>1 DEF IInv, PoolsOpen, PoolsDistinct, Idle
  <2>4. p \in built' \ closed'
    BY <1>0, <2>1 DEF IInv
  <2>5. QED
    BY <1>0, <1>1, <1>3, <1>6, <2>2, <2>3, <2>4 DEF PoolsOpen, InMap, TypeOK
<1>11. Counted'
  <2> SUFFICES ASSUME NEW n \in InMap', NEW q, q = entry'[n]
               PROVE  in_use'[q] = Cardinality(Users(q)')
    BY DEF Counted, Users
  <2>1. CASE n = tenant[s]
    <3>1. q = p
      BY <1>0, <1>1, <2>1 DEF TypeOK
    <3>2. \A t \in Session : Holds(t) => home[t] # p
      BY <1>6, HolderCounts
    <3>3. Users(q)' = {s}
      BY <1>4, <1>5, <3>1, <3>2 DEF Users
    <3>4. Cardinality(Users(q)') = 1
      BY <3>3, FS_Singleton
    <3>5. in_use'[q] = 1
      BY <1>0, <1>1, <3>1 DEF TypeOK
    <3>6. QED
      BY <3>4, <3>5
  <2>2. CASE n # tenant[s]
    <3>1. n \in InMap \ E /\ q = entry[n] /\ q # p /\ q \in Pool
      BY <1>0, <1>1, <1>3, <1>6, <2>2 DEF InMap, TypeOK
    <3>2. Users(q)' = Users(q)
      BY <1>1, <1>4, <1>5, <3>1 DEF Users
    <3>3. QED
      BY <1>0, <1>1, <3>1, <3>2 DEF IInv, Counted, TypeOK
  <2>3. QED
    BY <2>1, <2>2
<1>12. QED
  BY <1>2, <1>7, <1>8, <1>9, <1>10, <1>11 DEF IInv

LEMMA CheckoutFailsInv ==
  ASSUME IInv, NEW s \in Session, CheckoutFails(s)
  PROVE  IInv'
<1> USE DEF Go
<1>0. PICK E \in Evictable :
          /\ closed' = closed \cup {entry[n] : n \in E}
          /\ entry' = [n \in Tenant |-> IF n \in E THEN None ELSE entry[n]]
          /\ older' = Without(E)
  BY DEF CheckoutFails
<1>1. /\ TypeOK /\ ~Holds(s) /\ E \in SUBSET Idle
      /\ pc' = [pc EXCEPT ![s] = "idle"] /\ again' = [again EXCEPT ![s] = FALSE]
      /\ UNCHANGED <<in_use, built, tenant, home, target>>
  BY DEF IInv, TypeOK, Holds, CheckoutFails, Evictable
<1>2. TypeOK'
  <2>1. older' \in SUBSET (Tenant \X Tenant)
    BY <1>0, <1>1 DEF TypeOK, Without
  <2>2. closed' \in SUBSET Pool
    BY <1>0, <1>1 DEF TypeOK, Idle, InMap
  <2>3. entry' \in [Tenant -> Pool \cup {None}]
    BY <1>0, <1>1 DEF TypeOK
  <2>4. QED
    BY <1>1, <2>1, <2>2, <2>3 DEF TypeOK, PC
<1>3. InMap' = InMap \ E /\ \A n \in InMap \ E : entry'[n] = entry[n]
  BY <1>0, <1>1 DEF InMap, TypeOK
<1>4. \A t \in Session : Holds(t)' <=> Holds(t)
  BY <1>1 DEF TypeOK, Holds
<1>5. HomeMapped'
  <2> SUFFICES ASSUME NEW t \in Session, Holds(t)
               PROVE  home[t] # None /\ entry'[tenant[t]] = home[t]
    BY <1>1, <1>4 DEF HomeMapped
  <2>1. tenant[t] \in InMap \ E
    BY <1>1, EvictionSafe
  <2>2. QED
    BY <1>3, <2>1 DEF IInv, HomeMapped
<1>6. ReturnedHome' /\ PoolsDistinct'
  BY <1>1, <1>3 DEF IInv, ReturnedHome, PoolsDistinct, TypeOK
<1>7. PoolsOpen' /\ closed' \subseteq built'
  BY <1>0, <1>1, <1>3 DEF IInv, PoolsOpen, PoolsDistinct, Idle
<1>8. Counted'
  <2> SUFFICES ASSUME NEW n \in InMap \ E, NEW q, q = entry[n]
               PROVE  in_use[q] = Cardinality(Users(q)')
    BY <1>1, <1>3 DEF Counted, Users
  <2>1. Users(q)' = Users(q)
    BY <1>1, <1>4 DEF Users
  <2>2. QED
    BY <2>1 DEF IInv, Counted
<1>9. QED
  BY <1>2, <1>5, <1>6, <1>7, <1>8 DEF IInv

\* A step that leaves the map alone and neither takes nor gives back a
\* reference.
LEMMA QuietInv ==
  ASSUME IInv, NEW s \in Session, GetConn(s) \/ Use(s) \/ Lookup(s) \/ PutConn(s)
  PROVE  IInv'
<1> USE DEF Go
<1>1. TypeOK /\ Holds(s) /\ UNCHANGED <<map, tenant, home>>
  BY DEF IInv, Holds, GetConn, Use, Lookup, PutConn
<1>2. TypeOK'
  <2>1. UNCHANGED <<entry, older, in_use, built, closed, tenant, home>>
    BY <1>1 DEF map
  <2>2. pc' \in [Session -> PC]
    <3>1. \E p \in PC : pc' = [pc EXCEPT ![s] = p]
      BY DEF PC, GetConn, Use, Lookup, PutConn
    <3> QED
      BY <1>1, <3>1 DEF TypeOK
  <2>3. target' \in [Session -> Pool \cup {None}]
    <3>1. target' = target \/ target' = [target EXCEPT ![s] = entry[tenant[s]]]
      BY DEF GetConn, Use, Lookup, PutConn
    <3> QED
      BY <1>1, <3>1 DEF TypeOK
  <2>4. again' \in [Session -> BOOLEAN]
    <3>1. again' = again \/ \E b \in BOOLEAN : again' = [again EXCEPT ![s] = b]
      BY DEF GetConn, Use, Lookup, PutConn
    <3> QED
      BY <1>1, <3>1 DEF TypeOK
  <2> QED
    BY <1>1, <2>1, <2>2, <2>3, <2>4 DEF TypeOK
<1>3. \A t \in Session : Holds(t)' <=> Holds(t)
  BY <1>1 DEF TypeOK, Holds, GetConn, Use, Lookup, PutConn
<1>4. InMap' = InMap
  BY <1>1 DEF InMap, map
<1>5. HomeMapped'
  BY <1>1, <1>3 DEF IInv, HomeMapped, map
<1>6. ReturnedHome'
  BY <1>1 DEF IInv, TypeOK, ReturnedHome, HomeMapped, GetConn, Use, Lookup, PutConn
<1>7. PoolsDistinct' /\ PoolsOpen' /\ (closed \subseteq built)'
  BY <1>1, <1>4 DEF IInv, PoolsDistinct, PoolsOpen, map
<1>8. Counted'
  <2>1. \A q : Users(q)' = Users(q)
    BY <1>1, <1>3 DEF Users
  <2>2. QED
    BY <1>1, <1>4, <2>1 DEF IInv, Counted, map
<1>9. QED
  BY <1>2, <1>5, <1>6, <1>7, <1>8 DEF IInv

\* A reference is given back to the pool it was taken on, and is the session's.
LEMMA GiveBackInv ==
  ASSUME IInv, NEW s \in Session, Undo(s) \/ Drop(s)
  PROVE  IInv'
<1> DEFINE p == home[s]
<1> USE DEF Go
<1>0. TypeOK /\ Holds(s) /\ UNCHANGED <<entry, older, built, closed>>
  BY DEF IInv, Holds, Undo, Drop
<1>1. p \in Pool /\ tenant[s] \in InMap /\ entry[tenant[s]] = p /\ in_use[p] > 0 /\ p # None
  BY <1>0, NoneAssumption, HolderCounts DEF TypeOK, InMap
<1>2. in_use' = [in_use EXCEPT ![p] = @ - 1]
  <2>1. CASE Undo(s)
    BY <1>1, <2>1 DEF Undo, Unreference
  <2>2. CASE Drop(s)
    BY <1>1, <2>2 DEF IInv, ReturnedHome, Drop, Unreference
  <2>3. QED
    BY <2>1, <2>2
<1>3. /\ home' = [home EXCEPT ![s] = None]
      /\ pc'[s] \in {"idle", "again"}
      /\ \A t \in Session \ {s} : pc'[t] = pc[t]
      /\ \A t \in Session \ {s} : tenant'[t] = tenant[t] /\ target'[t] = target[t]
  BY <1>0 DEF TypeOK, Undo, Drop, Leave
<1>4. TypeOK'
  <2>1. in_use' \in [Pool -> Nat]
    BY <1>0, <1>1, <1>2 DEF TypeOK
  <2>2. QED
    BY <1>0, <2>1 DEF TypeOK, PC, Undo, Drop, Leave
<1>5. InMap' = InMap
  BY <1>0 DEF InMap
<1>6. \A t \in Session : /\ Holds(t)' <=> Holds(t) /\ t # s
                         /\ t # s => home'[t] = home[t] /\ pc'[t] = pc[t]
  BY <1>0, <1>3 DEF TypeOK, Holds
<1>7. HomeMapped'
  BY <1>0, <1>3, <1>6 DEF IInv, HomeMapped
<1>8. ReturnedHome'
  BY <1>3, <1>6 DEF IInv, ReturnedHome
<1>9. PoolsDistinct' /\ PoolsOpen' /\ (closed \subseteq built)'
  BY <1>0, <1>5 DEF IInv, PoolsDistinct, PoolsOpen
<1>10. Counted'
  <2> SUFFICES ASSUME NEW n \in InMap, NEW q, q = entry[n]
               PROVE  in_use'[q] = Cardinality(Users(q)')
    BY <1>0, <1>5 DEF Counted, Users
  <2>1. in_use[q] = Cardinality(Users(q)) /\ q \in Pool
    BY <1>0 DEF IInv, Counted, TypeOK, InMap
  <2>2. CASE q = p
    <3>1. s \in Users(q) /\ Users(q)' = Users(q) \ {s}
      BY <1>0, <1>6, <2>2 DEF Users
    <3>2. Cardinality(Users(q)') = Cardinality(Users(q)) - 1
      BY <3>1, UsersFinite, FS_RemoveElement
    <3>3. QED
      BY <1>0, <1>2, <2>1, <2>2, <3>2 DEF TypeOK
  <2>3. CASE q # p
    <3>1. Users(q)' = Users(q)
      BY <1>6, <2>3 DEF Users
    <3>2. QED
      BY <1>0, <1>2, <2>1, <2>3, <3>1 DEF TypeOK
  <2>4. QED
    BY <2>2, <2>3
<1>11. QED
  BY <1>4, <1>7, <1>8, <1>9, <1>10 DEF IInv

LEMMA StutterInv == IInv /\ UNCHANGED vars => IInv'
<1> SUFFICES ASSUME IInv, UNCHANGED vars PROVE IInv'
  OBVIOUS
<1>1. UNCHANGED <<entry, older, in_use, built, closed, pc, tenant, home, target, again>>
  BY DEF vars, map, session
<1>2. \A q : Users(q)' = Users(q)
  BY <1>1 DEF Users, Holds
<1>3. QED
  BY <1>1, <1>2 DEF IInv, TypeOK, HomeMapped, ReturnedHome, PoolsDistinct, PoolsOpen, Counted,
                    InMap, Holds

LEMMA StepInv == IInv /\ [Next]_vars => IInv'
<1> SUFFICES ASSUME IInv, Next PROVE IInv'
  BY StutterInv
<1>1. PICK s \in Session : Step(s)
  BY DEF Next
<1>2. QED
  BY <1>1, CheckoutHitInv, CheckoutMissInv, CheckoutFailsInv, QuietInv, GiveBackInv DEF Step

-----------------------------------------------------------------------------
(* The theorems *)

THEOREM Invariance == Spec => []IInv
  BY InitInv, StepInv, PTL DEF Spec

\* The map, the counters and the sessions' local state keep their types
\* (db/session.py: _TenantPoolEntry and get_db_session).
THEOREM TypeCorrect == Spec => []TypeOK
<1>1. IInv => TypeOK
  BY DEF IInv
<1>2. QED
  BY <1>1, Invariance, PTL

\* A reference count is the number of sessions that use the pool: nothing in
\* _checkout_tenant and _release_tenant leaks a reference or drops one too many.
THEOREM ReferencesExact == Spec => []RefsExact
<1>1. IInv => RefsExact
  BY DEF IInv, Counted, RefsExact, Users
<1>2. QED
  BY <1>1, Invariance, PTL

\* Eviction (_evict_if_idle_locked) never closes a pool that a session is using.
THEOREM NeverClosedWhileUsed == Spec => []NeverClosedInUse
<1>1. IInv => NeverClosedInUse
  <2> SUFFICES ASSUME IInv, NEW s \in Session, Holds(s)
               PROVE  home[s] \in built \ closed
    BY DEF NeverClosedInUse
  <2>1. QED
    BY HolderCounts DEF IInv, PoolsOpen
<1>2. QED
  BY <1>1, Invariance, PTL

\* _release_tenant looks the pool up by name and gets the one that was checked
\* out.
THEOREM ReturnedWhereTaken == Spec => []ReturnedHome
<1>1. IInv => ReturnedHome
  BY DEF IInv
<1>2. QED
  BY <1>1, Invariance, PTL

-----------------------------------------------------------------------------
(* The eviction order *)

\* A strict total order of the tenants M.
OrderOf(o, M) ==
    /\ o \subseteq M \X M
    /\ \A m \in M : <<m, m>> \notin o
    /\ \A m, n \in M : m # n => (<<m, n>> \in o <=> <<n, m>> \notin o)
    /\ \A l, m, n \in M : <<l, m>> \in o /\ <<m, n>> \in o => <<l, n>> \in o

OInv == IInv /\ IsFiniteSet(InMap) /\ OrderOf(older, InMap)

\* Taking tenants out leaves an order of the rest ...
LEMMA WithoutOrder ==
  ASSUME OrderOf(older, InMap), NEW E
  PROVE  OrderOf(Without(E), InMap \ E)
<1>1. \A m, n \in InMap \ E : <<m, n>> \in Without(E) <=> <<m, n>> \in older
  BY DEF Without
<1>2. Without(E) \subseteq (InMap \ E) \X (InMap \ E)
  BY DEF Without, OrderOf
<1>3. QED
  BY <1>1, <1>2 DEF OrderOf

\* ... and putting one last makes an order of it and the rest.
LEMMA PutLastOrder ==
  ASSUME OrderOf(older, InMap), NEW E, NEW n
  PROVE  OrderOf(PutLast(E, n), (InMap \ E) \cup {n})
<1> DEFINE R == InMap \ (E \cup {n})
           o == PutLast(E, n)
<1>1. OrderOf(Without(E \cup {n}), R)
  BY WithoutOrder
<1>2. (InMap \ E) \cup {n} = R \cup {n}
  OBVIOUS
<1>3. \A k, m \in R : <<k, m>> \in o <=> <<k, m>> \in Without(E \cup {n})
  BY DEF PutLast
<1>4. \A k \in R : <<k, n>> \in o /\ <<n, k>> \notin o
  BY <1>1 DEF PutLast, OrderOf
<1>5. <<n, n>> \notin o
  BY <1>1 DEF PutLast, OrderOf
<1>6. o \subseteq (R \cup {n}) \X (R \cup {n})
  BY <1>1 DEF PutLast, OrderOf
<1>7. \A k, m \in R \cup {n} : k # m => (<<k, m>> \in o <=> <<m, k>> \notin o)
  BY <1>1, <1>3, <1>4 DEF OrderOf
<1>8. \A k, l, m \in R \cup {n} : <<k, l>> \in o /\ <<l, m>> \in o => <<k, m>> \in o
  BY <1>1, <1>3, <1>4, <1>5 DEF OrderOf
<1>9. \A m \in R \cup {n} : <<m, m>> \notin o
  BY <1>1, <1>3, <1>5 DEF OrderOf
<1>10. QED
  BY <1>2, <1>6, <1>7, <1>8, <1>9 DEF OrderOf

LEMMA OrderStep == OInv /\ [Next]_vars => OInv'
<1> SUFFICES ASSUME OInv, [Next]_vars PROVE OInv'
  OBVIOUS
<1>1. IInv'
  BY StepInv DEF OInv
<1>2. ASSUME UNCHANGED <<entry, older>> PROVE OInv'
  BY <1>1, <1>2 DEF OInv, InMap
<1>3. ASSUME NEW s \in Session, CheckoutHit(s) PROVE OInv'
  <2>1. InMap' = (InMap \ {}) \cup {tenant[s]}
    BY <1>3 DEF CheckoutHit, InMap, OInv, IInv, TypeOK
  <2>2. InMap' = InMap
    BY <1>3 DEF CheckoutHit, InMap
  <2>3. OrderOf(older', InMap')
    BY <1>3, <2>1, PutLastOrder DEF CheckoutHit, OInv
  <2>4. QED
    BY <1>1, <2>2, <2>3 DEF OInv
<1>4. ASSUME NEW s \in Session, CheckoutMiss(s) PROVE OInv'
  <2>1. PICK p \in Pool \ built, E \in Evictable :
          /\ entry' = [n \in Tenant |-> IF n = tenant[s] THEN p
                                        ELSE IF n \in E THEN None ELSE entry[n]]
          /\ older' = PutLast(E, tenant[s])
    BY <1>4 DEF CheckoutMiss
  <2>2. InMap' = (InMap \ E) \cup {tenant[s]}
    BY <2>1, NoneAssumption DEF InMap, OInv, IInv, TypeOK
  <2>3. IsFiniteSet(InMap')
    BY <2>2, FS_Subset, FS_AddElement DEF OInv
  <2>4. OrderOf(older', InMap')
    BY <2>1, <2>2, PutLastOrder DEF OInv
  <2>5. QED
    BY <1>1, <2>3, <2>4 DEF OInv
<1>5. ASSUME NEW s \in Session, CheckoutFails(s) PROVE OInv'
  <2>1. PICK E \in Evictable :
          /\ entry' = [n \in Tenant |-> IF n \in E THEN None ELSE entry[n]]
          /\ older' = Without(E)
    BY <1>5 DEF CheckoutFails
  <2>2. InMap' = InMap \ E
    BY <2>1 DEF InMap, OInv, IInv, TypeOK
  <2>3. IsFiniteSet(InMap')
    BY <2>2, FS_Subset DEF OInv
  <2>4. OrderOf(older', InMap')
    BY <2>1, <2>2, WithoutOrder DEF OInv
  <2>5. QED
    BY <1>1, <2>3, <2>4 DEF OInv
<1>6. ASSUME NEW s \in Session, Step(s) PROVE OInv'
  BY <1>2, <1>3, <1>4, <1>5, <1>6
  DEF Step, GetConn, Undo, Use, Lookup, PutConn, Drop, map
<1>7. QED
  BY <1>2, <1>6 DEF Next, vars, map

THEOREM OrderInvariance == Spec => []OInv
<1>1. Init => OInv
  <2> SUFFICES ASSUME Init PROVE OInv
    OBVIOUS
  <2>1. InMap = {} /\ older = {}
    BY DEF Init, InMap
  <2>2. QED
    BY <2>1, InitInv, FS_EmptySet DEF OInv, OrderOf
<1>2. QED
  BY <1>1, OrderStep, PTL DEF Spec

\* tenant_pools stays an LRU order of exactly the pools in the map, and no two
\* tenants share a pool.
THEOREM MapStaysConsistent == Spec => []MapConsistent
<1>1. OInv => MapConsistent
  <2> SUFFICES ASSUME OInv PROVE MapConsistent
    OBVIOUS
  <2>1. \A o \in older : o[1] \in InMap /\ o[2] \in InMap /\ o = <<o[1], o[2]>>
    BY DEF OInv, OrderOf
  <2>2. \A o \in older : o[1] # o[2]
    BY <2>1 DEF OInv, OrderOf
  <2>3. QED
    BY <2>1, <2>2 DEF OInv, OrderOf, MapConsistent, IInv, PoolsDistinct
<1>2. QED
  BY <1>1, OrderInvariance, PTL

\* _checkout_tenant lets the map outgrow MAX_TENANT_POOLS only when every other
\* pool in it is in use.
THEOREM OverflowBusy == Spec => OverflowOnlyWhenBusy
<1> DEFINE Grows(n) == entry[n] = None /\ entry'[n] # None /\ Cardinality(InMap') > MaxPools
           Busy(n) == \A m \in InMap' \ {n} : in_use'[entry'[m]] > 0
<1>1. ASSUME OInv, [Next]_vars, NEW n \in Tenant, Grows(n)
      PROVE  Busy(n)
  <2>1. PICK s \in Session : CheckoutMiss(s)
    BY <1>1 DEF Next, Step, vars, map, OInv, IInv, TypeOK, CheckoutHit, CheckoutFails, GetConn,
                Undo, Use, Lookup, PutConn, Drop
  <2>2. PICK p \in Pool \ built, E \in Evictable :
          /\ entry' = [k \in Tenant |-> IF k = tenant[s] THEN p
                                        ELSE IF k \in E THEN None ELSE entry[k]]
          /\ in_use' = [in_use EXCEPT ![p] = 1]
    BY <2>1 DEF CheckoutMiss
  <2>3. n = tenant[s] /\ InMap' = (InMap \ E) \cup {n}
    BY <1>1, <2>2, NoneAssumption DEF InMap, OInv, IInv, TypeOK
  <2>4. IsFiniteSet(InMap \ E) /\ Cardinality(InMap \ E) \in Nat
    BY <1>1, FS_Subset, FS_CardinalityType DEF OInv
  <2>5. Cardinality(InMap') <= Cardinality(InMap \ E) + 1
    <3>1. \/ Cardinality((InMap \ E) \cup {n}) = Cardinality(InMap \ E)
          \/ Cardinality((InMap \ E) \cup {n}) = Cardinality(InMap \ E) + 1
      BY <2>4, FS_AddElement
    <3>2. QED
      BY <2>3, <2>4, <3>1
  <2>6. E = Idle
    <3>1. IsFiniteSet(InMap') /\ Cardinality(InMap') \in Nat
      BY <2>3, <2>4, FS_AddElement, FS_CardinalityType
    <3>2. ~(Cardinality(InMap \ E) < MaxPools)
      BY <1>1, <2>4, <2>5, <3>1, MaxAssumption
    <3>3. QED
      BY <3>2 DEF Evictable
  <2>7. QED
    <3> SUFFICES ASSUME NEW m \in InMap' \ {n} PROVE in_use'[entry'[m]] > 0
      OBVIOUS
    <3>1. m \in InMap \ Idle /\ entry'[m] = entry[m] /\ entry[m] \in built
      BY <1>1, <2>2, <2>3, <2>6 DEF InMap, OInv, IInv, PoolsOpen
    <3>2. in_use[entry[m]] > 0 /\ entry[m] # p /\ entry[m] \in Pool
      BY <1>1, <2>2, <3>1 DEF Idle, InMap, OInv, IInv, TypeOK
    <3>3. QED
      BY <1>1, <2>2, <3>1, <3>2 DEF OInv, IInv, TypeOK
<1>2. OInv /\ [Next]_vars
      => [\A n \in Tenant :
            (entry[n] = None /\ entry'[n] # None /\ Cardinality(InMap') > MaxPools)
            => \A m \in InMap' \ {n} : in_use'[entry'[m]] > 0]_vars
  BY <1>1
<1>3. QED
  BY <1>2, OrderInvariance, PTL DEF Spec, OverflowOnlyWhenBusy
=============================================================================
