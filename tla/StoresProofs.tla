----------------------------- MODULE StoresProofs -----------------------------
(***************************************************************************)
(* How rows are written, for any number of threads, calls, mutations and   *)
(* connections: the persist sequencer, which implements OrderedStore, and  *)
(* the two storage backends, which implement TaskRows.                     *)
(***************************************************************************)
EXTENDS MCStores, SequenceTheorems, FiniteSetTheorems, WellFoundedInduction, TLAPS

-----------------------------------------------------------------------------
(* The sequencer (class _TaskPersistSequencer) *)

\* A thread on its way carries the snapshot of the mutation it made, which is
\* neither finished nor a later one than the last.
Carried ==
    \A t \in Thread : InFlight(t) =>
        /\ last_finished < revision[t] /\ revision[t] <= last_reserved
        /\ snapshot[t] = revision[t]

\* No two threads hold the same revision.
Distinct ==
    \A t, u \in Thread : InFlight(t) /\ InFlight(u) /\ revision[t] = revision[u] => t = u

\* Who writes, or has written, has the turn.
WriterTurn == \A t \in Thread : pc[t] \in {"write", "finish"} => revision[t] = last_finished + 1

\* The inductive invariant.
PInv ==
    /\ TypeOK
    /\ version = last_reserved
    /\ last_finished <= last_reserved
    /\ store <= last_finished + 1
    /\ Carried
    /\ Distinct
    /\ WriterTurn
    /\ EveryRevisionHeld

LEMMA InitPInv == Init => PInv
  BY DEF Init, PInv, TypeOK, Carried, Distinct, WriterTurn, EveryRevisionHeld, InFlight

\* A mutation adds the revision last_reserved + 1, held by its thread.
LEMMA MutatePInv ==
  ASSUME PInv, NEW t \in Thread, Mutate(t)
  PROVE  PInv'
<1> USE DEF PInv, InFlight
<1>1. TypeOK'
  BY DEF TypeOK, Mutate
<1>2. /\ revision' = [revision EXCEPT ![t] = last_reserved + 1]
      /\ snapshot' = [snapshot EXCEPT ![t] = last_reserved + 1]
      /\ pc' = [pc EXCEPT ![t] = "wait"] /\ pc[t] = "idle"
      /\ last_reserved' = last_reserved + 1 /\ version' = version + 1
      /\ UNCHANGED <<store, last_finished>>
  BY DEF Mutate
<1>3. Carried'
  BY <1>2 DEF Carried, TypeOK
<1>4. Distinct'
  BY <1>2 DEF Distinct, Carried, TypeOK
<1>5. WriterTurn'
  BY <1>2 DEF WriterTurn, TypeOK
<1>6. EveryRevisionHeld'
  <2> SUFFICES ASSUME NEW r \in last_finished + 1 .. last_reserved + 1
               PROVE  \E u \in Thread : pc'[u] # "idle" /\ revision'[u] = r
    BY <1>2 DEF EveryRevisionHeld
  <2>1. CASE r = last_reserved + 1
    BY <1>2, <2>1 DEF TypeOK
  <2>2. CASE r # last_reserved + 1
    <3>1. PICK u \in Thread : InFlight(u) /\ revision[u] = r
      BY <2>2 DEF EveryRevisionHeld, TypeOK
    <3>2. QED
      BY <1>2, <3>1 DEF TypeOK
  <2>3. QED
    BY <2>1, <2>2
<1>7. QED
  BY <1>1, <1>2, <1>3, <1>4, <1>5, <1>6 DEF TypeOK

\* Waiting and writing leave the revisions as they are.
LEMMA WaitForPInv ==
  ASSUME PInv, NEW t \in Thread, WaitFor(t)
  PROVE  PInv'
<1> USE DEF PInv, InFlight
<1>1. TypeOK'
  BY DEF TypeOK, WaitFor
<1>2. \A u \in Thread : pc'[u] # "idle" <=> pc[u] # "idle"
  BY DEF TypeOK, WaitFor
<1>3. Carried' /\ Distinct' /\ EveryRevisionHeld'
  BY <1>2 DEF Carried, Distinct, EveryRevisionHeld, WaitFor
<1>4. WriterTurn'
  BY DEF WriterTurn, WaitFor, Turn, TypeOK
<1>5. QED
  BY <1>1, <1>3, <1>4 DEF WaitFor

LEMMA WritePInv ==
  ASSUME PInv, NEW t \in Thread, Write(t)
  PROVE  PInv'
<1> USE DEF PInv, InFlight
<1>1. snapshot[t] = last_finished + 1
  BY DEF Write, WriterTurn, Carried
<1>2. TypeOK' /\ store' <= last_finished' + 1
  BY <1>1 DEF TypeOK, Write
<1>3. \A u \in Thread : pc'[u] # "idle" <=> pc[u] # "idle"
  BY DEF TypeOK, Write
<1>4. Carried' /\ Distinct' /\ EveryRevisionHeld'
  BY <1>3 DEF Carried, Distinct, EveryRevisionHeld, Write
<1>5. WriterTurn'
  BY DEF WriterTurn, Write, TypeOK
<1>6. QED
  BY <1>2, <1>4, <1>5 DEF Write

\* Publishing removes the revision last_finished + 1 and no other.
LEMMA FinishPInv ==
  ASSUME PInv, NEW t \in Thread, Finish(t)
  PROVE  PInv'
<1> USE DEF PInv, InFlight
<1>1. revision[t] = last_finished + 1 /\ last_finished' = last_finished + 1
  BY DEF Finish, WriterTurn
<1>2. /\ UNCHANGED <<version, store, last_reserved, snapshot, revision>>
      /\ \A u \in Thread : pc'[u] # "idle" <=> pc[u] # "idle" /\ u # t
      /\ \A u \in Thread : pc'[u] \in {"write", "finish"} => u # t /\ pc'[u] = pc[u]
  BY DEF Finish, TypeOK
<1>3. TypeOK'
  BY <1>1 DEF TypeOK, Finish
<1>4. Carried'
  BY <1>1, <1>2 DEF Carried, Distinct, TypeOK, Finish
<1>5. Distinct'
  BY <1>2 DEF Distinct
<1>6. WriterTurn'
  <2>1. \A u \in Thread : pc[u] \in {"write", "finish"} => u = t
    BY <1>1 DEF WriterTurn, Distinct, Finish
  <2>2. QED
    BY <1>2, <2>1 DEF WriterTurn
<1>7. EveryRevisionHeld'
  <2> SUFFICES ASSUME NEW r \in last_finished + 2 .. last_reserved
               PROVE  \E u \in Thread : pc'[u] # "idle" /\ revision[u] = r
    BY <1>1, <1>2 DEF EveryRevisionHeld, TypeOK
  <2>1. PICK u \in Thread : pc[u] # "idle" /\ revision[u] = r
    BY DEF EveryRevisionHeld, TypeOK
  <2>2. QED
    BY <1>1, <1>2, <2>1 DEF TypeOK
<1>8. last_finished' <= last_reserved' /\ store' <= last_finished' + 1
  BY <1>1, <1>2 DEF Carried, TypeOK, Finish
<1>9. QED
  BY <1>2, <1>3, <1>4, <1>5, <1>6, <1>7, <1>8

THEOREM Invariance == Spec => []PInv
<1>1. PInv /\ [Next]_vars => PInv'
  <2>1. PInv /\ UNCHANGED vars => PInv'
    BY DEF PInv, TypeOK, Carried, Distinct, WriterTurn, EveryRevisionHeld, InFlight, vars
  <2>2. QED
    BY <2>1, MutatePInv, WaitForPInv, WritePInv, FinishPInv DEF Next
<1>2. QED
  BY InitPInv, <1>1, PTL DEF Spec

-----------------------------------------------------------------------------
\* The sequencer's counters and each thread's place keep their types
\* (class _TaskPersistSequencer).
THEOREM TypeCorrect == Spec => []TypeOK
<1>1. PInv => TypeOK
  BY DEF PInv
<1>2. QED
  BY <1>1, Invariance, PTL

\* run_in_order: two threads are never inside the writer of a task at once.
THEOREM WriterAlone == Spec => []OneWriter
<1>1. PInv => OneWriter
  BY DEF PInv, OneWriter, WriterTurn, Distinct, InFlight, TypeOK
<1>2. QED
  BY <1>1, Invariance, PTL

\* Every revision that reserve() gave out is held by a thread until it is
\* finished: nobody waits for a revision that will never come.
THEOREM NoRevisionLost == Spec => []EveryRevisionHeld
<1>1. PInv => EveryRevisionHeld
  BY DEF PInv
<1>2. QED
  BY <1>1, Invariance, PTL

\* The row of a task never goes back to an older snapshot.
THEOREM RowNeverOlder == Spec => NeverOlder
<1>1. PInv /\ [Next]_vars => [store' >= store]_store
  <2> SUFFICES ASSUME PInv, Next, store' # store
               PROVE  store' >= store
    BY DEF vars
  <2>1. PICK t \in Thread : Write(t)
    BY DEF Next, Mutate, WaitFor, Finish
  <2>2. store' = snapshot[t] /\ snapshot[t] = last_finished + 1
    BY <2>1 DEF PInv, Write, WriterTurn, Carried, InFlight
  <2>3. QED
    BY <2>2 DEF PInv, TypeOK
<1>2. QED
  BY <1>1, Invariance, PTL DEF Spec, NeverOlder

-----------------------------------------------------------------------------
(* The refinement of OrderedStore *)

\* The snapshots of the mutations after the a-th, up to the b-th.
Slice(a, b) == [i \in 1 .. b - a |-> a + i]

LEMMA SliceType ==
  ASSUME NEW a \in Nat, NEW b \in Nat, a <= b
  PROVE  Slice(a, b) \in Seq(Nat) /\ Len(Slice(a, b)) = b - a
<1>1. b - a \in Nat /\ Slice(a, b) \in [1 .. b - a -> Nat]
  BY DEF Slice
<1>2. Slice(a, b) \in Seq(Nat)
  BY <1>1, SeqDef
<1>3. DOMAIN Slice(a, b) = 1 .. b - a
  BY DEF Slice
<1>4. QED
  BY <1>1, <1>2, <1>3, LenProperties

LEMMA SliceAppend ==
  ASSUME NEW a \in Nat, NEW b \in Nat, a <= b
  PROVE  Append(Slice(a, b), b + 1) = Slice(a, b + 1)
<1>1. Slice(a, b) \in Seq(Nat) /\ Len(Slice(a, b)) = b - a
  BY SliceType
<1>2. Slice(a, b + 1) \in Seq(Nat) /\ Len(Slice(a, b + 1)) = b + 1 - a
  BY SliceType
<1>3. /\ Append(Slice(a, b), b + 1) \in Seq(Nat)
      /\ Len(Append(Slice(a, b), b + 1)) = b + 1 - a
      /\ \A i \in 1 .. b + 1 - a :
            Append(Slice(a, b), b + 1)[i] = IF i <= b - a THEN Slice(a, b)[i] ELSE b + 1
  BY <1>1, AppendProperties
<1>4. \A i \in 1 .. b + 1 - a : Append(Slice(a, b), b + 1)[i] = Slice(a, b + 1)[i]
  BY <1>3 DEF Slice
<1>5. QED
  BY <1>2, <1>3, <1>4, SeqEqual

LEMMA SliceTail ==
  ASSUME NEW a \in Nat, NEW b \in Nat, a < b
  PROVE  /\ Slice(a, b) # <<>>
         /\ Head(Slice(a, b)) = a + 1
         /\ Tail(Slice(a, b)) = Slice(a + 1, b)
<1>1. Slice(a, b) \in Seq(Nat) /\ Len(Slice(a, b)) = b - a
  BY SliceType
<1>2. Slice(a + 1, b) \in Seq(Nat) /\ Len(Slice(a + 1, b)) = b - (a + 1)
  BY SliceType
<1>3. Slice(a, b) # <<>>
  BY <1>1, EmptySeq
<1>4. Head(Slice(a, b)) = a + 1
  BY <1>1, <1>3 DEF Slice
<1>5. /\ Tail(Slice(a, b)) \in Seq(Nat) /\ Len(Tail(Slice(a, b))) = b - (a + 1)
      /\ \A i \in 1 .. b - (a + 1) : Tail(Slice(a, b))[i] = Slice(a, b)[i + 1]
  BY <1>1, <1>3, HeadTailProperties
<1>6. \A i \in 1 .. b - (a + 1) : Tail(Slice(a, b))[i] = Slice(a + 1, b)[i]
  BY <1>5 DEF Slice
<1>7. QED
  BY <1>2, <1>3, <1>4, <1>5, <1>6, SeqEqual

Pending == Slice(Tried, last_reserved)

LEMMA TriedType ==
  ASSUME PInv
  PROVE  Tried \in Nat /\ Tried <= last_reserved
  BY DEF PInv, TypeOK, Tried, Carried, WriterTurn, InFlight

LEMMA MutatePromised ==
  ASSUME PInv, NEW t \in Thread, Mutate(t)
  PROVE  version' = version + 1 /\ Pending' = Append(Pending, version + 1) /\ store' = store
<1>1. Tried' = Tried
  BY DEF PInv, TypeOK, Mutate, Tried
<1>2. last_reserved' = last_reserved + 1 /\ version = last_reserved
  BY DEF Mutate, PInv
<1>3. Pending' = Slice(Tried, last_reserved + 1)
  BY <1>1, <1>2 DEF Pending, Slice
<1>4. Append(Pending, version + 1) = Slice(Tried, last_reserved + 1)
  BY <1>2, TriedType, SliceAppend DEF Pending, PInv, TypeOK
<1>5. QED
  BY <1>3, <1>4 DEF Mutate

LEMMA WritePromised ==
  ASSUME PInv, NEW t \in Thread, Write(t)
  PROVE  /\ Pending # <<>> /\ Pending' = Tail(Pending) /\ version' = version
         /\ store' \in {store, Head(Pending)}
<1>1. revision[t] = last_finished + 1 /\ snapshot[t] = last_finished + 1
  BY DEF PInv, Write, WriterTurn, Carried, InFlight
<1>2. \A u \in Thread : pc[u] # "finish"
  BY DEF PInv, Write, WriterTurn, Distinct, InFlight
<1>3. Tried = last_finished /\ Tried' = last_finished + 1
  BY <1>2 DEF PInv, TypeOK, Write, Tried
<1>4. last_finished < last_reserved
  BY <1>1 DEF PInv, TypeOK, Write, Carried, InFlight
<1>5. /\ Pending # <<>> /\ Head(Pending) = last_finished + 1
      /\ Tail(Pending) = Slice(last_finished + 1, last_reserved)
  BY <1>3, <1>4, SliceTail DEF Pending, PInv, TypeOK
<1>6. Pending' = Slice(last_finished + 1, last_reserved)
  BY <1>3 DEF Write, Pending, Slice
<1>7. QED
  BY <1>1, <1>5, <1>6 DEF Write

LEMMA OthersPromised ==
  ASSUME PInv, NEW t \in Thread, WaitFor(t) \/ Finish(t)
  PROVE  Pending' = Pending /\ version' = version /\ store' = store
<1>1. CASE WaitFor(t)
  <2>1. \A u \in Thread : pc'[u] = "finish" <=> pc[u] = "finish"
    BY <1>1 DEF WaitFor, PInv, TypeOK
  <2>2. QED
    BY <1>1, <2>1 DEF WaitFor, Pending, Slice, Tried
<1>2. CASE Finish(t)
  <2>1. \A u \in Thread : pc[u] = "finish" => u = t
    BY <1>2 DEF Finish, PInv, WriterTurn, Distinct, InFlight
  <2>2. \A u \in Thread : pc'[u] # "finish"
    BY <1>2, <2>1 DEF Finish, PInv, TypeOK
  <2>3. Tried = last_finished + 1 /\ Tried' = last_finished'
    BY <1>2, <2>2 DEF Finish, Tried, PInv, TypeOK
  <2>4. last_finished' = last_finished + 1
    BY <1>2 DEF Finish, PInv, WriterTurn
  <2>5. QED
    BY <1>2, <2>3, <2>4 DEF Finish, Pending, Slice
<1>3. QED
  BY <1>1, <1>2

\* The sequencer implements OrderedStore: the snapshots of a record reach its
\* row one at a time and in the order of the mutations (class
\* _TaskPersistSequencer).
THEOREM Refinement == Spec => KeepsPromise
<1>1. Init => Promise!Init
  <2> SUFFICES ASSUME Init PROVE Promise!Init
    OBVIOUS
  <2>1. Tried = 0 /\ last_reserved = 0
    BY DEF Init, Tried
  <2>2. Slice(0, 0) = <<>>
    BY SliceType, EmptySeq
  <2>3. QED
    BY <2>1, <2>2 DEF Init, Promise!Init, Slice
<1>2. PInv /\ [Next]_vars => [Promise!Next]_Promise!vars
  <2> SUFFICES ASSUME PInv, [Next]_vars
               PROVE  Promise!Next \/ UNCHANGED <<version, Pending, store>>
    BY DEF Promise!vars, Pending, Slice
  <2>1. ASSUME NEW t \in Thread, Mutate(t) PROVE Promise!Next
    BY <2>1, MutatePromised DEF Promise!Next, Promise!Mutate, Pending, Slice
  <2>2. ASSUME NEW t \in Thread, Write(t) PROVE Promise!Next
    BY <2>2, WritePromised DEF Promise!Next, Promise!Write, Promise!Skip, Pending, Slice
  <2>3. ASSUME NEW t \in Thread, WaitFor(t) \/ Finish(t)
        PROVE  UNCHANGED <<version, Pending, store>>
    BY <2>3, OthersPromised
  <2>4. ASSUME UNCHANGED vars
        PROVE  UNCHANGED <<version, Pending, store>>
    BY <2>4 DEF vars, Pending, Slice, Tried
  <2>5. QED
    BY <2>1, <2>2, <2>3, <2>4 DEF Next
<1>3. QED
  BY <1>1, <1>2, Invariance, PTL DEF Spec, KeepsPromise, Promise!Spec

-----------------------------------------------------------------------------
(* The SQLite backend *)

SqliteWriter == SqliteUpsert \cup Entry

\* Who works on the connection holds its lock, and but for a close() finds it
\* open; a closed connection is not used.
LockHeld ==
    /\ \A c \in Sqlite!Call :
        c \in Sqlite!Holding => writeLock = c /\ (c \notin Close => ~closed)
    /\ closed => ~usable

\* Only a writer has a transaction, and it has it after the tables were made.
TablesThere ==
    /\ \A c \in Sqlite!Call :
        /\ stage[c] \in {"commit", "committed"} => c \in SqliteWriter
        /\ stage[c] = "trim" => c \in Entry
    /\ conn.tables = db.tables
    /\ initialized => db.tables
    /\ \A c \in SqliteWriter :
        stage[c] \in {"lock", "statement", "trim", "commit", "committed"} => db.tables

\* What an open transaction holds is the work of its call on what was committed.
OwnWork ==
    /\ \A c \in Entry :
        /\ stage[c] = "trim" => conn = [db EXCEPT !.history = @ \cup {c}]
        /\ stage[c] = "commit" => conn = [db EXCEPT !.history = Sqlite!NewestOf(@ \cup {c})]
    /\ \A c \in SqliteUpsert : stage[c] = "commit" =>
        conn = [db EXCEPT !.row = c, !.started = IF @ = NoRow THEN c ELSE @]
    /\ conn # db => \E c \in SqliteWriter : stage[c] \in {"trim", "commit", "rollback"}

SqliteInv == Sqlite!TypeOK /\ LockHeld /\ TablesThere /\ OwnWork

LEMMA SqliteInit == Sqlite!Init => SqliteInv
<1> SUFFICES ASSUME Sqlite!Init PROVE SqliteInv
  OBVIOUS
<1>1. db = [row |-> NoRow, started |-> NoRow, history |-> {}, tables |-> FALSE] /\ conn = db
  BY DEF Sqlite!Init
<1>2. Sqlite!TypeOK
  <2>1. db \in [row : SqliteUpsert \cup {NoRow}, started : SqliteUpsert \cup {NoRow},
                history : SUBSET Entry, tables : BOOLEAN]
    BY <1>1
  <2> QED
    BY <1>1, <2>1 DEF Sqlite!Init, Sqlite!TypeOK
<1>3. \A c \in Sqlite!Call : stage[c] = "new"
  BY DEF Sqlite!Init
<1>4. LockHeld
  BY <1>3 DEF Sqlite!Init, LockHeld, Sqlite!Holding
<1>5. SqliteWriter \subseteq Sqlite!Call
  BY DEF SqliteWriter, Sqlite!Call
<1>6. TablesThere
  BY <1>1, <1>3, <1>5 DEF Sqlite!Init, TablesThere
<1>7. OwnWork
  BY <1>1, <1>3, <1>5 DEF OwnWork, SqliteWriter
<1> QED
  BY <1>2, <1>4, <1>6, <1>7 DEF SqliteInv

LEMMA NewestAreRecords ==
  ASSUME NEW S
  PROVE  Sqlite!NewestOf(S) \subseteq S /\ Sqlite!Promise!NewestOf(S) = Sqlite!NewestOf(S)
  BY DEF Sqlite!NewestOf, Sqlite!Promise!NewestOf, Sqlite!Cardinality, Sqlite!Promise!Cardinality

\* Each conjunct of the invariant, over each step of a call: its types,
LEMMA SqliteTypes ==
  ASSUME SqliteInv, NEW c \in Sqlite!Call, Sqlite!Step(c)
  PROVE  Sqlite!TypeOK'
<1> USE DEF SqliteInv, Sqlite!TypeOK, Sqlite!Call, Sqlite!Go, Sqlite!connection, Sqlite!flags,
       Sqlite!locks, Sqlite!Release, Sqlite!CloseConnection
<1>1. CASE Sqlite!Begin(c)
  BY <1>1 DEF Sqlite!Begin
<1>2. CASE Sqlite!Ensure(c)
  BY <1>2 DEF Sqlite!Ensure
<1>3. CASE Sqlite!LockToCreate(c)
  BY <1>3 DEF Sqlite!LockToCreate
<1>4. CASE Sqlite!CreateTables(c)
  <2>1. conn' \in [row : SqliteUpsert \cup {NoRow}, started : SqliteUpsert \cup {NoRow},
                   history : SUBSET Entry, tables : BOOLEAN]
    BY <1>4 DEF Sqlite!CreateTables
  <2>2. db' \in [row : SqliteUpsert \cup {NoRow}, started : SqliteUpsert \cup {NoRow},
                 history : SUBSET Entry, tables : BOOLEAN]
    BY <1>4 DEF Sqlite!CreateTables
  <2>3. /\ {usable, initialized, closed}' \subseteq BOOLEAN
        /\ {initLock, writeLock}' \subseteq Sqlite!Call \cup {Nobody}
    <3>1. UNCHANGED <<usable, closed>> /\ (initialized' = TRUE \/ UNCHANGED initialized)
      BY <1>4 DEF Sqlite!CreateTables
    <3>2. (initLock' = Nobody /\ writeLock' = Nobody) \/ UNCHANGED <<initLock, writeLock>>
      BY <1>4 DEF Sqlite!CreateTables
    <3> QED
      BY <3>1, <3>2
  <2>4. \E p \in {"lock", "rollback"} : stage' = [stage EXCEPT ![c] = p]
    BY <1>4 DEF Sqlite!CreateTables
  <2> QED
    BY <2>1, <2>2, <2>3, <2>4
<1>5. CASE Sqlite!Lock(c)
  BY <1>5 DEF Sqlite!Lock
<1>6. CASE Sqlite!Statement(c)
  <2>1. conn' \in [row : SqliteUpsert \cup {NoRow}, started : SqliteUpsert \cup {NoRow},
                   history : SUBSET Entry, tables : BOOLEAN]
    <3>1. CASE /\ c \in SqliteUpsert
               /\ conn' = [conn EXCEPT !.row = c, !.started = IF @ = NoRow THEN c ELSE @]
      BY <3>1
    <3>2. CASE c \in Entry /\ conn' = [conn EXCEPT !.history = @ \cup {c}]
      BY <3>2
    <3> QED
      BY <1>6, <3>1, <3>2 DEF Sqlite!Statement
  <2> QED
    BY <1>6, <2>1 DEF Sqlite!Statement
<1>7. CASE Sqlite!Trim(c)
  BY <1>7, NewestAreRecords DEF Sqlite!Trim
<1>8. CASE Sqlite!Commit(c)
  BY <1>8 DEF Sqlite!Commit
<1>9. CASE Sqlite!Leave(c)
  BY <1>9 DEF Sqlite!Leave
<1>10. CASE Sqlite!Read(c)
  BY <1>10 DEF Sqlite!Read
<1>11. CASE Sqlite!Rollback(c)
  BY <1>11 DEF Sqlite!Rollback
<1>12. CASE Sqlite!CloseStore(c)
  BY <1>12 DEF Sqlite!CloseStore
<1> QED
  BY <1>1, <1>2, <1>3, <1>4, <1>5, <1>6, <1>7, <1>8, <1>9, <1>10, <1>11, <1>12 DEF Sqlite!Step

\* the lock and the open connection,
LEMMA SqliteLock ==
  ASSUME SqliteInv, NEW c \in Sqlite!Call, Sqlite!Step(c)
  PROVE  LockHeld'
<1>0. Nobody \notin Sqlite!Call
  BY CallAssumption DEF Sqlite!Call
<1> USE <1>0 DEF SqliteInv, Sqlite!TypeOK, LockHeld, Sqlite!Holding, Sqlite!Go,
      Sqlite!connection, Sqlite!flags,
       Sqlite!locks, Sqlite!Release, Sqlite!CloseConnection
<1>1. CASE Sqlite!Begin(c)
  BY <1>1 DEF Sqlite!Begin
<1>2. CASE Sqlite!Ensure(c)
  BY <1>2 DEF Sqlite!Ensure
<1>3. CASE Sqlite!LockToCreate(c)
  BY <1>3 DEF Sqlite!LockToCreate
<1>4. CASE Sqlite!CreateTables(c)
  BY <1>4 DEF Sqlite!CreateTables
<1>5. CASE Sqlite!Lock(c)
  BY <1>5 DEF Sqlite!Lock
<1>6. CASE Sqlite!Statement(c)
  BY <1>6 DEF Sqlite!Statement
<1>7. CASE Sqlite!Trim(c)
  BY <1>7, NewestAreRecords DEF Sqlite!Trim
<1>8. CASE Sqlite!Commit(c)
  BY <1>8 DEF Sqlite!Commit
<1>9. CASE Sqlite!Leave(c)
  BY <1>9 DEF Sqlite!Leave
<1>10. CASE Sqlite!Read(c)
  BY <1>10 DEF Sqlite!Read
<1>11. CASE Sqlite!Rollback(c)
  BY <1>11 DEF Sqlite!Rollback
<1>12. CASE Sqlite!CloseStore(c)
  BY <1>12 DEF Sqlite!CloseStore
<1> QED
  BY <1>1, <1>2, <1>3, <1>4, <1>5, <1>6, <1>7, <1>8, <1>9, <1>10, <1>11, <1>12 DEF Sqlite!Step

\* the tables,
LEMMA SqliteTables ==
  ASSUME SqliteInv, NEW c \in Sqlite!Call, Sqlite!Step(c)
  PROVE  TablesThere'
<1>0. /\ SqliteWriter \subseteq Sqlite!Call /\ SqliteWriter \cap (Look \cup Close) = {}
      /\ SqliteUpsert \cup Entry = SqliteWriter
  BY CallAssumption DEF Sqlite!Call, SqliteWriter
<1> USE <1>0 DEF SqliteInv, Sqlite!TypeOK, TablesThere, Sqlite!Go, Sqlite!connection,
      Sqlite!flags,
       Sqlite!locks, Sqlite!Release, Sqlite!CloseConnection
<1>1. CASE Sqlite!Begin(c)
  BY <1>1 DEF Sqlite!Begin
<1>2. CASE Sqlite!Ensure(c)
  BY <1>2 DEF Sqlite!Ensure
<1>3. CASE Sqlite!LockToCreate(c)
  BY <1>3 DEF Sqlite!LockToCreate
<1>4. CASE Sqlite!CreateTables(c)
  <2>1. CASE /\ db' = [db EXCEPT !.tables = TRUE] /\ conn' = [conn EXCEPT !.tables = TRUE]
             /\ stage' = [stage EXCEPT ![c] = "lock"]
    BY <1>4, <2>1
  <2>2. CASE UNCHANGED <<db, conn, initialized>> /\ stage' = [stage EXCEPT ![c] = "rollback"]
    BY <2>2
  <2> QED
    BY <1>4, <2>1, <2>2 DEF Sqlite!CreateTables
<1>5. CASE Sqlite!Lock(c)
  BY <1>5 DEF Sqlite!Lock
<1>6. CASE Sqlite!Statement(c)
  BY <1>6 DEF Sqlite!Statement
<1>7. CASE Sqlite!Trim(c)
  BY <1>7, NewestAreRecords DEF Sqlite!Trim
<1>8. CASE Sqlite!Commit(c)
  BY <1>8 DEF Sqlite!Commit
<1>9. CASE Sqlite!Leave(c)
  BY <1>9 DEF Sqlite!Leave
<1>10. CASE Sqlite!Read(c)
  BY <1>10 DEF Sqlite!Read
<1>11. CASE Sqlite!Rollback(c)
  BY <1>11 DEF Sqlite!Rollback
<1>12. CASE Sqlite!CloseStore(c)
  BY <1>12 DEF Sqlite!CloseStore
<1> QED
  BY <1>1, <1>2, <1>3, <1>4, <1>5, <1>6, <1>7, <1>8, <1>9, <1>10, <1>11, <1>12 DEF Sqlite!Step

\* and the open transaction.
LEMMA SqliteWork ==
  ASSUME SqliteInv, NEW c \in Sqlite!Call, Sqlite!Step(c)
  PROVE  OwnWork'
<1>0. /\ SqliteWriter \subseteq Sqlite!Call /\ SqliteUpsert \cup Entry = SqliteWriter
      /\ SqliteUpsert \cap Entry = {}
      /\ SqliteUpsert \subseteq SqliteWriter /\ Entry \subseteq SqliteWriter
  BY CallAssumption DEF Sqlite!Call, SqliteWriter
\* Who has a transaction is alone on the connection.
<1>1. \A d \in SqliteWriter :
        stage[d] \in {"trim", "commit", "rollback"} /\ c \in Sqlite!Holding => d = c
  BY <1>0 DEF SqliteInv, LockHeld, Sqlite!Holding
<1>2. stage \in [Sqlite!Call -> {"new", "ensure", "create", "ddl", "lock", "statement", "trim",
                        "commit", "committed", "rollback", "yes", "no"}]
  BY DEF SqliteInv, Sqlite!TypeOK
<1>3. CASE /\ UNCHANGED <<db, conn>>
           /\ \A d \in SqliteWriter :
                \/ stage'[d] = stage[d]
                \/ stage[d] \notin {"trim", "commit", "rollback"} /\ stage'[d] \notin {"trim", "commit"}
                \/ stage[d] \in {"trim", "commit"} /\ stage'[d] = "rollback"
  BY <1>3, <1>0 DEF SqliteInv, OwnWork
<1>4. CASE conn' = db' /\ \A d \in SqliteWriter : stage'[d] \notin {"trim", "commit"}
  BY <1>4, <1>0 DEF OwnWork
<1>5. CASE Sqlite!Begin(c) \/ Sqlite!Ensure(c) \/ Sqlite!LockToCreate(c) \/ Sqlite!Lock(c)
  BY <1>2, <1>3, <1>5, <1>0
  DEF Sqlite!Begin, Sqlite!Ensure, Sqlite!LockToCreate, Sqlite!Lock, Sqlite!Go, Sqlite!connection
<1>6. c \in Sqlite!Holding /\ stage[c] \notin {"trim", "commit", "rollback"} =>
        conn = db /\ \A d \in SqliteWriter : stage[d] \notin {"trim", "commit", "rollback"}
  BY <1>1 DEF SqliteInv, OwnWork
<1>7. CASE Sqlite!Leave(c) \/ Sqlite!Read(c) \/ Sqlite!CloseStore(c)
  BY <1>0, <1>2, <1>4, <1>6, <1>7
  DEF Sqlite!Leave, Sqlite!Read, Sqlite!CloseStore, Sqlite!CloseConnection, Sqlite!Go,
      Sqlite!connection, Sqlite!Holding
<1>8. CASE Sqlite!CreateTables(c)
  <2>1. /\ stage[c] = "ddl" /\ conn = db
        /\ \A d \in SqliteWriter : stage[d] \notin {"trim", "commit", "rollback"}
    BY <1>6, <1>8 DEF Sqlite!CreateTables, Sqlite!Holding
  <2>2. conn' = db' /\ \E p \in {"lock", "rollback"} : stage' = [stage EXCEPT ![c] = p]
    BY <1>8, <2>1 DEF Sqlite!CreateTables, Sqlite!Go
  <2> QED
    BY <1>0, <1>2, <1>4, <2>1, <2>2
<1>9. CASE Sqlite!Rollback(c)
  <2>1. /\ c \in Sqlite!Holding /\ stage[c] = "rollback"
        /\ stage' = [stage EXCEPT ![c] = "no"] /\ conn' = db /\ db' = db
    BY <1>9 DEF Sqlite!Rollback, Sqlite!CloseConnection, Sqlite!Go, Sqlite!Holding
  <2> QED
    BY <1>0, <1>1, <1>2, <1>4, <2>1
<1>10. CASE Sqlite!Commit(c)
  <2>1. c \in Sqlite!Holding /\ stage[c] = "commit" /\ conn' = conn
    BY <1>10 DEF Sqlite!Commit, Sqlite!Holding
  <2>2. CASE db' = conn /\ stage' = [stage EXCEPT ![c] = "committed"]
    BY <1>0, <1>1, <1>2, <1>4, <2>1, <2>2
  <2>3. CASE db' = db /\ stage' = [stage EXCEPT ![c] = "rollback"]
    BY <1>0, <1>2, <1>3, <2>1, <2>3
  <2> QED
    BY <1>10, <2>2, <2>3 DEF Sqlite!Commit, Sqlite!Go
<1>11. CASE Sqlite!Trim(c)
  <2>1. c \in Sqlite!Holding /\ stage[c] = "trim" /\ c \in Entry /\ db' = db
    BY <1>11 DEF Sqlite!Trim, Sqlite!Holding, SqliteInv, TablesThere
  <2>2. CASE /\ conn' = [conn EXCEPT !.history = Sqlite!NewestOf(@)]
             /\ stage' = [stage EXCEPT ![c] = "commit"]
    <3>1. conn = [db EXCEPT !.history = @ \cup {c}]
      BY <2>1 DEF SqliteInv, OwnWork
    <3>2. conn' = [db EXCEPT !.history = Sqlite!NewestOf(@ \cup {c})]
      BY <2>2, <3>1 DEF SqliteInv, Sqlite!TypeOK
    <3> QED
      BY <1>0, <1>1, <1>2, <2>1, <2>2, <3>2 DEF OwnWork
  <2>3. CASE conn' = conn /\ stage' = [stage EXCEPT ![c] = "rollback"]
    BY <1>0, <1>2, <1>3, <2>1, <2>3
  <2> QED
    BY <1>11, <2>2, <2>3 DEF Sqlite!Trim, Sqlite!Go
<1>12. CASE Sqlite!Statement(c)
  <2>1. /\ c \in Sqlite!Holding /\ stage[c] = "statement" /\ db' = db /\ conn = db
        /\ \A d \in SqliteWriter : stage[d] \notin {"trim", "commit", "rollback"}
    BY <1>6, <1>12 DEF Sqlite!Statement, Sqlite!Holding
  <2>2. CASE /\ c \in SqliteUpsert /\ stage' = [stage EXCEPT ![c] = "commit"]
             /\ conn' = [conn EXCEPT !.row = c, !.started = IF @ = NoRow THEN c ELSE @]
    BY <1>0, <1>2, <2>1, <2>2 DEF OwnWork
  <2>3. CASE /\ c \in Entry /\ stage' = [stage EXCEPT ![c] = "trim"]
             /\ conn' = [conn EXCEPT !.history = @ \cup {c}]
    BY <1>0, <1>2, <2>1, <2>3 DEF OwnWork
  <2>4. CASE conn' = conn /\ stage' = [stage EXCEPT ![c] = "rollback"]
    BY <1>0, <1>2, <1>3, <2>1, <2>4
  <2> QED
    BY <1>12, <2>2, <2>3, <2>4 DEF Sqlite!Statement, Sqlite!Go
<1> QED
  BY <1>5, <1>7, <1>8, <1>9, <1>10, <1>11, <1>12 DEF Sqlite!Step

LEMMA SqliteCrash ==
  ASSUME SqliteInv, Sqlite!Crash
  PROVE  SqliteInv'
<1>1. \A c \in Sqlite!Call : stage'[c] \in {"new", "yes", "no"}
  BY DEF Sqlite!Crash
<1>2. Sqlite!TypeOK'
  BY DEF Sqlite!Crash, SqliteInv, Sqlite!TypeOK
<1>3. LockHeld'
  BY <1>1 DEF Sqlite!Crash, LockHeld, Sqlite!Holding
<1>4. SqliteWriter \subseteq Sqlite!Call
  BY DEF SqliteWriter, Sqlite!Call
<1>5. TablesThere'
  BY <1>1, <1>4 DEF Sqlite!Crash, TablesThere
<1>6. OwnWork'
  BY <1>1, <1>4 DEF Sqlite!Crash, OwnWork, SqliteWriter
<1> QED
  BY <1>2, <1>3, <1>5, <1>6 DEF SqliteInv

LEMMA SqliteIsSafe == SqliteInv => Sqlite!TypeOK /\ Sqlite!OneTransaction
<1> SUFFICES ASSUME SqliteInv PROVE Sqlite!TypeOK /\ Sqlite!OneTransaction
  OBVIOUS
<1>1. \A c \in Sqlite!Holding : writeLock = c /\ (c \notin Close => ~closed)
  BY DEF SqliteInv, LockHeld, Sqlite!Holding
<1>2. \A c \in SqliteUpsert \cup Entry : stage[c] \in {"trim", "commit"} => db.tables
  BY DEF SqliteInv, TablesThere, SqliteWriter
<1>3. conn # db => \E c \in SqliteUpsert \cup Entry : stage[c] \in {"trim", "commit", "rollback"}
  BY DEF SqliteInv, OwnWork, SqliteWriter
<1> QED
  BY <1>1, <1>2, <1>3 DEF SqliteInv, Sqlite!OneTransaction

SqliteAsked == {c \in SqliteUpsert \cup Entry : stage[c] \notin Sqlite!Ended \cup {"committed"}}
SqliteDone == {c \in SqliteUpsert \cup Entry : stage[c] = "committed"}

\* Operations end, as a step of TaskRows.
LEMMA SqliteEnds ==
  ASSUME NEW Y \in SUBSET SqliteDone, NEW N \in SUBSET (SqliteAsked \cup SqliteDone),
         Sqlite!Promise!End(Y, N)
  PROVE  Sqlite!Promise!Next
<1>1. \E Y2 \in SUBSET {c \in SqliteUpsert \cup Entry : stage[c] = "committed"},
          N2 \in SUBSET ({c \in SqliteUpsert \cup Entry :
                            stage[c] \notin Sqlite!Ended \cup {"committed"}}
                         \cup {c \in SqliteUpsert \cup Entry : stage[c] = "committed"}) :
        Sqlite!Promise!End(Y2, N2)
  BY DEF SqliteAsked, SqliteDone
<1> QED
  BY <1>1 DEF Sqlite!Promise!Next

\* A call that goes on, begins, or ends with "no", as TaskRows sees it.
LEMMA SqliteGoes ==
  ASSUME SqliteInv, NEW c \in Sqlite!Call, NEW p, stage' = [stage EXCEPT ![c] = p],
         UNCHANGED <<db.row, db.started, db.history>>,
         c \in SqliteWriter =>
           \/ /\ stage[c] \notin {"committed", "yes"}
              /\ p \notin {"new", "committed", "yes"}
              /\ stage[c] = "no" => p = "no"
           \/ stage[c] = "committed" /\ p = "yes"
  PROVE  Sqlite!Promise!Next \/ UNCHANGED Sqlite!Promise!rowsVars
<1>0. stage'[c] = p /\ \A d \in Sqlite!Call : d # c => stage'[d] = stage[d]
  BY DEF SqliteInv, Sqlite!TypeOK
<1> SUFFICES ASSUME c \in SqliteWriter
             PROVE  Sqlite!Promise!Next \/ UNCHANGED Sqlite!Promise!rowsVars
  BY <1>0 DEF Sqlite!Promise!rowsVars, SqliteWriter, Sqlite!Call
<1>1. CASE stage[c] = "new" /\ p \notin {"new", "no", "committed", "yes"}
  <2>1. Sqlite!Promise!Ask(c)
    BY <1>0, <1>1 DEF Sqlite!Promise!Ask, Sqlite!Ended, SqliteWriter, Sqlite!Call
  <2> QED
    BY <2>1 DEF Sqlite!Promise!Next, SqliteWriter
<1>2. CASE stage[c] \in {"new", "no"} /\ p = "no"
  BY <1>0, <1>2 DEF Sqlite!Promise!rowsVars, Sqlite!Ended, SqliteWriter, Sqlite!Call
<1>3. CASE stage[c] \notin {"new", "no", "committed", "yes"} /\ p = "no"
  <2>1. Sqlite!Promise!End({}, {c})
    BY <1>0, <1>3 DEF Sqlite!Promise!End, Sqlite!Ended, SqliteWriter, Sqlite!Call
  <2>2. c \in SqliteAsked
    BY <1>3 DEF SqliteAsked, Sqlite!Ended, SqliteWriter
  <2> QED
    BY <2>1, <2>2, SqliteEnds
<1>4. CASE /\ stage[c] \notin {"new", "no", "committed", "yes"}
           /\ p \notin {"new", "no", "committed", "yes"}
  BY <1>0, <1>4 DEF Sqlite!Promise!rowsVars, Sqlite!Ended, SqliteWriter, Sqlite!Call
<1>5. CASE stage[c] = "committed" /\ p = "yes"
  <2>1. Sqlite!Promise!End({c}, {})
    BY <1>0, <1>5 DEF Sqlite!Promise!End, Sqlite!Ended, SqliteWriter, Sqlite!Call
  <2>2. c \in SqliteDone
    BY <1>5 DEF SqliteDone, SqliteWriter
  <2> QED
    BY <2>1, <2>2, SqliteEnds
<1> QED
  BY <1>1, <1>2, <1>3, <1>4, <1>5

\* A commit is the one step that changes rows.
LEMMA SqliteCommits ==
  ASSUME SqliteInv, NEW c \in Sqlite!Call, stage[c] = "commit", db' = conn,
         stage' = [stage EXCEPT ![c] = "committed"]
  PROVE  Sqlite!Promise!Next
<1>1. c \in SqliteWriter
  BY DEF SqliteInv, TablesThere
<1>2. stage'[c] = "committed" /\ \A d \in Sqlite!Call : d # c => stage'[d] = stage[d]
  BY DEF SqliteInv, Sqlite!TypeOK
<1>3. Sqlite!Promise!Effect(c)
  BY <1>1, <1>2 DEF Sqlite!Promise!Effect, Sqlite!Ended, SqliteWriter, Sqlite!Call
<1>4. db \in [row : SqliteUpsert \cup {NoRow}, started : SqliteUpsert \cup {NoRow},
               history : SUBSET Entry, tables : BOOLEAN]
  BY DEF SqliteInv, Sqlite!TypeOK
<1>5. CASE c \in SqliteUpsert
  <2>1. db' = [db EXCEPT !.row = c, !.started = IF @ = NoRow THEN c ELSE @]
    BY <1>5 DEF SqliteInv, OwnWork
  <2>2. Sqlite!Promise!Write(c)
    BY <1>3, <1>4, <2>1 DEF Sqlite!Promise!Write
  <2> QED
    BY <1>5, <2>2 DEF Sqlite!Promise!Next
<1>6. CASE c \in Entry
  <2>1. db' = [db EXCEPT !.history = Sqlite!NewestOf(@ \cup {c})]
    BY <1>6 DEF SqliteInv, OwnWork
  <2>2. db'.history = Sqlite!NewestOf(db.history \cup {c}) /\ UNCHANGED <<db.row, db.started>>
    BY <1>4, <2>1
  <2>3. Sqlite!Promise!Record(c)
    BY <1>3, <2>2, NewestAreRecords DEF Sqlite!Promise!Record
  <2> QED
    BY <1>6, <2>3 DEF Sqlite!Promise!Next
<1> QED
  BY <1>1, <1>5, <1>6 DEF SqliteWriter

\* A step of the backend is one of TaskRows, or changes none of its variables.
LEMMA SqliteKeeps ==
  ASSUME SqliteInv, Sqlite!Next
  PROVE  Sqlite!Promise!Next \/ UNCHANGED Sqlite!Promise!rowsVars
<1>1. CASE Sqlite!Crash
  <2> SUFFICES ASSUME NEW N, N = SqliteAsked \cup SqliteDone PROVE Sqlite!Promise!Next
    OBVIOUS
  <2>1. Sqlite!Promise!End({}, N)
    BY <1>1
    DEF Sqlite!Promise!End, Sqlite!Crash, Sqlite!Ended, Sqlite!Call, SqliteAsked, SqliteDone
  <2> QED
    BY <2>1, SqliteEnds
<1>2. ASSUME NEW c \in Sqlite!Call, Sqlite!Step(c)
      PROVE  Sqlite!Promise!Next \/ UNCHANGED Sqlite!Promise!rowsVars
  <2>0. c \in SqliteWriter => c \notin Look \cup Close
    BY CallAssumption DEF SqliteWriter
  <2>1. CASE Sqlite!Begin(c) \/ Sqlite!Ensure(c) \/ Sqlite!LockToCreate(c) \/ Sqlite!Lock(c)
            \/ Sqlite!Leave(c) \/ Sqlite!Read(c) \/ Sqlite!CloseStore(c)
    <3>1. \E p : /\ stage' = [stage EXCEPT ![c] = p] 
                 /\ c \in SqliteWriter =>
                     \/ /\ stage[c] \notin {"committed", "yes"}
                        /\ p \notin {"new", "committed", "yes"}
                        /\ stage[c] = "no" => p = "no"
                     \/ stage[c] = "committed" /\ p = "yes"
      BY <2>0, <2>1
      DEF Sqlite!Begin, Sqlite!Ensure, Sqlite!LockToCreate, Sqlite!Lock, Sqlite!Leave,
          Sqlite!Read, Sqlite!CloseStore, Sqlite!Go
    <3>2. UNCHANGED db
      BY <2>1
      DEF Sqlite!Begin, Sqlite!Ensure, Sqlite!LockToCreate, Sqlite!Lock, Sqlite!Leave,
          Sqlite!Read, Sqlite!CloseStore, Sqlite!connection, Sqlite!CloseConnection
    <3> QED
      BY <3>1, <3>2, SqliteGoes
  <2>2. CASE Sqlite!CreateTables(c) \/ Sqlite!Statement(c) \/ Sqlite!Trim(c) \/ Sqlite!Rollback(c)
    <3>1. \E p : /\ stage' = [stage EXCEPT ![c] = p] 
                 /\ stage[c] \notin {"committed", "yes", "no"}
                 /\ p \notin {"new", "committed", "yes"}
      BY <2>2 DEF Sqlite!CreateTables, Sqlite!Statement, Sqlite!Trim, Sqlite!Rollback, Sqlite!Go
    <3>2. db' = db \/ db' = [db EXCEPT !.tables = TRUE]
      BY <2>2
      DEF Sqlite!CreateTables, Sqlite!Statement, Sqlite!Trim, Sqlite!Rollback,
          Sqlite!CloseConnection
    <3>3. UNCHANGED <<db.row, db.started, db.history>>
      BY <3>2 DEF SqliteInv, Sqlite!TypeOK
    <3> QED
      BY <3>1, <3>3, SqliteGoes
  <2>3. CASE Sqlite!Commit(c)
    <3>1. CASE UNCHANGED db /\ stage' = [stage EXCEPT ![c] = "rollback"]
      BY <2>3, <3>1, SqliteGoes DEF Sqlite!Commit
    <3> QED
      BY <2>3, <3>1, SqliteCommits DEF Sqlite!Commit, Sqlite!Go
  <2> QED
    BY <1>2, <2>1, <2>2, <2>3 DEF Sqlite!Step
<1> QED
  BY <1>1, <1>2 DEF Sqlite!Next

-----------------------------------------------------------------------------
(* The PostgreSQL backend *)

Above(S, r) == {x \in S : x > r}

LEMMA NewestMeans ==
  ASSUME NEW S
  PROVE  /\ Postgres!NewestOf(S) = {r \in S : Cardinality(Above(S, r)) < Keep}
         /\ Postgres!Promise!NewestOf(S) = Postgres!NewestOf(S)
<1>1. \A T : /\ Postgres!Cardinality(T) = Cardinality(T)
            /\ Postgres!Promise!Cardinality(T) = Cardinality(T)
  BY DEF Cardinality, Postgres!Cardinality, Postgres!Promise!Cardinality
<1> QED
  BY <1>1 DEF Postgres!NewestOf, Postgres!Promise!NewestOf, Above

\* If enough records are newer than one, then enough of the newest ones are.
LEMMA NewestSuffice ==
  ASSUME NEW S, IsFiniteSet(S), S \subseteq Int, NEW r \in Int, Cardinality(Above(S, r)) >= Keep
  PROVE  Cardinality(Above(Postgres!NewestOf(S), r)) >= Keep
<1> DEFINE T == Above(S, r)
           N == Postgres!NewestOf(S)
           Old == T \ N
           A == {Above(S, y) : y \in Old}
<1>1. /\ IsFiniteSet(T) /\ T \subseteq S
      /\ \A y \in S : IsFiniteSet(Above(S, y)) /\ Cardinality(Above(S, y)) \in Nat
      /\ \A y \in Old : Cardinality(Above(S, y)) >= Keep
  <2>1. \A y : Above(S, y) \in SUBSET S
    BY DEF Above
  <2>2. \A y : IsFiniteSet(Above(S, y)) /\ Cardinality(Above(S, y)) \in Nat
    BY <2>1, FS_Subset, FS_CardinalityType
  <2> QED
    BY <2>1, <2>2, NewestMeans, CallAssumption
<1>2. CASE Old = {}
  <2>1. Above(N, r) = T
    BY <1>2, NewestMeans DEF Above
  <2> QED
    BY <2>1
<1>3. CASE Old # {}
  <2>1. IsWellFoundedOn(StrictSubsetOrdering(S), FiniteSubsetsOf(S))
    BY FS_StrictSubsetOrderingWellFounded
  <2>2. A \subseteq FiniteSubsetsOf(S) /\ A # {}
    BY <1>1, <1>3 DEF FiniteSubsetsOf, Above
  <2>3. PICK y \in Old : \A z \in Old : <<Above(S, z), Above(S, y)>> \notin StrictSubsetOrdering(S)
    <3>1. \E X \in A : \A Y \in A : ~(<<Y, X>> \in StrictSubsetOrdering(S))
      BY <2>1, <2>2, WFMin
    <3> QED
      BY <3>1
  <2>4. \A z \in Above(S, y) : z \in N
    <3> SUFFICES ASSUME NEW z \in Above(S, y), z \notin N PROVE FALSE
      OBVIOUS
    <3>1. z \in Old /\ z > y
      BY DEF Above
    <3>2. y \in Int /\ z \in Int /\ \A x \in Int : x > z => x > y
      BY <3>1 DEF Above
    <3>3. Above(S, z) \subseteq Above(S, y) /\ z \notin Above(S, z) /\ Above(S, y) \in SUBSET S
          /\ Above(S, z) \in SUBSET S
      <4>1. \A x \in Above(S, z) : x \in S /\ x \in Int /\ x > z
        BY DEF Above
      <4>2. \A x \in Above(S, z) : x \in Above(S, y)
        BY <3>2, <4>1 DEF Above
      <4>3. ~(z > z)
        BY <3>2
      <4> QED
        BY <4>1, <4>2, <4>3 DEF Above
    <3> QED
      BY <2>3, <3>1, <3>3 DEF StrictSubsetOrdering
  <2>5. Above(S, y) \subseteq Above(N, r) /\ Above(N, r) \in SUBSET S
    <3>1. N \subseteq S /\ y \in Int /\ y > r
      BY NewestMeans DEF Above
    <3>2. \A z \in Int : z > y => z > r
      BY <3>1
    <3> QED
      BY <2>4, <3>1, <3>2 DEF Above
  <2>6. /\ Cardinality(Above(S, y)) <= Cardinality(Above(N, r))
        /\ Cardinality(Above(N, r)) \in Nat
    BY <2>5, FS_Subset, FS_CardinalityType
  <2>7. Cardinality(Above(S, y)) >= Keep /\ Cardinality(Above(S, y)) \in Nat /\ Keep \in Nat
    BY <1>1, CallAssumption
  <2> QED
    BY <2>6, <2>7
<1> QED
  BY <1>2, <1>3

-----------------------------------------------------------------------------
\* What an append is about to delete is not among the newest records, whatever
\* was committed since its DELETE ran.
CutIsOld ==
    \A c \in Entry : at[c] = "commit" =>
        \A r \in cut[c] : Cardinality(Above(table.history \cup {c}, r)) >= Keep

Writers ==
    \A c \in Postgres!Call :
        at[c] \in {"trim", "commit", "committed", "unanswered"} => c \in Upsert \cup Entry

PostgresInv == Postgres!TypeOK /\ Postgres!ConnectionsReturn /\ CutIsOld /\ Writers

LEMMA Connections ==
  ASSUME NEW S
  PROVE  Postgres!Cardinality(S) = Cardinality(S)
  BY DEF Cardinality, Postgres!Cardinality

LEMMA PostgresInit == Postgres!Init => PostgresInv
<1> SUFFICES ASSUME Postgres!Init PROVE PostgresInv
  OBVIOUS
<1>1. Postgres!TypeOK
  <2>1. table \in [row : Upsert \cup {NoRow}, started : Upsert \cup {NoRow}, history : SUBSET Entry]
    BY DEF Postgres!Init
  <2>2. inUse \in 0 .. MaxConn
    BY CallAssumption DEF Postgres!Init
  <2> QED
    BY <2>1, <2>2 DEF Postgres!Init, Postgres!TypeOK
<1>2. Postgres!ConnectionsReturn
  <2>1. {c \in Postgres!Call : at[c] \in Postgres!Connected} = {}
    BY DEF Postgres!Init, Postgres!Connected
  <2> QED
    BY <2>1, FS_EmptySet, Connections DEF Postgres!Init, Postgres!ConnectionsReturn
<1>3. CutIsOld /\ Writers
  BY DEF Postgres!Init, CutIsOld, Writers, Postgres!Call
<1> QED
  BY <1>1, <1>2, <1>3 DEF PostgresInv

Out == {c \in Postgres!Call : at[c] \in Postgres!Connected}

\* A connection goes out with one call and comes back with one.
LEMMA OneOut ==
  ASSUME PostgresInv, NEW c \in Postgres!Call, NEW p, at' = [at EXCEPT ![c] = p]
  PROVE  /\ inUse = Cardinality(Out) /\ inUse \in 0 .. MaxConn
         /\ Out' = IF p \in Postgres!Connected THEN Out \cup {c} ELSE Out \ {c}
         /\ IsFiniteSet(Out)
         /\ (at[c] \in Postgres!Connected <=> p \in Postgres!Connected) => Cardinality(Out') = inUse
         /\ at[c] \notin Postgres!Connected /\ p \in Postgres!Connected => Cardinality(Out') = inUse + 1
         /\ at[c] \in Postgres!Connected /\ p \notin Postgres!Connected =>
              Cardinality(Out') = inUse - 1 /\ inUse >= 1
<1>1. inUse = Cardinality(Out) /\ inUse \in 0 .. MaxConn
  BY Connections DEF PostgresInv, Postgres!TypeOK, Postgres!ConnectionsReturn, Out
<1>2. IsFiniteSet(Out)
  <2>1. IsFiniteSet(Postgres!Call) /\ Out \in SUBSET Postgres!Call
    BY CallAssumption DEF Postgres!Call, Out
  <2> QED
    BY <2>1, FS_Subset
<1>3. Out' = IF p \in Postgres!Connected THEN Out \cup {c} ELSE Out \ {c}
  BY DEF Out, PostgresInv, Postgres!TypeOK
<1>4. c \in Out <=> at[c] \in Postgres!Connected
  BY DEF Out
<1>5. CASE p \in Postgres!Connected
  <2>1. /\ Out' = Out \cup {c}
        /\ Cardinality(Out \cup {c}) =
             IF c \in Out THEN Cardinality(Out) ELSE Cardinality(Out) + 1
    BY <1>2, <1>3, <1>5, FS_AddElement
  <2> QED
    BY <1>1, <1>2, <1>3, <1>4, <1>5, <2>1
<1>6. CASE p \notin Postgres!Connected
  <2>1. /\ Out' = Out \ {c}
        /\ Cardinality(Out \ {c}) =
             IF c \in Out THEN Cardinality(Out) - 1 ELSE Cardinality(Out)
    BY <1>2, <1>3, <1>6, FS_RemoveElement
  <2>2. c \in Out => Cardinality(Out) # 0
    BY <1>2, FS_EmptySet
  <2> QED
    BY <1>1, <1>2, <1>3, <1>4, <1>6, <2>1, <2>2
<1> QED
  BY <1>5, <1>6

\* What every step of a call but a commit and a DELETE does.
LEMMA PostgresGoes ==
  ASSUME PostgresInv, NEW c \in Postgres!Call, NEW p, Postgres!Go(c, p),
         p \in Postgres!Connected \cup {"new", "ensure", "create", "connect", "yes", "no"},
         p \in {"trim", "commit"} => c \in Upsert \cup Entry,
         p \in {"committed", "unanswered"} => at[c] = "commit",
         c \in Entry => p # "commit",
         UNCHANGED <<table, cut>>,
         {ready', pool'} \subseteq BOOLEAN, holder' \in Postgres!Call \cup {Nobody},
         \/ UNCHANGED inUse /\ (at[c] \in Postgres!Connected <=> p \in Postgres!Connected)
         \/ inUse' = inUse + 1 /\ inUse < MaxConn
            /\ at[c] \notin Postgres!Connected /\ p \in Postgres!Connected
         \/ inUse' = inUse - 1 /\ at[c] \in Postgres!Connected /\ p \notin Postgres!Connected
  PROVE  PostgresInv'
<1>0. at' = [at EXCEPT ![c] = p]
  BY DEF Postgres!Go
<1>1. inUse' = Cardinality(Out') /\ inUse' \in 0 .. MaxConn
  <2>1. MaxConn \in Nat /\ inUse \in 0 .. MaxConn
    BY CallAssumption DEF PostgresInv, Postgres!TypeOK
  <2>2. CASE UNCHANGED inUse /\ (at[c] \in Postgres!Connected <=> p \in Postgres!Connected)
    BY <1>0, <2>1, <2>2, OneOut
  <2>3. CASE /\ inUse' = inUse + 1 /\ inUse < MaxConn
             /\ at[c] \notin Postgres!Connected /\ p \in Postgres!Connected
    <3>1. Cardinality(Out') = inUse + 1
      BY <1>0, <2>3, OneOut
    <3> QED
      BY <2>1, <2>3, <3>1
  <2>4. CASE inUse' = inUse - 1 /\ at[c] \in Postgres!Connected /\ p \notin Postgres!Connected
    <3>1. Cardinality(Out') = inUse - 1 /\ inUse >= 1
      BY <1>0, <2>4, OneOut
    <3> QED
      BY <2>1, <2>4, <3>1
  <2> QED
    BY <2>2, <2>3, <2>4
<1>2. Postgres!TypeOK'
  BY <1>0, <1>1 DEF PostgresInv, Postgres!TypeOK
<1>3. Postgres!ConnectionsReturn'
  BY <1>1, Connections DEF Postgres!ConnectionsReturn, Out
<1>4. CutIsOld'
  BY <1>0 DEF CutIsOld, PostgresInv, Postgres!TypeOK
<1>5. Writers'
  BY <1>0 DEF Writers, PostgresInv, Postgres!TypeOK
<1> QED
  BY <1>2, <1>3, <1>4, <1>5 DEF PostgresInv

LEMMA PostgresTrim ==
  ASSUME PostgresInv, NEW c \in Postgres!Call, Postgres!Trim(c)
  PROVE  PostgresInv'
<1> DEFINE seen == table.history \cup {c}
<1>0. /\ at' = [at EXCEPT ![c] = "commit"] /\ at[c] = "trim" /\ c \in Upsert \cup Entry
      /\ cut' = [cut EXCEPT ![c] = seen \ Postgres!NewestOf(seen)]
      /\ UNCHANGED <<table, ready, holder, pool, inUse>>
  BY DEF Postgres!Trim, Postgres!Go, PostgresInv, Writers
<1>1. inUse = Cardinality(Out')
  BY <1>0, OneOut DEF Postgres!Connected
<1>2. c \in Entry => seen \in SUBSET Entry
  BY DEF PostgresInv, Postgres!TypeOK
<1>3. Postgres!TypeOK'
  <2>1. cut' \in [Entry -> SUBSET Entry]
    BY <1>0, <1>2 DEF PostgresInv, Postgres!TypeOK
  <2> QED
    BY <1>0, <2>1 DEF PostgresInv, Postgres!TypeOK, Postgres!Connected
<1>4. Postgres!ConnectionsReturn'
  BY <1>0, <1>1, Connections DEF Postgres!ConnectionsReturn, Out
<1>5. CutIsOld'
  <2> SUFFICES ASSUME NEW d \in Entry, at'[d] = "commit", NEW r \in cut'[d]
               PROVE  Cardinality(Above(table.history \cup {d}, r)) >= Keep
    BY <1>0 DEF CutIsOld
  <2>1. CASE d = c
    <3>1. r \in seen /\ r \notin Postgres!NewestOf(seen)
      BY <1>0, <2>1 DEF PostgresInv, Postgres!TypeOK
    <3>2. ~(Cardinality(Above(seen, r)) < Keep)
      BY <3>1, NewestMeans
    <3>3. Cardinality(Above(seen, r)) \in Nat
      <4>1. Above(seen, r) \in SUBSET Entry /\ IsFiniteSet(Entry)
        <5>1. Entry \in SUBSET (Upsert \cup Entry \cup Look)
          OBVIOUS
        <5>2. IsFiniteSet(Entry)
          BY <5>1, CallAssumption, FS_Subset
        <5> QED
          BY <1>2, <2>1, <5>2 DEF Above
      <4> QED
        BY <4>1, FS_Subset, FS_CardinalityType
    <3> QED
      BY <2>1, <3>2, <3>3, CallAssumption
  <2>2. CASE d # c
    BY <1>0, <2>2 DEF CutIsOld, PostgresInv, Postgres!TypeOK, Postgres!Call
  <2> QED
    BY <2>1, <2>2
<1>6. Writers'
  BY <1>0 DEF Writers, PostgresInv, Postgres!TypeOK
<1> QED
  BY <1>3, <1>4, <1>5, <1>6 DEF PostgresInv

LEMMA PostgresCommit ==
  ASSUME PostgresInv, NEW c \in Postgres!Call, Postgres!Commit(c)
  PROVE  PostgresInv'
<1>0. /\ at[c] = "commit" /\ c \in Upsert \cup Entry
      /\ \E p \in {"committed", "unanswered"} : at' = [at EXCEPT ![c] = p]
      /\ table' = Postgres!Applied(c)
      /\ UNCHANGED <<cut, ready, holder, pool, inUse>>
  BY DEF Postgres!Commit, Postgres!Go, PostgresInv, Writers
<1>1. inUse = Cardinality(Out')
  BY <1>0, OneOut DEF Postgres!Connected
<1>2. table' \in [row : Upsert \cup {NoRow}, started : Upsert \cup {NoRow}, history : SUBSET Entry]
  BY <1>0 DEF Postgres!Applied, PostgresInv, Postgres!TypeOK
<1>3. Postgres!TypeOK'
  BY <1>0, <1>2 DEF PostgresInv, Postgres!TypeOK, Postgres!Connected
<1>4. Postgres!ConnectionsReturn'
  BY <1>0, <1>1, Connections DEF Postgres!ConnectionsReturn, Out
<1>5. CutIsOld'
  <2> SUFFICES ASSUME NEW d \in Entry, at'[d] = "commit", NEW r \in cut[d]
               PROVE  Cardinality(Above(table'.history \cup {d}, r)) >= Keep
    BY <1>0 DEF CutIsOld
  <2>1. d # c /\ at[d] = "commit" /\ Cardinality(Above(table.history \cup {d}, r)) >= Keep
    BY <1>0 DEF CutIsOld, PostgresInv, Postgres!TypeOK, Postgres!Call
  <2>2. CASE c \in Upsert
    BY <1>0, <2>1, <2>2 DEF Postgres!Applied, PostgresInv, Postgres!TypeOK
  <2>3. CASE c \in Entry /\ c \notin Upsert
    <3> DEFINE S == table.history \cup {c} \cup {d}
    <3>0. IsFiniteSet(Entry) /\ r \in Int /\ Entry \subseteq Int
      <4>1. Entry \in SUBSET (Upsert \cup Entry \cup Look)
        OBVIOUS
      <4>2. IsFiniteSet(Entry)
        BY <4>1, CallAssumption, FS_Subset
      <4> QED
        BY <4>2, CallAssumption DEF PostgresInv, Postgres!TypeOK
    <3>1. S \in SUBSET Entry /\ IsFiniteSet(S) /\ S \subseteq Int
      <4>1. S \in SUBSET Entry
        BY <2>3 DEF PostgresInv, Postgres!TypeOK
      <4> QED
        BY <3>0, <4>1, FS_Subset
    <3>2. \A X, Y, z : X \subseteq Y /\ Y \in SUBSET Entry =>
            /\ Cardinality(Above(X, z)) <= Cardinality(Above(Y, z))
            /\ Cardinality(Above(X, z)) \in Nat /\ Cardinality(Above(Y, z)) \in Nat
      <4> SUFFICES ASSUME NEW X, NEW Y, NEW z, X \subseteq Y, Y \in SUBSET Entry
                   PROVE  /\ Cardinality(Above(X, z)) <= Cardinality(Above(Y, z))
                          /\ Cardinality(Above(X, z)) \in Nat /\ Cardinality(Above(Y, z)) \in Nat
        OBVIOUS
      <4>1. Above(X, z) \in SUBSET Above(Y, z) /\ Above(Y, z) \in SUBSET Entry
        BY DEF Above
      <4> QED
        BY <3>0, <4>1, FS_Subset, FS_CardinalityType
    <3>3. Cardinality(Above(S, r)) >= Keep
      BY <2>1, <3>1, <3>2, CallAssumption
    <3>4. Cardinality(Above(Postgres!NewestOf(S), r)) >= Keep
      BY <3>0, <3>1, <3>3, NewestSuffice
    <3>5. Postgres!NewestOf(S) \subseteq table'.history \cup {d}
      <4>1. table'.history = (table.history \cup {c}) \ cut[c]
        BY <1>0, <2>3 DEF Postgres!Applied, PostgresInv, Postgres!TypeOK
      <4>2. \A x \in cut[c] : x \notin Postgres!NewestOf(S)
        <5> SUFFICES ASSUME NEW x \in cut[c] PROVE ~(Cardinality(Above(S, x)) < Keep)
          BY NewestMeans
        <5>1. Cardinality(Above(table.history \cup {c}, x)) >= Keep
          BY <1>0, <2>3 DEF CutIsOld, PostgresInv
        <5> QED
          BY <3>1, <3>2, <5>1, CallAssumption
      <4>3. Postgres!NewestOf(S) \subseteq S
        BY NewestMeans
      <4> QED
        BY <4>1, <4>2, <4>3
    <3>6. table'.history \cup {d} \in SUBSET Entry
      BY <1>2
    <3>7. /\ Cardinality(Above(Postgres!NewestOf(S), r)) <= Cardinality(Above(table'.history \cup {d}, r))
          /\ Cardinality(Above(Postgres!NewestOf(S), r)) \in Nat
          /\ Cardinality(Above(table'.history \cup {d}, r)) \in Nat
      BY <3>2, <3>5, <3>6
    <3>8. Keep \in Nat
      BY CallAssumption
    <3> HIDE DEF S
    <3> QED
      BY <3>4, <3>7, <3>8
  <2> QED
    BY <1>0, <2>2, <2>3
<1>6. Writers'
  BY <1>0 DEF Writers, PostgresInv, Postgres!TypeOK
<1> QED
  BY <1>3, <1>4, <1>5, <1>6 DEF PostgresInv

LEMMA PostgresStep ==
  ASSUME PostgresInv, NEW c \in Postgres!Call, Postgres!Step(c)
  PROVE  PostgresInv'
<1>0. /\ {ready, pool} \subseteq BOOLEAN /\ holder \in Postgres!Call \cup {Nobody}
      /\ Upsert \cap Entry = {} /\ (Upsert \cup Entry) \cap Look = {}
      /\ Postgres!Call = Upsert \cup Entry \cup Look
      /\ \A d \in Postgres!Call :
            at[d] \in {"trim", "commit", "committed", "unanswered"} => d \in Upsert \cup Entry
  BY CallAssumption DEF PostgresInv, Postgres!TypeOK, Writers, Postgres!Call
<1> USE DEF Postgres!Connected
<1>1. CASE Postgres!Begin(c)
  BY <1>0, <1>1, PostgresGoes DEF Postgres!Begin
<1>2. CASE Postgres!Ensure(c)
  BY <1>0, <1>2, PostgresGoes DEF Postgres!Ensure
<1>3. CASE Postgres!Checkout(c)
  BY <1>0, <1>3, PostgresGoes DEF Postgres!Checkout, Postgres!Unlock
<1>4. CASE Postgres!CreateTables(c)
  BY <1>0, <1>4, PostgresGoes DEF Postgres!CreateTables, Postgres!Unlock
<1>5. CASE Postgres!WriteRow(c)
  BY <1>0, <1>5, PostgresGoes DEF Postgres!WriteRow
<1>6. CASE Postgres!Insert(c)
  BY <1>0, <1>6, PostgresGoes DEF Postgres!Insert
<1>7. CASE Postgres!Read(c)
  BY <1>0, <1>7, PostgresGoes DEF Postgres!Read
<1>8. CASE Postgres!Fail(c)
  BY <1>0, <1>8, PostgresGoes DEF Postgres!Fail
<1>9. CASE Postgres!Release(c)
  BY <1>0, <1>9, PostgresGoes DEF Postgres!Release
<1> QED
  BY <1>1, <1>2, <1>3, <1>4, <1>5, <1>6, <1>7, <1>8, <1>9, PostgresTrim, PostgresCommit
  DEF Postgres!Step

LEMMA PostgresCrash ==
  ASSUME PostgresInv, Postgres!Crash
  PROVE  PostgresInv'
<1>1. \A c \in Postgres!Call : at'[c] \in {"new", "yes", "no"}
  BY DEF Postgres!Crash
<1>2. Out' = {} /\ inUse' = 0
  BY <1>1 DEF Out, Postgres!Crash, Postgres!Connected
<1>3. Postgres!ConnectionsReturn'
  BY <1>2, FS_EmptySet, Connections DEF Postgres!ConnectionsReturn, Out
<1>4. Postgres!TypeOK'
  <2>1. at' \in [Postgres!Call -> Postgres!Connected
                    \cup {"new", "ensure", "create", "connect", "yes", "no"}]
    BY DEF Postgres!Crash, PostgresInv, Postgres!TypeOK
  <2>2. inUse' \in 0 .. MaxConn
    BY <1>2, CallAssumption
  <2> QED
    BY <2>1, <2>2 DEF Postgres!Crash, PostgresInv, Postgres!TypeOK
<1>5. CutIsOld' /\ Writers'
  BY <1>1 DEF CutIsOld, Writers, Postgres!Call
<1> QED
  BY <1>3, <1>4, <1>5 DEF PostgresInv

LEMMA PostgresIsSafe == PostgresInv => Postgres!TypeOK /\ Postgres!ConnectionsReturn
  BY DEF PostgresInv

PostgresAsked ==
    {c \in Upsert \cup Entry : at[c] \notin {"new", "yes", "no", "committed", "unanswered"}}
PostgresDone == {c \in Upsert \cup Entry : at[c] \in {"committed", "unanswered"}}

\* Operations end, as a step of TaskRows.
LEMMA PostgresEnds ==
  ASSUME NEW Y \in SUBSET PostgresDone, NEW N \in SUBSET (PostgresAsked \cup PostgresDone),
         Postgres!Promise!End(Y, N)
  PROVE  Postgres!Promise!Next
<1>1. \E Y2 \in SUBSET {c \in Upsert \cup Entry : at[c] \in {"committed", "unanswered"}},
         N2 \in SUBSET ({c \in Upsert \cup Entry :
                            at[c] \notin {"new", "yes", "no", "committed", "unanswered"}}
                         \cup {c \in Upsert \cup Entry : at[c] \in {"committed", "unanswered"}}) :
        Postgres!Promise!End(Y2, N2)
  BY DEF PostgresAsked, PostgresDone
<1> QED
  BY <1>1 DEF Postgres!Promise!Next

\* A step of the backend is one of TaskRows, or changes none of its variables.
LEMMA PostgresKeeps ==
  ASSUME PostgresInv, Postgres!Next
  PROVE  Postgres!Promise!Next \/ UNCHANGED Postgres!Promise!rowsVars
<1>0. Upsert \cup Entry \subseteq Postgres!Call /\ (Upsert \cup Entry) \cap Look = {}
  BY CallAssumption DEF Postgres!Call
<1>1. CASE Postgres!Crash
  <2> SUFFICES ASSUME NEW N, N = PostgresAsked \cup PostgresDone PROVE Postgres!Promise!Next
    OBVIOUS
  <2>1. Postgres!Promise!End({}, N)
    BY <1>0, <1>1 DEF Postgres!Promise!End, Postgres!Crash, PostgresAsked, PostgresDone
  <2> QED
    BY <2>1, PostgresEnds
<1>2. ASSUME NEW c \in Postgres!Call, NEW p, UNCHANGED table, at' = [at EXCEPT ![c] = p],
             c \in Upsert \cup Entry =>
                \/ /\ at[c] \notin {"committed", "unanswered", "yes"}
                   /\ p \notin {"new", "committed", "unanswered", "yes"}
                   /\ at[c] = "no" => p = "no"
                \/ at[c] = "committed" /\ p = "yes"
                \/ at[c] = "unanswered" /\ p = "no"
      PROVE  Postgres!Promise!Next \/ UNCHANGED Postgres!Promise!rowsVars
  <2>0. at'[c] = p /\ \A d \in Postgres!Call : d # c => at'[d] = at[d]
    BY <1>2 DEF PostgresInv, Postgres!TypeOK
  <2>1. CASE c \notin Upsert \cup Entry
    BY <1>0, <1>2, <2>0, <2>1 DEF Postgres!Promise!rowsVars
  <2>2. CASE /\ c \in Upsert \cup Entry /\ at[c] = "new"
             /\ p \notin {"new", "no", "committed", "unanswered", "yes"}
    <3>1. Postgres!Promise!Ask(c)
      BY <1>0, <1>2, <2>0, <2>2 DEF Postgres!Promise!Ask
    <3> QED
      BY <2>2, <3>1 DEF Postgres!Promise!Next
  <2>3. CASE c \in Upsert \cup Entry /\ at[c] \in {"new", "no"} /\ p = "no"
    BY <1>0, <1>2, <2>0, <2>3 DEF Postgres!Promise!rowsVars
  <2>4. CASE c \in Upsert \cup Entry /\ at[c] \notin {"new", "no", "committed", "yes"} /\ p = "no"
    <3>1. Postgres!Promise!End({}, {c})
      BY <1>0, <1>2, <2>0, <2>4 DEF Postgres!Promise!End
    <3>2. c \in PostgresAsked \cup PostgresDone
      BY <2>4 DEF PostgresAsked, PostgresDone
    <3> QED
      BY <3>1, <3>2, PostgresEnds
  <2>5. CASE /\ c \in Upsert \cup Entry
             /\ at[c] \notin {"new", "no", "committed", "unanswered", "yes"}
             /\ p \notin {"new", "no", "committed", "unanswered", "yes"}
    BY <1>0, <1>2, <2>0, <2>5 DEF Postgres!Promise!rowsVars
  <2>6. CASE c \in Upsert \cup Entry /\ at[c] = "committed" /\ p = "yes"
    <3>1. Postgres!Promise!End({c}, {})
      BY <1>0, <1>2, <2>0, <2>6 DEF Postgres!Promise!End
    <3>2. c \in PostgresDone
      BY <2>6 DEF PostgresDone
    <3> QED
      BY <3>1, <3>2, PostgresEnds
  <2> QED
    BY <1>2, <2>1, <2>2, <2>3, <2>4, <2>5, <2>6
<1>3. ASSUME NEW c \in Postgres!Call, Postgres!Commit(c)
      PROVE  Postgres!Promise!Next
  <2>0. /\ at[c] = "commit" /\ c \in Upsert \cup Entry /\ table' = Postgres!Applied(c)
        /\ \A d \in Postgres!Call : d # c => at'[d] = at[d]
        /\ at'[c] \in {"committed", "unanswered"}
    BY <1>3 DEF Postgres!Commit, Postgres!Go, PostgresInv, Writers, Postgres!TypeOK
  <2>1. Postgres!Promise!Effect(c)
    BY <1>0, <2>0 DEF Postgres!Promise!Effect
  <2>2. CASE c \in Upsert
    <3>1. Postgres!Promise!Write(c)
      BY <2>0, <2>1, <2>2
      DEF Postgres!Promise!Write, Postgres!Applied, PostgresInv, Postgres!TypeOK
    <3> QED
      BY <2>2, <3>1 DEF Postgres!Promise!Next
  <2>3. CASE c \in Entry /\ c \notin Upsert
    <3> DEFINE S == table.history \cup {c}
    <3>1. table'.history = S \ cut[c] /\ UNCHANGED <<table.row, table.started>>
      BY <2>0, <2>3 DEF Postgres!Applied, PostgresInv, Postgres!TypeOK
    <3>2. \A r \in cut[c] : r \notin Postgres!NewestOf(S)
      <4> SUFFICES ASSUME NEW r \in cut[c] PROVE ~(Cardinality(Above(S, r)) < Keep)
        BY NewestMeans
      <4>1. Cardinality(Above(S, r)) >= Keep
        BY <2>0, <2>3 DEF CutIsOld, PostgresInv
      <4>2. Cardinality(Above(S, r)) \in Nat
        <5>1. Entry \in SUBSET (Upsert \cup Entry \cup Look) /\ Above(S, r) \in SUBSET Entry
          BY <2>3 DEF Above, PostgresInv, Postgres!TypeOK
        <5> QED
          BY <5>1, CallAssumption, FS_Subset, FS_CardinalityType
      <4> QED
        BY <4>1, <4>2, CallAssumption
    <3>3. Postgres!Promise!NewestOf(S) \subseteq S \ cut[c]
      BY <3>2, NewestMeans
    <3>4. Postgres!Promise!Record(c)
      BY <2>1, <3>1, <3>3 DEF Postgres!Promise!Record
    <3> QED
      BY <2>3, <3>4 DEF Postgres!Promise!Next
  <2> QED
    BY <2>0, <2>2, <2>3
<1>4. ASSUME NEW c \in Postgres!Call, Postgres!Step(c)
      PROVE  Postgres!Promise!Next \/ UNCHANGED Postgres!Promise!rowsVars
  <2>1. CASE Postgres!Begin(c)
    BY <1>0, <1>2, <2>1 DEF Postgres!Begin, Postgres!Go
  <2>2. CASE Postgres!Ensure(c) \/ Postgres!Checkout(c) \/ Postgres!CreateTables(c)
    BY <1>0, <1>2, <2>2 DEF Postgres!Ensure, Postgres!Checkout, Postgres!CreateTables, Postgres!Go
  <2>3. CASE Postgres!WriteRow(c) \/ Postgres!Insert(c) \/ Postgres!Trim(c)
    BY <1>0, <1>2, <2>3 DEF Postgres!WriteRow, Postgres!Insert, Postgres!Trim, Postgres!Go
  <2>4. CASE Postgres!Read(c) \/ Postgres!Fail(c)
    BY <1>0, <1>2, <2>4 DEF Postgres!Read, Postgres!Fail, Postgres!Go
  <2>5. CASE Postgres!Release(c)
    BY <1>0, <1>2, <2>5 DEF Postgres!Release, Postgres!Go
  <2> QED
    BY <1>3, <1>4, <2>1, <2>2, <2>3, <2>4, <2>5 DEF Postgres!Step
<1> QED
  BY <1>1, <1>4 DEF Postgres!Next

-----------------------------------------------------------------------------
(* Both backends beside the sequencer *)

LEMMA PromisesInit == StoresInit => Sqlite!Promise!Init /\ Postgres!Promise!Init
<1>1. Sqlite!Init => Sqlite!Promise!Init
  BY DEF Sqlite!Init, Sqlite!Promise!Init, Sqlite!Ended, Sqlite!Call
<1>2. Postgres!Init => Postgres!Promise!Init
  BY DEF Postgres!Init, Postgres!Promise!Init, Postgres!Call
<1> QED
  BY <1>1, <1>2 DEF StoresInit

LEMMA SqliteRests ==
  ASSUME SqliteInv, UNCHANGED sqliteVars
  PROVE  SqliteInv'
<1>1. Sqlite!TypeOK'
  BY DEF sqliteVars, SqliteInv, Sqlite!TypeOK
<1>2. LockHeld' /\ TablesThere'
  BY DEF sqliteVars, SqliteInv, LockHeld, TablesThere, Sqlite!Holding
<1>3. OwnWork'
  BY DEF sqliteVars, SqliteInv, OwnWork
<1> QED
  BY <1>1, <1>2, <1>3 DEF SqliteInv

LEMMA PostgresRests ==
  ASSUME PostgresInv, UNCHANGED postgresVars
  PROVE  PostgresInv'
  BY DEF postgresVars, PostgresInv, Postgres!TypeOK, Postgres!ConnectionsReturn, CutIsOld, Writers

LEMMA StoresStep ==
  ASSUME SqliteInv, PostgresInv, [StoresNext]_storesVars
  PROVE  SqliteInv' /\ PostgresInv'
<1>1. ASSUME NEW c \in Sqlite!Call, Sqlite!Step(c) PROVE SqliteInv'
  BY <1>1, SqliteTypes, SqliteLock, SqliteTables, SqliteWork DEF SqliteInv
<1>2. Sqlite!Next => SqliteInv'
  BY <1>1, SqliteCrash DEF Sqlite!Next
<1>3. Postgres!Next => PostgresInv'
  BY PostgresStep, PostgresCrash DEF Postgres!Next
<1>4. UNCHANGED sqliteVars => SqliteInv'
  BY SqliteRests
<1>5. UNCHANGED postgresVars => PostgresInv'
  BY PostgresRests
<1>6. (Sqlite!Next \/ UNCHANGED sqliteVars) /\ (Postgres!Next \/ UNCHANGED postgresVars)
  BY DEF StoresNext, RestOf, storesVars
<1> QED
  BY <1>2, <1>3, <1>4, <1>5, <1>6

-----------------------------------------------------------------------------
\* sqlite.py and postgres.py, for any number of calls, records and connections:
\* a statement runs within the transaction of its own call and on an open
\* connection, a commit never makes a failed call's work durable, and every
\* connection comes back.
THEOREM StoresStaySafe == StoresSpec => []StoresSafe
<1> DEFINE Inv == SqliteInv /\ PostgresInv
<1>1. StoresInit => Inv
  BY SqliteInit, PostgresInit DEF StoresInit
<1>2. Inv /\ [StoresNext]_storesVars => Inv'
  BY StoresStep
<1>3. Inv => StoresSafe
  BY SqliteIsSafe, PostgresIsSafe DEF StoresSafe
<1> QED
  BY <1>1, <1>2, <1>3, PTL DEF StoresSpec

\* Both backends implement TaskRows: an operation takes effect at most once, as a
\* whole and before its answer, "yes" means that it did, and no record that is
\* among the newest max_records ever leaves a history, whatever fails, whichever
\* answers are lost, and however transactions overlap.
THEOREM RowsArePromised == StoresSpec => StoresKeepRows
<1> DEFINE Inv == SqliteInv /\ PostgresInv
<1>1. StoresInit => Inv /\ Sqlite!Promise!Init /\ Postgres!Promise!Init
  BY SqliteInit, PostgresInit, PromisesInit DEF StoresInit
<1>2. Inv /\ [StoresNext]_storesVars => Inv'
  BY StoresStep
<1>3. Inv /\ [StoresNext]_storesVars => [Sqlite!Promise!Next]_(Sqlite!Promise!rowsVars)
  <2> SUFFICES ASSUME Inv, [StoresNext]_storesVars
               PROVE  Sqlite!Promise!Next \/ UNCHANGED Sqlite!Promise!rowsVars
    OBVIOUS
  <2>1. CASE UNCHANGED sqliteVars
    BY <2>1 DEF sqliteVars, Sqlite!Promise!rowsVars
  <2> QED
    BY <2>1, SqliteKeeps DEF StoresNext, RestOf, storesVars
<1>4. Inv /\ [StoresNext]_storesVars => [Postgres!Promise!Next]_(Postgres!Promise!rowsVars)
  <2> SUFFICES ASSUME Inv, [StoresNext]_storesVars
               PROVE  Postgres!Promise!Next \/ UNCHANGED Postgres!Promise!rowsVars
    OBVIOUS
  <2>1. CASE UNCHANGED postgresVars
    BY <2>1 DEF postgresVars, Postgres!Promise!rowsVars
  <2> QED
    BY <2>1, PostgresKeeps DEF StoresNext, RestOf, storesVars
<1> QED
  BY <1>1, <1>2, <1>3, <1>4, PTL
  DEF StoresSpec, Sqlite!Promise!Spec, Postgres!Promise!Spec, StoresKeepRows, Sqlite!KeepsRows,
      Postgres!KeepsRows
=============================================================================
