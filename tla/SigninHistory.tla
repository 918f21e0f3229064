---------------------------- MODULE SigninHistory ----------------------------
(***************************************************************************)
(* The sign-in history of one user in ChaoxingSigninManager: the list in   *)
(* memory, the rows in the store, workers and requests that append to      *)
(* both, and first looks that replace the list by the rows.                *)
(* A record is its timestamp, taken when the record is made.               *)
(***************************************************************************)
EXTENDS Integers, Sequences, FiniteSetsExt, SequencesExt

CONSTANTS
    Writer,      \* threads that record a result for the user
    Reader,      \* requests that look at the history
    Keep,        \* records kept, 500 in memory and in the store
    LastRecord   \* bound on the records made

VARIABLES
    clock,       \* the newest timestamp
    items,       \* _history of the user
    stored,      \* the user's rows
    loaded,      \* the user is in _loaded_history_users
    made,        \* each writer's record, 0 if it has none
    appended,    \* the writers whose record is in memory but not in the store
    rows,        \* each reader's rows, newest first, Unread if it reads none
    spoiled      \* history: a write failed, or a record was made during a look

historyVars == <<clock, items, stored, loaded, made, appended, rows, spoiled>>

Unread == <<0>>

Init ==
    /\ clock = 0 /\ items = <<>> /\ stored = {}
    /\ loaded = FALSE
    /\ made = [w \in Writer |-> 0]
    /\ appended = {}
    /\ rows = [r \in Reader |-> Unread]
    /\ spoiled = FALSE

Looking == \E r \in Reader : rows[r] # Unread
Recording == \E w \in Writer : made[w] # 0

-----------------------------------------------------------------------------
\* The bound of a list: del items[:-500] keeps its end.
Bounded(list) == SubSeq(list, Len(list) - Min({Len(list), Keep}) + 1, Len(list))

\* The store's DELETE after an INSERT: all but the newest rows go.
NewestOf(records) == {r \in records : Cardinality({x \in records : x > r}) < Keep}

\* ORDER BY event_time DESC: the i-th record has i - 1 newer ones.
NewestFirst(records) ==
    [i \in 1 .. Cardinality(records) |->
        CHOOSE r \in records : Cardinality({x \in records : x > r}) = i - 1]

\* A thread builds a record, its timestamp included ...
Make(w) ==
    /\ made[w] = 0 /\ clock < LastRecord
    /\ clock' = clock + 1
    /\ made' = [made EXCEPT ![w] = clock + 1]
    /\ spoiled' = (spoiled \/ Looking)
    /\ UNCHANGED <<items, stored, loaded, appended, rows>>

\* ... appends it to the list under the lock ...
AppendItem(w) ==
    /\ made[w] # 0 /\ w \notin appended
    /\ items' = Bounded(Append(items, made[w]))
    /\ appended' = appended \cup {w}
    /\ UNCHANGED <<clock, stored, loaded, made, rows, spoiled>>

\* ... and then, without it, to the store, whose failure is only logged.
Persist(w) ==
    /\ w \in appended
    /\ \/ stored' = NewestOf(stored \cup {made[w]}) /\ UNCHANGED spoiled
       \/ UNCHANGED stored /\ spoiled' = TRUE
    /\ made' = [made EXCEPT ![w] = 0]
    /\ appended' = appended \ {w}
    /\ UNCHANGED <<clock, items, loaded, rows>>

\* The first look at a history reads its rows; without an answer, none.
ReadRows(r) ==
    /\ ~loaded /\ rows[r] = Unread
    /\ \/ /\ rows' = [rows EXCEPT ![r] = NewestFirst(stored)]
          /\ spoiled' = (spoiled \/ Recording)
       \/ rows' = [rows EXCEPT ![r] = <<>>] /\ spoiled' = TRUE
    /\ UNCHANGED <<clock, items, stored, loaded, made, appended>>

\* Wrong on purpose: the rows are added to what is there.
ExtendItems(r) ==
    /\ rows[r] # Unread
    /\ items' = Bounded(rows[r] \o items)
    /\ loaded' = TRUE
    /\ rows' = [rows EXCEPT ![r] = Unread]
    /\ UNCHANGED <<clock, stored, made, appended, spoiled>>

\* The list in memory becomes what was read.
ReplaceItems(r) ==
    /\ rows[r] # Unread
    /\ items' = rows[r]
    /\ loaded' = TRUE
    /\ rows' = [rows EXCEPT ![r] = Unread]
    /\ UNCHANGED <<clock, stored, made, appended, spoiled>>

\* _restore_history_from_store reads the newest rows of all users; those of
\* this one are its newest n.
Restart ==
    /\ \E n \in 0 .. Cardinality(stored) :
        items' = SubSeq(NewestFirst(stored), 1, n)
    /\ loaded' = FALSE
    /\ made' = [w \in Writer |-> 0]
    /\ appended' = {}
    /\ rows' = [r \in Reader |-> Unread]
    /\ spoiled' = FALSE
    /\ UNCHANGED <<clock, stored>>

Next ==
    \/ \E w \in Writer : Make(w) \/ AppendItem(w) \/ Persist(w)
    \/ \E r \in Reader : ReadRows(r) \/ ReplaceItems(r)
    \/ Restart

Spec == Init /\ [][Next]_historyVars

-----------------------------------------------------------------------------
(* Properties *)

TypeOK ==
    /\ clock \in 0 .. LastRecord
    /\ items \in BoundedSeq(1 .. LastRecord, Keep)
    /\ stored \subseteq 1 .. LastRecord
    /\ loaded \in BOOLEAN /\ spoiled \in BOOLEAN
    /\ made \in [Writer -> 0 .. LastRecord]
    /\ appended \subseteq Writer
    /\ \A r \in Reader : rows[r] = Unread \/ rows[r] \in BoundedSeq(1 .. LastRecord, Keep)

\* get_history() never shows a result twice, whatever appends, first looks
\* and restarts do; and the store never keeps more than the bound.
ShownOnce ==
    /\ IsInjective(items)
    /\ Cardinality(stored) <= Keep

\* What get_history() shows after a first look is what a restart would show,
\* unless a write failed, a record was made during the look, or the list is
\* at its bound (where the two bounds drop different records).
ShowsWhatIsStored ==
    loaded /\ ~Looking /\ ~Recording /\ ~spoiled /\ clock <= Keep => ToSet(items) = stored

HistoryAgrees == ShownOnce /\ ShowsWhatIsStored
=============================================================================
