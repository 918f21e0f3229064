---------------------------- MODULE ClientLimiter ----------------------------
(***************************************************************************)
(* The rate limiter of the API, backend/app/middleware/rate_limiter.py:    *)
(* requests run check_rate_limit in threads, count in a table of the main  *)
(* database, and in memory when that fails.                                *)
(*                                                                         *)
(* Time is in steps; the time a request saw may be old when it is counted. *)
(* The sweep of rows that are more than two windows old is left out.       *)
(***************************************************************************)
EXTENDS Integers, Sequences, FiniteSets

CONSTANTS
    Client,
    Thread,
    Proxy,      \* the address of a trusted proxy
    Limit,      \* requests
    Window,     \* window
    MaxCache,   \* MAX_CACHE_SIZE
    Interval,   \* CLEANUP_INTERVAL
    MaxTime,    \* bound: the end of time
    MaxCalls    \* bound: requests

VARIABLES
    time,
    calls,      \* _request_count
    rows,       \* count per client and window of rate_limit_counters
    cache,      \* _cache: count and start time per client
    request,    \* what each thread is doing
    entries,    \* history: memory windows started per client
    admitted    \* history: requests admitted per client

limiterVars == <<time, calls, rows, cache, request, entries, admitted>>

Idle == [at |-> "idle"]
Windows == {t \in 0 .. MaxTime : t % Window = 0}
WindowOf(t) == (t \div Window) * Window

Init ==
    /\ time = 0 /\ calls = 0
    /\ rows = [c \in Client |-> [w \in Windows |-> 0]]
    /\ cache = <<>>
    /\ request = [t \in Thread |-> Idle]
    /\ entries = [c \in Client |-> 0]
    /\ admitted = [c \in Client |-> 0]

Tick ==
    /\ time < MaxTime
    /\ time' = time + 1
    /\ UNCHANGED <<calls, rows, cache, request, entries, admitted>>

-----------------------------------------------------------------------------
(* Who is asking *)

Addresses == Client \cup {Proxy}

\* Wrong on purpose: the first hop is believed.
LeftmostHop(hops) == hops[1]

\* _get_forwarded_client_id: the rightmost hop that is not a trusted proxy.
ClientHop(hops) ==
    LET untrusted == {i \in DOMAIN hops : hops[i] # Proxy}
    IN  hops[CHOOSE i \in untrusted : \A k \in untrusted : k <= i]

\* What arrives: hops the client made up, its own address as our proxy saw it,
\* and perhaps another hop of ours.
Chains(c) == {claim \o <<c>> \o own : claim \in {<<>>} \cup {<<a>> : a \in Addresses},
                                      own \in {<<>>, <<Proxy>>}}

-----------------------------------------------------------------------------
(* check_rate_limit *)

Expired(start, t) == t - start > Window

KeepOnly(C) == [c \in C |-> cache[c]]

\* _cleanup_expired, then _evict_oldest, which spares no window under way.
AfterCleanup ==
    LET live == {c \in DOMAIN cache : ~Expired(cache[c].start, time)}
    IN  IF Cardinality(live) <= MaxCache THEN {KeepOnly(live)}
        ELSE {KeepOnly(K) : K \in {K \in SUBSET live :
                /\ Cardinality(K) = MaxCache
                /\ \A c \in K, d \in live \ K : cache[d].start <= cache[c].start}}

\* _maybe_cleanup under the lock; then the client's id and the time are taken.
Arrive(t, c, client) ==
    /\ request[t] = Idle /\ calls < MaxCalls
    /\ calls' = calls + 1
    /\ IF calls' % Interval = 0 THEN cache' \in AfterCleanup ELSE UNCHANGED cache
    /\ request' = [request EXCEPT ![t] =
         [at |-> "db", sender |-> c, client |-> client, now |-> time]]
    /\ UNCHANGED <<time, rows, entries, admitted>>

Finish(t, allowed) ==
    /\ request' = [request EXCEPT ![t] = Idle]
    /\ LET c == request[t].client IN
       admitted' = IF allowed THEN [admitted EXCEPT ![c] = @ + 1] ELSE admitted

\* _check_via_db: one statement counts and tells the count; without an answer,
\* counted or not, memory decides.
CheckInDb(t) ==
    /\ request[t].at = "db"
    /\ LET c == request[t].client
           w == WindowOf(request[t].now)
           counted == [rows EXCEPT ![c][w] = @ + 1]
       IN  \/ /\ rows' = counted
              /\ Finish(t, counted[c][w] <= Limit)
           \/ /\ rows' \in {rows, counted}
              /\ request' = [request EXCEPT ![t].at = "memory"]
              /\ UNCHANGED admitted
    /\ UNCHANGED <<time, calls, cache, entries>>

\* The entry found in memory, or the one defaultdict makes.
Entry(c) == IF c \in DOMAIN cache THEN cache[c] ELSE [count |-> 0, start |-> time]

Store(c, count, start) ==
    cache' = [d \in DOMAIN cache \cup {c} |->
                IF d = c THEN [count |-> count, start |-> start] ELSE cache[d]]

\* Wrong on purpose: a request refused starts the window anew.
ForgivingMemory(t) ==
    /\ request[t].at = "memory"
    /\ LET c == request[t].client
           e == Entry(c)
           over == e.count >= Limit
       IN  /\ Finish(t, ~over)
           /\ Store(c, IF over THEN 0 ELSE e.count + 1, e.start)
           /\ entries' = [entries EXCEPT ![c] = IF c \in DOMAIN cache THEN @ ELSE @ + 1]
    /\ UNCHANGED <<time, calls, rows>>

\* _check_in_memory, under the lock, with the time of the request's arrival.
CheckInMemory(t) ==
    /\ request[t].at = "memory"
    /\ LET c == request[t].client
           e == Entry(c)
           over == Expired(e.start, request[t].now)
           allowed == over \/ e.count < Limit
       IN  /\ Finish(t, allowed)
           /\ IF over THEN Store(c, 1, request[t].now)
              ELSE Store(c, IF allowed THEN e.count + 1 ELSE e.count, e.start)
           /\ entries' = [entries EXCEPT ![c] = IF over \/ c \notin DOMAIN cache THEN @ + 1 ELSE @]
    /\ UNCHANGED <<time, calls, rows>>

Next ==
    \/ Tick
    \/ \E t \in Thread :
        \/ \E c \in Client : \E client \in {ClientHop(hops) : hops \in Chains(c)} : Arrive(t, c, client)
        \/ CheckInDb(t) \/ CheckInMemory(t)

Spec == Init /\ [][Next]_limiterVars

-----------------------------------------------------------------------------
(* Properties *)

Requests == {Idle} \cup [at : {"db", "memory"}, sender : Client, client : Client, now : 0 .. MaxTime]

TypeOK ==
    /\ time \in 0 .. MaxTime /\ calls \in 0 .. MaxCalls
    /\ rows \in [Client -> [Windows -> 0 .. MaxCalls]]
    /\ DOMAIN cache \subseteq Client
    /\ \A c \in DOMAIN cache : cache[c] \in [count : 0 .. Limit, start : 0 .. MaxTime]
    /\ \A t \in Thread : request[t] \in Requests
    /\ entries \in [Client -> 0 .. MaxCalls] /\ admitted \in [Client -> 0 .. MaxCalls]

\* However requests interleave and however often the database fails and comes
\* back, a client is let through at most Limit times a window of the table and
\* Limit times a window in memory; what it says of itself never makes its
\* requests count for somebody else.
LimitKept ==
    /\ \A t \in Thread : request[t] # Idle => request[t].client = request[t].sender
    /\ \A c \in Client :
        admitted[c] <= Limit * (Cardinality({w \in Windows : rows[c][w] > 0}) + entries[c])

\* Between two clean-ups the memory grows by a client a request, those requests
\* included that were under way during the last one.
CacheBounded == Cardinality(DOMAIN cache) <= MaxCache + Interval - 1 + Cardinality(Thread)

LimiterSound == TypeOK /\ LimitKept /\ CacheBounded
=============================================================================
