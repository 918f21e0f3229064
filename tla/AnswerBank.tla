------------------------------ MODULE AnswerBank ------------------------------
(***************************************************************************)
(* The question bank of one learning task: a chain of providers that are   *)
(* asked one after the other (answer_base.py, answer_providers/), and the  *)
(* cache of answers that all tasks of the process share (answer_cache.py). *)
(*                                                                         *)
(* An answer is whether it fits the question (check_answer, or for a model *)
(* that it can be made one of the two judgements); texts are left out.     *)
(* "plain" is a provider that is asked a bounded number of times and keeps *)
(* nothing between questions: GO, SiliconFlow, TikuAdapter.                *)
(***************************************************************************)
EXTENDS Integers, FiniteSets, Sequences

CONSTANTS
    Thread,        \* threads of the task that answer questions
    Title,         \* titles of questions, the cache's keys
    NumTokens,     \* tokens of Yanxi
    Key,           \* tokens of Like
    MaxBalance,    \* bound: queries that Like tells a token has left
    RefreshEvery,  \* questions between two looks at Like's balances, 10
    Permits,       \* ai_concurrency
    MaxTries       \* retry_times, max_retries

VARIABLES
    chain,     \* the providers that could be initialised, in order
    memory,    \* the cache's snapshot in memory
    file,      \* and in the file
    loaded,    \* the snapshot was read from the file
    known,     \* history: titles cached since the process started
    at,        \* where each thread is
    title,     \* the title it asks for
    pos,       \* the provider of the chain it is at
    tries,     \* requests to that provider
    key,       \* Like's token it uses
    given,     \* history: the last answer it gave
    index,     \* Yanxi: _token_index
    token,     \* Yanxi: the token in use, counted from 0
    over,      \* Yanxi: _times is 0
    spent,     \* platform: Yanxi's tokens without queries left
    balance,   \* Like: _balance
    count,     \* Like: _count
    free       \* AI: permits of _request_semaphore

cacheState == <<memory, file, loaded, known>>
askers == <<title, pos, tries, key>>
yanxi == <<index, token, over, spent>>
like == <<balance, count>>
bankVars == <<chain, cacheState, at, askers, given, yanxi, like, free>>

Providers == {"yanxi", "like", "ai", "plain"}
Empty == [q \in Title |-> "none"]

\* _init_tiku of the chain drops the providers that cannot be used.
Init ==
    /\ chain \in {<<p>> : p \in Providers}
                 \cup {s \in [1 .. 2 -> Providers] : s[1] # s[2]}
    /\ memory = Empty /\ file = Empty /\ loaded = FALSE /\ known = {}
    /\ at = [t \in Thread |-> "idle"]
    /\ title \in [Thread -> Title]
    /\ pos = [t \in Thread |-> 1]
    /\ tries = [t \in Thread |-> 0]
    /\ key \in [Thread -> Key]
    /\ given = [t \in Thread |-> "none"]
    /\ index = 0 /\ token = 0 /\ over = FALSE /\ spent = {}
    /\ balance \in [Key -> 0 .. MaxBalance] /\ count = 0
    /\ free = Permits

\* wants_concurrent_query
Concurrent == \E i \in DOMAIN chain : chain[i] = "ai"

Goto(t, place) == at' = [at EXCEPT ![t] = place]
Asking(t, p) == at[t] = "ask" /\ chain[pos[t]] = p

-----------------------------------------------------------------------------
(* query: the cache first *)

NextQuestion(t) ==
    /\ at[t] = "idle"
    /\ Concurrent \/ \A s \in Thread : at[s] = "idle"
    /\ \E q \in Title : title' = [title EXCEPT ![t] = q]
    /\ pos' = [pos EXCEPT ![t] = 1]
    /\ tries' = [tries EXCEPT ![t] = 0]
    /\ Goto(t, "load")
    /\ UNCHANGED <<chain, cacheState, key, given, yanxi, like, free>>

\* Wrong on purpose: every CacheDAO reads the file.
LoadAlways(t) ==
    /\ at[t] = "load"
    /\ memory' \in {file, Empty}
    /\ loaded' = TRUE
    /\ Goto(t, "lookup")
    /\ UNCHANGED <<chain, file, known, askers, given, yanxi, like, free>>

\* CacheDAO(): the first one reads the file, if it can.
Load(t) ==
    /\ at[t] = "load"
    /\ IF loaded THEN UNCHANGED memory ELSE memory' \in {file, Empty}
    /\ loaded' = TRUE
    /\ Goto(t, "lookup")
    /\ UNCHANGED <<chain, file, known, askers, given, yanxi, like, free>>

LookUp(t) ==
    /\ at[t] = "lookup"
    /\ IF memory[title[t]] # "none"
       THEN Goto(t, "idle") /\ given' = [given EXCEPT ![t] = memory[title[t]]]
       ELSE Goto(t, "ask") /\ UNCHANGED given
    /\ UNCHANGED <<chain, cacheState, askers, yanxi, like, free>>

\* add_cache: memory, and the file unless it cannot be written.
Cache(q, answer) ==
    /\ memory' = [memory EXCEPT ![q] = answer]
    /\ file' \in {file, memory'}
    /\ known' = known \cup {q}
    /\ UNCHANGED loaded

\* Another task of the process caches an answer of its own.
CachedElsewhere ==
    /\ loaded
    /\ \E q \in Title : Cache(q, "fits")
    /\ UNCHANGED <<chain, at, askers, given, yanxi, like, free>>

Store(t) ==
    /\ at[t] = "store"
    /\ Cache(title[t], given[t])
    /\ Goto(t, "idle")
    /\ UNCHANGED <<chain, askers, given, yanxi, like, free>>

-----------------------------------------------------------------------------
(* The chain *)

\* The next provider, or no answer at all.
Miss(t) ==
    /\ UNCHANGED <<title, key>>
    /\ tries' = [tries EXCEPT ![t] = 0]
    /\ IF pos[t] < Len(chain)
       THEN pos' = [pos EXCEPT ![t] = @ + 1] /\ Goto(t, "ask") /\ UNCHANGED given
       ELSE Goto(t, "idle") /\ given' = [given EXCEPT ![t] = "none"] /\ UNCHANGED pos

\* Wrong on purpose: whatever a provider says is taken.
TakesAll(t, answer) ==
    /\ Goto(t, "store") /\ given' = [given EXCEPT ![t] = answer]
    /\ UNCHANGED askers

\* An answer is taken if it fits; the chain goes on otherwise.
Takes(t, answer) ==
    IF answer = "fits"
    THEN Goto(t, "store") /\ given' = [given EXCEPT ![t] = answer] /\ UNCHANGED askers
    ELSE Miss(t)

\* A request that may be repeated: an answer, or none after the last attempt.
Attempt(t) ==
    \/ tries[t] + 1 < MaxTries /\ tries' = [tries EXCEPT ![t] = @ + 1]
       /\ Goto(t, "ask") /\ UNCHANGED <<title, pos, key, given>>
    \/ tries[t] + 1 = MaxTries /\ Miss(t)
    \/ Miss(t)                       \* an answer that is not worth another try
    \/ \E a \in {"fits", "misfit"} : Takes(t, a)

AskPlain(t) ==
    /\ Asking(t, "plain")
    /\ Attempt(t)
    /\ UNCHANGED <<chain, cacheState, yanxi, like, free>>

-----------------------------------------------------------------------------
(* Yanxi: the tokens are used up one after the other *)

\* A miss with _times at 0 is taken for a used-up token as well, and _times
\* stays until a token answers.
AskYanxi(t) ==
    /\ Asking(t, "yanxi")
    /\ \/ /\ token \notin spent
          /\ spent' \in {spent, spent \cup {token}}
          /\ over' \in {over, (token \in spent')}
          /\ \E a \in {"fits", "misfit"} : Takes(t, a)
       \/ Miss(t) /\ UNCHANGED <<over, spent>>
       \/ /\ over \/ token \in spent
          /\ Goto(t, "rotate") /\ UNCHANGED <<over, spent, askers, given>>
    /\ UNCHANGED <<chain, cacheState, index, token, like, free>>

\* An index past the end stays there: it is an exception in any case.
Rotate(t) ==
    /\ at[t] = "rotate"
    /\ index' = IF index > NumTokens THEN index ELSE index + 1
    /\ Goto(t, "loadToken")
    /\ UNCHANGED <<chain, cacheState, askers, given, token, over, spent, like, free>>

\* load_token: without a token left an exception, which the chain takes for a
\* miss; alone, the provider raises it to the quiz.
LoadToken(t) ==
    /\ at[t] = "loadToken"
    /\ \/ /\ index < NumTokens
          /\ token' = index
          /\ Goto(t, "ask") /\ UNCHANGED <<askers, given>>
       \/ /\ index >= NumTokens
          /\ Miss(t)
          /\ UNCHANGED token
    /\ UNCHANGED <<chain, cacheState, index, over, spent, like, free>>

-----------------------------------------------------------------------------
(* Like: tokens with a balance *)

PickKey(t) ==
    /\ Asking(t, "like")
    /\ \/ \E k \in Key :
            /\ balance[k] > 0
            /\ key' = [key EXCEPT ![t] = k]
            /\ Goto(t, "like")
            /\ UNCHANGED <<title, pos, tries, given>>
       \/ (\A k \in Key : balance[k] <= 0) /\ Miss(t)
    /\ UNCHANGED <<chain, cacheState, yanxi, like, free>>

\* Wrong on purpose: every attempt is paid for.
PayEveryTry(t) ==
    /\ at[t] = "like"
    /\ \E a \in {"none", "fits", "misfit"} :
        /\ balance' = [balance EXCEPT ![key[t]] = @ - 1]
        /\ IF a = "none" /\ tries[t] + 1 < MaxTries
           THEN /\ tries' = [tries EXCEPT ![t] = @ + 1]
                /\ UNCHANGED <<at, title, pos, key, given, count>>
           ELSE /\ count' = (count + 1) % RefreshEvery
                /\ IF a = "none" THEN Miss(t) ELSE Takes(t, a)
    /\ UNCHANGED <<chain, cacheState, yanxi, free>>

\* _query_single, repeated with the same token; what answers is paid for, and
\* now and then the balances are read again, which stands at zero on failure.
AskLike(t) ==
    /\ at[t] = "like"
    /\ \E a \in {"none", "fits", "misfit"} :
        IF a = "none" /\ tries[t] + 1 < MaxTries
        THEN /\ tries' = [tries EXCEPT ![t] = @ + 1]
             /\ UNCHANGED <<at, title, pos, key, given, like>>
        ELSE /\ count' = (count + 1) % RefreshEvery
             /\ LET paid == [balance EXCEPT ![key[t]] = IF a = "none" THEN @ ELSE @ - 1]
                IN  IF count' = 0 THEN balance' \in [Key -> 0 .. MaxBalance] ELSE balance' = paid
             /\ IF a = "none" THEN Miss(t) ELSE Takes(t, a)
    /\ UNCHANGED <<chain, cacheState, yanxi, free>>

-----------------------------------------------------------------------------
(* AI: a bounded number of requests at a time *)

Acquire(t) ==
    /\ Asking(t, "ai") /\ free > 0
    /\ free' = free - 1
    /\ Goto(t, "post")
    /\ UNCHANGED <<chain, cacheState, askers, given, yanxi, like>>

\* Wrong on purpose: an answer of an error status returns without the permit.
PostKeeps(t) ==
    /\ at[t] = "post"
    /\ free' \in {free, free + 1}
    /\ Attempt(t)
    /\ UNCHANGED <<chain, cacheState, yanxi, like>>

\* The permit is given back after the request or by the finally.
Post(t) ==
    /\ at[t] = "post"
    /\ free' = free + 1
    /\ Attempt(t)
    /\ UNCHANGED <<chain, cacheState, yanxi, like>>

-----------------------------------------------------------------------------
\* The process ends and another one starts: a new task, the same file.
Restart ==
    /\ loaded
    /\ memory' = Empty /\ loaded' = FALSE /\ known' = {}
    /\ at' = [t \in Thread |-> "idle"]
    /\ given' = [t \in Thread |-> "none"]
    /\ index' = 0 /\ token' = 0 /\ over' = FALSE
    /\ count' = 0 /\ balance' \in [Key -> 0 .. MaxBalance]
    /\ free' = Permits
    /\ UNCHANGED <<chain, file, askers, spent>>

Step(t) ==
    \/ Load(t) \/ LookUp(t) \/ Store(t)
    \/ AskPlain(t) \/ AskYanxi(t) \/ Rotate(t) \/ LoadToken(t)
    \/ PickKey(t) \/ AskLike(t) \/ Acquire(t) \/ Post(t)

Next ==
    \/ \E t \in Thread : NextQuestion(t) \/ Step(t)
    \/ CachedElsewhere \/ Restart

Spec == Init /\ [][Next]_bankVars

-----------------------------------------------------------------------------
(* Properties *)

Busy == {t \in Thread : at[t] # "idle"}

TypeOK ==
    /\ {memory, file} \subseteq [Title -> {"none", "fits", "misfit"}]
    /\ {loaded, over} \subseteq BOOLEAN /\ known \subseteq Title
    /\ at \in [Thread -> {"idle", "load", "lookup", "ask", "store", "rotate",
                          "loadToken", "like", "post"}]
    /\ title \in [Thread -> Title] /\ key \in [Thread -> Key]
    /\ pos \in [Thread -> 1 .. Len(chain)]
    /\ tries \in [Thread -> 0 .. MaxTries - 1]
    /\ given \in [Thread -> {"none", "fits", "misfit"}]
    /\ index \in 0 .. NumTokens + 1 /\ token \in 0 .. NumTokens - 1
    /\ spent \subseteq 0 .. NumTokens - 1
    /\ balance \in [Key -> 1 - Cardinality(Thread) .. MaxBalance]
    /\ count \in 0 .. RefreshEvery - 1
    /\ free \in 0 .. Permits

\* No answer that does not fit is given or cached, where it would be given to
\* every later question of the title; and what was cached stays known to all
\* tasks of the process, whoever looks into the cache first and whether or not
\* the file could be written.
CacheIsTrusted ==
    /\ "misfit" \notin {memory[q] : q \in Title} \cup {file[q] : q \in Title}
                       \cup {given[t] : t \in Thread}
    /\ \A q \in known : memory[q] # "none"

\* Threads and failures lose no permit of the AI and no token of a sequential
\* chain: Yanxi gives its first token up only when it is used up (a later one
\* may go with a single miss, _times being its predecessor's), and Like never
\* spends more than it was told it has.
MeansAreKept ==
    /\ free = Permits - Cardinality({t \in Thread : at[t] = "post"})
    /\ ~Concurrent =>
        /\ Cardinality(Busy) <= 1
        /\ token > 0 => 0 \in spent
        /\ \A k \in Key : balance[k] >= 0

BankSound == TypeOK /\ CacheIsTrusted /\ MeansAreKept
=============================================================================
