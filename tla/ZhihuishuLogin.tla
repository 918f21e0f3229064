---------------------------- MODULE ZhihuishuLogin ----------------------------
(***************************************************************************)
(* The Zhihuishu logins of one user: the QR sessions and the adapter that  *)
(* backend/app/api/v1/course.py keeps in _qr_sessions and _user_adapters.  *)
(*                                                                         *)
(* The handlers and the periodic clean-up run on one event loop.  From one *)
(* await to the next no other handler runs, but threads do: the workers of *)
(* QR logins, password logins and the tasks of an adapter.  They meet the  *)
(* loop at _qr_sessions_lock.                                              *)
(*                                                                         *)
(* Entries of different users do not meet.  Whether an entry has expired   *)
(* is a flag that the passing of time sets and an access clears.           *)
(***************************************************************************)
EXTENDS Integers

CONSTANTS
    Session,    \* QR logins, each with its worker thread and adapter
    Password,   \* password logins, each with its adapter
    MaxCodes,   \* QR codes a login may show: _retries of qr_login
    None        \* no adapter, no session

ASSUME NoneAssumption  == None \notin Session \cup Password
ASSUME LoginAssumption == Session \cap Password = {}
ASSUME CodesAssumption == MaxCodes \in Nat \ {0}

Adapter == Session \cup Password

VARIABLES
    sessions,   \* the keys of _qr_sessions
    aged,       \* sessions not updated for _QR_SESSION_TTL_SECONDS
    cancelled,  \* sessions whose cancel_event is set
    codes,      \* QR codes a session has shown
    wpc,        \* where each worker is
    rpc,        \* where the request of each login is
    adapter,    \* _user_adapters: the login whose adapter is there, or None
    stale,      \* that adapter was not used for _USER_ADAPTER_TTL_SECONDS
    busy,       \* that adapter has a task that is not in a terminal status
    loop,       \* where the event loop is in a handler, or "free"
    seen,       \* the adapter a clean-up looks at
    opening,    \* the login whose handler the loop is in, or None
    leaving,    \* a logout request waits for the adapter's own logout
    outdated    \* history: QR logins that a later login or a logout replaced

registry == <<sessions, aged, cancelled>>
worker   == <<codes, wpc>>
entry    == <<adapter, stale, busy>>
eloop    == <<loop, seen, opening>>
vars     == <<registry, worker, rpc, entry, eloop, leaving, outdated>>

Init ==
    /\ sessions = {} /\ aged = {} /\ cancelled = {}
    /\ codes = [s \in Session |-> 0]
    /\ wpc = [s \in Session |-> "none"]
    /\ rpc = [a \in Adapter |-> "none"]
    /\ adapter = None /\ stale = FALSE /\ busy = FALSE
    /\ loop = "free" /\ seen = None /\ opening = None
    /\ leaving = FALSE
    /\ outdated = {}

-----------------------------------------------------------------------------
(* The registry *)

\* Wrong on purpose: the entries go, their workers are not told.
PopOnly(S) ==
    /\ sessions' = sessions \ S
    /\ aged' = aged \ S
    /\ UNCHANGED cancelled

\* _cancel_qr_sessions: take the entries out and set their cancel events.  The
\* loop lists them, pops them and sets the events one after the other; what a
\* worker does in between, it might as well have done before.
Cancel(S) ==
    /\ sessions' = sessions \ S
    /\ aged' = aged \ S
    /\ cancelled' = cancelled \cup (S \cap sessions)

\* A session's updated_at is set.
Touch(s) == aged' = aged \ {s} /\ UNCHANGED <<sessions, cancelled>>

\* The adapter of login a, which has no task yet, is registered.
Register(a) == adapter' = a /\ stale' = FALSE /\ busy' = FALSE

\* The QR logins begun so far.
Begun == {s \in Session : rpc[s] # "none"}

-----------------------------------------------------------------------------
(* The worker of a QR login: login_worker and ZhihuishuAuth.qr_login *)

Go(s, pc) == wpc' = [wpc EXCEPT ![s] = pc]

\* A code is fetched and handed to qr_callback, which drops it when the
\* session is gone and else ends the wait of the request; or the fetch fails,
\* or the login was cancelled before it.
FetchCode(s) ==
    /\ wpc[s] = "fetch"
    /\ \/ /\ s \notin cancelled
          /\ codes' = [codes EXCEPT ![s] = @ + 1]
          /\ Go(s, "poll")
          /\ rpc' = IF s \in sessions /\ rpc[s] = "waiting"
                    THEN [rpc EXCEPT ![s] = "ready"] ELSE rpc
          /\ Touch(s)
       \/ Go(s, "raise") /\ UNCHANGED <<codes, rpc, registry>>
    /\ UNCHANGED <<entry, eloop, leaving, outdated>>

LastCode(s) == codes[s] >= MaxCodes

\* An answer of the platform, also one that was asked for before a
\* cancellation: the code was scanned (by a user who got to see it), it has
\* expired, or the login is refused.  "Not yet" changes nothing.
CodeAnswered(s) ==
    /\ wpc[s] = "poll"
    /\ \/ s \notin cancelled /\ rpc[s] = "answered" /\ Go(s, "login")
       \/ Go(s, IF LastCode(s) THEN "raise" ELSE "fetch")
       \/ Go(s, "raise")
    /\ UNCHANGED <<registry, codes, rpc, entry, eloop, leaving, outdated>>

\* The wait between two questions ends with the cancel event.
SeeCancel(s) ==
    /\ wpc[s] = "poll" /\ s \in cancelled
    /\ Go(s, "raise")
    /\ UNCHANGED <<registry, codes, rpc, entry, eloop, leaving, outdated>>

\* The login page is fetched with the password of the scan.
LogIn(s) ==
    /\ wpc[s] = "login"
    /\ Go(s, "install") \/ Go(s, "raise")
    /\ UNCHANGED <<registry, codes, rpc, entry, eloop, leaving, outdated>>

\* Wrong on purpose: a login that succeeded is registered in any case.
InstallAnyway(s) ==
    /\ wpc[s] = "install"
    /\ Go(s, "ended")
    /\ Register(s) /\ Touch(s)
    /\ UNCHANGED <<codes, rpc, eloop, leaving, outdated>>

\* Register the adapter, unless the session is gone.
Install(s) ==
    /\ wpc[s] = "install"
    /\ Go(s, "ended")
    /\ IF s \in sessions THEN Register(s) /\ Touch(s)
                         ELSE UNCHANGED <<registry, entry>>
    /\ UNCHANGED <<codes, rpc, eloop, leaving, outdated>>

\* The except clause.
Fail(s) ==
    /\ wpc[s] = "raise"
    /\ Go(s, "ended")
    /\ Touch(s)
    /\ UNCHANGED <<codes, rpc, entry, eloop, leaving, outdated>>

-----------------------------------------------------------------------------
(* The clean-up: cleanup_expired_entries, called by its periodic loop, by   *)
(* the QR login and by its status request                                   *)

\* Wrong on purpose: a session whose worker is still at work is spared.
ExpiredIdle == {s \in aged : wpc[s] = "ended"}

Expired == aged

\* The clean-up is over: back to the loop, or to the QR login that called it.
After == IF opening = None THEN "free" ELSE "cleaned"

\* Take the expired sessions out and look for an expired adapter.
CleanUp(s) ==
    /\ loop = "free"
    /\ s # None => rpc[s] = "none"
    /\ opening' = s
    /\ Cancel(Expired)
    /\ IF adapter # None /\ stale
       THEN loop' = "inspect" /\ seen' = adapter
       ELSE loop' = After' /\ UNCHANGED seen
    /\ UNCHANGED <<worker, rpc, entry, leaving, outdated>>

\* Its task is looked at outside the registry's lock; an adapter with a task
\* under way is spared, and one that cannot be looked at.
Inspect ==
    /\ loop = "inspect"
    /\ \/ ~(busy /\ adapter = seen) /\ loop' = "remove" /\ UNCHANGED seen
       \/ loop' = After /\ seen' = None
    /\ UNCHANGED <<registry, worker, rpc, entry, opening, leaving, outdated>>

\* Wrong on purpose: the entry is not looked at again.
RemoveUnchecked ==
    /\ loop = "remove"
    /\ loop' = After /\ seen' = None
    /\ adapter' = None
    /\ UNCHANGED <<registry, worker, rpc, stale, busy, opening, leaving, outdated>>

\* The entry goes if it is the same one and still expired.
Remove ==
    /\ loop = "remove"
    /\ loop' = After /\ seen' = None
    /\ adapter' = IF adapter = seen /\ stale THEN None ELSE adapter
    /\ UNCHANGED <<registry, worker, rpc, stale, busy, opening, leaving, outdated>>

-----------------------------------------------------------------------------
(* The requests *)

\* start_zhihuishu_qr_login after its clean-up: cancel the user's sessions,
\* register the new one and start its worker, if the system lets it.
OpenSession ==
    /\ loop = "cleaned"
    /\ loop' = "free" /\ opening' = None
    /\ outdated' = outdated \cup Begun
    /\ cancelled' = cancelled \cup sessions /\ aged' = {}
    /\ \/ /\ sessions' = {opening}
          /\ Go(opening, "fetch")
          /\ rpc' = [rpc EXCEPT ![opening] = "waiting"]
       \/ /\ sessions' = {}
          /\ rpc' = [rpc EXCEPT ![opening] = "refused"]
          /\ UNCHANGED wpc
    /\ UNCHANGED <<codes, entry, seen, leaving>>

\* The wait for the first code, in a thread, times out.
CodeLate(s) ==
    /\ rpc[s] = "waiting"
    /\ rpc' = [rpc EXCEPT ![s] = "late"]
    /\ UNCHANGED <<registry, worker, entry, eloop, leaving, outdated>>

\* The handler goes on: it answers with the code unless the session is gone,
\* and gives a late session up, whatever became of it by now.
AnswerSession(s) ==
    /\ loop = "free"
    /\ \/ /\ rpc[s] = "ready"
          /\ rpc' = [rpc EXCEPT ![s] = IF s \in sessions THEN "answered" ELSE "refused"]
          /\ UNCHANGED registry
       \/ /\ rpc[s] = "late"
          /\ rpc' = [rpc EXCEPT ![s] = "refused"]
          /\ Cancel({s})
    /\ UNCHANGED <<worker, entry, eloop, leaving, outdated>>

\* zhihuishu_password_login: in a thread ...
LogInByPassword(p) ==
    /\ loop = "free"
    /\ rpc[p] = "none"
    /\ rpc' = [rpc EXCEPT ![p] = "trying"]
    /\ UNCHANGED <<registry, worker, entry, eloop, leaving, outdated>>

\* ... then the user's sessions are cancelled ...
AnswerPassword(p) ==
    /\ loop = "free"
    /\ rpc[p] = "trying"
    /\ \/ /\ loop' = "password" /\ opening' = p
          /\ rpc' = [rpc EXCEPT ![p] = "answered"]
          /\ Cancel(sessions)
          /\ outdated' = outdated \cup Begun
       \/ /\ rpc' = [rpc EXCEPT ![p] = "refused"]
          /\ UNCHANGED <<registry, loop, opening, outdated>>
    /\ UNCHANGED <<worker, entry, seen, leaving>>

\* ... and the adapter is registered, in another critical section.
InstallPassword ==
    /\ loop = "password"
    /\ loop' = "free" /\ opening' = None
    /\ Register(opening)
    /\ UNCHANGED <<registry, worker, rpc, seen, leaving, outdated>>

\* zhihuishu_logout: the adapter's own logout runs in a thread and ends its
\* task, or raises, which ends the request ...
LogOut ==
    /\ loop = "free" /\ adapter # None
    /\ ~leaving
    /\ stale' = FALSE
    /\ \/ leaving' = TRUE /\ busy' = FALSE
       \/ UNCHANGED <<leaving, busy>>
    /\ UNCHANGED <<registry, worker, rpc, adapter, eloop, outdated>>

\* ... then, at once if there is no adapter, the entry is removed ...
LogOutEntry ==
    /\ loop = "free"
    /\ leaving \/ adapter = None
    /\ loop' = "logout"
    /\ leaving' = FALSE
    /\ adapter' = None
    /\ UNCHANGED <<registry, worker, rpc, stale, busy, seen, opening, outdated>>

\* ... and the sessions are cancelled, in another critical section.
LogOutSessions ==
    /\ loop = "logout"
    /\ loop' = "free"
    /\ Cancel(sessions)
    /\ outdated' = outdated \cup Begun
    /\ UNCHANGED <<worker, rpc, entry, seen, opening, leaving>>

\* A request gets the adapter (_get_zhihuishu_adapter) and may start a task on
\* it, long before the access it recorded is an hour old.
Use ==
    /\ loop = "free" /\ adapter # None
    /\ stale' = FALSE
    /\ busy' \in {busy, TRUE}
    /\ UNCHANGED <<registry, worker, rpc, adapter, eloop, leaving, outdated>>

\* The task reaches a terminal status.
EndTask ==
    /\ busy
    /\ busy' = FALSE
    /\ UNCHANGED <<registry, worker, rpc, adapter, stale, eloop, leaving, outdated>>

\* Time passes: a session, or the adapter, reaches its time to live.
AgeSession(s) ==
    /\ s \in sessions \ aged
    /\ aged' = aged \cup {s}
    /\ UNCHANGED <<sessions, cancelled, worker, rpc, entry, eloop, leaving, outdated>>

AgeAdapter ==
    /\ adapter # None /\ ~stale
    /\ stale' = TRUE
    /\ UNCHANGED <<registry, worker, rpc, adapter, busy, eloop, leaving, outdated>>

-----------------------------------------------------------------------------
WorkerStep(s) == FetchCode(s) \/ SeeCancel(s) \/ LogIn(s) \/ Install(s) \/ Fail(s)

\* The event loop goes on with the handler it is in.
LoopStep == Inspect \/ Remove \/ OpenSession \/ InstallPassword \/ LogOutSessions

Next ==
    \/ \E s \in Session : WorkerStep(s) \/ CodeAnswered(s) \/ CodeLate(s)
                            \/ AnswerSession(s) \/ AgeSession(s)
    \/ \E s \in Session \cup {None} : CleanUp(s)
    \/ LoopStep
    \/ \E p \in Password : LogInByPassword(p) \/ AnswerPassword(p)
    \/ LogOut \/ LogOutEntry
    \/ Use \/ EndTask \/ AgeAdapter

Spec == Init /\ [][Next]_vars

\* Workers and the loop run, time passes, and the loop comes to its periodic
\* clean-up among the requests it serves.  A code may stay unscanned for ever.
FairSpec ==
    /\ Spec
    /\ WF_vars(LoopStep)
    /\ SF_vars(CleanUp(None))
    /\ \A s \in Session : WF_vars(WorkerStep(s)) /\ WF_vars(AgeSession(s))

-----------------------------------------------------------------------------
(* Properties *)

\* Every variable has its type; no login shows more codes than qr_login
\* allows.
TypeOK ==
    /\ {sessions, aged, cancelled, outdated} \subseteq SUBSET Session
    /\ codes \in [Session -> 0 .. MaxCodes]
    /\ wpc \in [Session -> {"none", "fetch", "poll", "login", "install", "raise", "ended"}]
    /\ rpc \in [Adapter -> {"none", "waiting", "ready", "late", "trying", "answered", "refused"}]
    /\ adapter \in Adapter \cup {None} /\ {stale, busy, leaving} \subseteq BOOLEAN
    /\ loop \in {"free", "inspect", "remove", "cleaned", "password", "logout"}
    /\ seen \in Adapter \cup {None} /\ opening \in Adapter \cup {None}

\* A QR login that a later login or a logout replaced never takes the user's
\* adapter over, even if its code is scanned after all.
NewestLoginWins ==
    [][\A s \in outdated : adapter' = s => adapter = s]_vars

\* A clean-up never takes away an adapter that was used since it expired, was
\* registered meanwhile, or has a task under way: only a logout does.
LoginKept ==
    [][adapter # None /\ adapter' = None => (stale /\ ~busy) \/ loop' = "logout"]_vars

\* A login that was given up, replaced or expired does not leave its worker
\* polling the platform for ever.
WithdrawnEnds ==
    \A s \in Session : s \notin sessions /\ wpc[s] # "none" ~> wpc[s] = "ended"

\* No session stays in the registry for ever, not even one nobody scans, asks
\* for or logs out of.
SessionsExpire == \A s \in Session : s \in sessions ~> s \notin sessions
=============================================================================
