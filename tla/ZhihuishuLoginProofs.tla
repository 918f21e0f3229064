------------------------- MODULE ZhihuishuLoginProofs -------------------------
(***************************************************************************)
(* What ZhihuishuLogin guarantees for any numbers of QR and password       *)
(* logins and codes: api/v1/course.py and services/course/zhihuishu/auth.py. *)
(***************************************************************************)
EXTENDS ZhihuishuLogin, TLAPS

WorkerPC == {"none", "fetch", "poll", "login", "install", "raise", "ended"}
RequestPC == {"none", "waiting", "ready", "late", "trying", "answered", "refused"}
LoopPC == {"free", "inspect", "remove", "cleaned", "password", "logout"}

\* The types of the variables, one by one.
Typed ==
    /\ sessions \subseteq Session /\ aged \subseteq Session
    /\ cancelled \subseteq Session /\ outdated \subseteq Session
    /\ codes \in [Session -> 0 .. MaxCodes]
    /\ wpc \in [Session -> WorkerPC] /\ rpc \in [Adapter -> RequestPC]
    /\ adapter \in Adapter \cup {None}
    /\ stale \in BOOLEAN /\ busy \in BOOLEAN /\ leaving \in BOOLEAN
    /\ loop \in LoopPC /\ seen \in Adapter \cup {None} /\ opening \in Adapter \cup {None}

\* Whoever the registry or the history knows began its login.
KnownBegan == sessions \cup outdated \subseteq Begun

\* A login that was replaced is out of the registry.
Replaced == sessions \cap outdated = {}

\* A login whose request has not come has no worker; the worker of one that has
\* fetches a code only while there is one left.
CodesLeft ==
    \A s \in Session :
        /\ rpc[s] = "none" => wpc[s] = "none" /\ codes[s] = 0
        /\ wpc[s] = "fetch" => codes[s] < MaxCodes

\* The handler that the loop is in: none, one of a QR login that cleans up
\* before it begins, or one of a password login that succeeded.
InHandler ==
    /\ loop \in {"free", "logout"} => opening = None
    /\ loop \in {"inspect", "remove", "cleaned"} /\ opening # None =>
         opening \in Session /\ rpc[opening] = "none"
    /\ loop = "cleaned" => opening # None
    /\ loop = "password" => opening \in Password

\* The adapter that a clean-up is about to remove got no task since it was looked at.
StillIdle == loop = "remove" /\ adapter = seen => ~busy

\* The inductive invariant.
LoginInv == Typed /\ KnownBegan /\ Replaced /\ CodesLeft /\ InHandler /\ StillIdle

LEMMA Starts == Init => LoginInv
<1> SUFFICES ASSUME Init PROVE LoginInv
  OBVIOUS
<1>1. Typed
  <2>1. codes \in [Session -> 0 .. MaxCodes]
    BY CodesAssumption DEF Init
  <2> QED
    BY <2>1 DEF Typed, Init, WorkerPC, RequestPC, LoopPC
<1>2. KnownBegan /\ Replaced /\ InHandler /\ StillIdle
  BY DEF Init, KnownBegan, Replaced, InHandler, StillIdle
<1>3. CodesLeft
  BY CodesAssumption DEF Init, CodesLeft
<1> QED
  BY <1>1, <1>2, <1>3 DEF LoginInv

\* A step of the worker of a QR login.
LEMMA WorkerKeeps ==
  ASSUME LoginInv, NEW s \in Session, WorkerStep(s) \/ CodeAnswered(s)
  PROVE  LoginInv'
<1> USE NoneAssumption, LoginAssumption, CodesAssumption
<1>0. s \in Adapter /\ MaxCodes \in Nat
  BY DEF Adapter
<1>1. CASE FetchCode(s)
  <2>1. Typed' /\ CodesLeft'
    <3>1. codes[s] \in 0 .. MaxCodes /\ codes[s] < MaxCodes
      BY <1>1 DEF Typed, LoginInv, CodesLeft, FetchCode
    <3>2. codes' = codes \/ codes' = [codes EXCEPT ![s] = codes[s] + 1]
      BY <1>1 DEF FetchCode
    <3>3. rpc' = rpc \/ (rpc[s] = "waiting" /\ rpc' = [rpc EXCEPT ![s] = "ready"])
      BY <1>1 DEF FetchCode
    <3>4. wpc[s] = "fetch" /\ (wpc' = [wpc EXCEPT ![s] = "poll"] \/ wpc' = [wpc EXCEPT ![s] = "raise"])
      BY <1>1 DEF FetchCode, Go
    <3>5. /\ sessions' = sessions /\ cancelled' = cancelled /\ (aged' = aged \/ aged' = aged \ {s})
          /\ UNCHANGED <<entry, eloop, leaving, outdated>>
      BY <1>1 DEF FetchCode, Touch, registry
    <3>6. codes' \in [Session -> 0 .. MaxCodes]
      BY <1>0, <3>1, <3>2 DEF Typed, LoginInv
    <3>7. Typed'
      BY <1>0, <3>3, <3>4, <3>5, <3>6 DEF Typed, LoginInv, WorkerPC, RequestPC, entry, eloop
    <3>8. \A x \in Session \ {s} : codes'[x] = codes[x] /\ wpc'[x] = wpc[x] /\ rpc'[x] = rpc[x]
      BY <3>2, <3>3, <3>4 DEF Typed, LoginInv, Adapter
    <3>9. rpc'[s] # "none" /\ wpc'[s] # "fetch"
      <4>1. rpc[s] # "none"
        BY <3>4 DEF LoginInv, CodesLeft
      <4> QED
        BY <1>0, <3>3, <3>4, <4>1 DEF Typed, LoginInv
    <3> QED
      BY <3>7, <3>8, <3>9 DEF LoginInv, CodesLeft
  <2>2. KnownBegan' /\ Replaced' /\ InHandler' /\ StillIdle'
    BY <1>1
    DEF Typed, LoginInv, FetchCode, Touch, registry, entry, eloop, KnownBegan, Begun, Replaced,
      InHandler, StillIdle, Adapter
  <2> QED
    BY <2>1, <2>2 DEF LoginInv
<1>2. CASE CodeAnswered(s) \/ SeeCancel(s) \/ LogIn(s)
  <2>1. /\ wpc[s] \in {"poll", "login"}
        /\ \E p \in {"login", "raise", "fetch", "install"} : Go(s, p) /\ (p = "fetch" => ~LastCode(s))
        /\ UNCHANGED <<registry, codes, rpc, entry, eloop, leaving, outdated>>
    BY <1>2 DEF CodeAnswered, SeeCancel, LogIn
  <2>2. PICK p \in {"login", "raise", "fetch", "install"} :
          wpc' = [wpc EXCEPT ![s] = p] /\ (p = "fetch" => ~LastCode(s))
    BY <2>1 DEF Go
  <2>3. Typed'
    BY <2>1, <2>2 DEF Typed, LoginInv, WorkerPC, registry, entry, eloop
  <2>4. CodesLeft'
    <3>1. rpc[s] # "none" /\ codes[s] \in Nat
      BY <2>1 DEF Typed, LoginInv, CodesLeft
    <3>2. p = "fetch" => codes[s] < MaxCodes
      BY <1>0, <2>2, <3>1 DEF LastCode
    <3> QED
      BY <2>1, <2>2, <3>1, <3>2 DEF Typed, LoginInv, CodesLeft
  <2>5. KnownBegan' /\ Replaced' /\ InHandler' /\ StillIdle'
    BY <2>1
    DEF LoginInv, registry, entry, eloop, KnownBegan, Begun, Replaced, InHandler, StillIdle
  <2> QED
    BY <2>3, <2>4, <2>5 DEF LoginInv
<1>3. CASE Install(s) \/ Fail(s)
  <2>1. /\ wpc[s] \in {"install", "raise"} /\ wpc' = [wpc EXCEPT ![s] = "ended"]
        /\ \/ UNCHANGED <<adapter, stale, busy>>
           \/ adapter' = s /\ stale' = FALSE /\ busy' = FALSE
        /\ sessions' = sessions /\ cancelled' = cancelled /\ (aged' = aged \/ aged' = aged \ {s})
        /\ UNCHANGED <<codes, rpc, loop, seen, opening, leaving, outdated>>
    BY <1>3 DEF Install, Fail, Go, Register, Touch, registry, entry, eloop
  <2>2. Typed'
    BY <1>0, <2>1 DEF Typed, LoginInv, WorkerPC
  <2>3. CodesLeft'
    BY <2>1 DEF Typed, LoginInv, CodesLeft
  <2>4. KnownBegan' /\ Replaced' /\ InHandler' /\ StillIdle'
    BY <2>1 DEF LoginInv, KnownBegan, Begun, Replaced, InHandler, StillIdle
  <2> QED
    BY <2>2, <2>3, <2>4 DEF LoginInv
<1> QED
  BY <1>1, <1>2, <1>3 DEF WorkerStep

\* A step of the clean-up.
LEMMA CleanUpKeeps ==
  ASSUME LoginInv, (\E s \in Session \cup {None} : CleanUp(s)) \/ Inspect \/ Remove
  PROVE  LoginInv'
<1> USE NoneAssumption, LoginAssumption
<1>1. ASSUME NEW s \in Session \cup {None}, CleanUp(s) PROVE LoginInv'
  <2>1. /\ loop = "free" /\ (s # None => rpc[s] = "none") /\ opening' = s
        /\ sessions' = sessions \ aged /\ aged' = {} /\ cancelled' = cancelled \cup (aged \cap sessions)
        /\ \/ loop' = "inspect" /\ seen' = adapter
           \/ loop' = (IF s = None THEN "free" ELSE "cleaned") /\ seen' = seen
        /\ UNCHANGED <<codes, wpc, rpc, adapter, stale, busy, leaving, outdated>>
    BY <1>1 DEF CleanUp, Cancel, Expired, After, worker, entry
  <2>2. Typed'
    BY <2>1 DEF Typed, LoginInv, LoopPC, Adapter
  <2>3. CodesLeft'
    BY <2>1 DEF LoginInv, CodesLeft
  <2>4. KnownBegan' /\ Replaced' /\ StillIdle'
    BY <2>1 DEF LoginInv, KnownBegan, Begun, Replaced, StillIdle
  <2>5. InHandler'
    BY <2>1 DEF LoginInv, InHandler
  <2> QED
    BY <2>2, <2>3, <2>4, <2>5 DEF LoginInv
<1>2. CASE Inspect \/ Remove
  <2>1. /\ loop \in {"inspect", "remove"}
        /\ \/ /\ loop = "inspect" /\ ~(busy /\ adapter = seen)
              /\ loop' = "remove" /\ seen' = seen /\ adapter' = adapter
           \/ /\ loop' = (IF opening = None THEN "free" ELSE "cleaned") /\ seen' = None
              /\ adapter' \in {adapter, None}
        /\ UNCHANGED <<sessions, aged, cancelled, codes, wpc, rpc, stale, busy, opening,
                        leaving, outdated>>
    BY <1>2 DEF Inspect, Remove, After, registry, worker, entry
  <2>2. Typed'
    BY <2>1 DEF Typed, LoginInv, LoopPC
  <2>3. CodesLeft'
    BY <2>1 DEF LoginInv, CodesLeft
  <2>4. KnownBegan' /\ Replaced' /\ StillIdle'
    BY <2>1 DEF Typed, LoginInv, KnownBegan, Begun, Replaced, StillIdle
  <2>5. InHandler'
    BY <2>1 DEF LoginInv, InHandler
  <2> QED
    BY <2>2, <2>3, <2>4, <2>5 DEF LoginInv
<1> QED
  BY <1>1, <1>2

\* A step of a QR login's handler.
LEMMA SessionKeeps ==
  ASSUME LoginInv, OpenSession \/ \E s \in Session : CodeLate(s) \/ AnswerSession(s)
  PROVE  LoginInv'
<1> USE NoneAssumption, LoginAssumption, CodesAssumption
<1>1. CASE OpenSession
  <2>0. opening \in Session /\ rpc[opening] = "none" /\ opening \in Adapter /\ opening \notin Begun
    BY <1>1 DEF OpenSession, LoginInv, InHandler, Adapter, Begun
  <2>1. /\ loop = "cleaned" /\ loop' = "free" /\ opening' = None /\ outdated' = outdated \cup Begun
        /\ cancelled' = cancelled \cup sessions /\ aged' = {}
        /\ \/ sessions' = {opening} /\ wpc' = [wpc EXCEPT ![opening] = "fetch"]
              /\ rpc' = [rpc EXCEPT ![opening] = "waiting"]
           \/ sessions' = {} /\ wpc' = wpc /\ rpc' = [rpc EXCEPT ![opening] = "refused"]
        /\ UNCHANGED <<codes, adapter, stale, busy, seen, leaving>>
    BY <1>1 DEF OpenSession, Go, entry
  <2>2. Typed'
    <3>1. outdated' \subseteq Session
      BY <2>1 DEF Typed, LoginInv, Begun
    <3> QED
      BY <2>0, <2>1, <3>1 DEF Typed, LoginInv, LoopPC, WorkerPC, RequestPC
  <2>3. CodesLeft'
    <3>1. codes[opening] = 0 /\ 0 < MaxCodes
      BY <2>0 DEF LoginInv, CodesLeft
    <3>2. \A x \in Session \ {opening} : rpc'[x] = rpc[x] /\ wpc'[x] = wpc[x]
      BY <2>1 DEF Typed, LoginInv, Adapter
    <3>3. rpc'[opening] # "none"
      BY <2>0, <2>1 DEF Typed, LoginInv
    <3> QED
      BY <2>1, <3>1, <3>2, <3>3 DEF LoginInv, CodesLeft
  <2>4. KnownBegan' /\ Replaced'
    <3>1. Begun' = Begun \cup {opening}
      BY <2>0, <2>1 DEF Typed, LoginInv, Begun, Adapter
    <3> QED
      BY <2>0, <2>1, <3>1 DEF LoginInv, KnownBegan, Replaced
  <2>5. InHandler' /\ StillIdle'
    BY <2>1 DEF InHandler, StillIdle
  <2> QED
    BY <2>2, <2>3, <2>4, <2>5 DEF LoginInv
<1>2. ASSUME NEW s \in Session, CodeLate(s) \/ AnswerSession(s) PROVE LoginInv'
  <2>1. /\ s \in Adapter /\ rpc[s] # "none"
        /\ \E p \in RequestPC \ {"none"} : rpc' = [rpc EXCEPT ![s] = p]
        /\ \/ UNCHANGED <<sessions, aged, cancelled>>
           \/ /\ sessions' = sessions \ {s} /\ aged' = aged \ {s}
              /\ cancelled' = cancelled \cup ({s} \cap sessions)
        /\ UNCHANGED <<codes, wpc, adapter, stale, busy, loop, seen, opening, leaving, outdated>>
    BY <1>2
    DEF CodeLate, AnswerSession, Cancel, RequestPC, registry, worker, entry, eloop, Adapter
  <2>2. Typed'
    BY <2>1 DEF Typed, LoginInv
  <2>3. /\ rpc'[s] # "none" /\ Begun' = Begun
        /\ \A x \in Adapter \ {s} : rpc'[x] = rpc[x]
    BY <2>1 DEF Typed, LoginInv, Begun, Adapter
  <2>4. CodesLeft'
    BY <2>1, <2>3 DEF LoginInv, CodesLeft, Adapter
  <2>5. KnownBegan' /\ Replaced' /\ StillIdle'
    BY <2>1, <2>3 DEF LoginInv, KnownBegan, Replaced, StillIdle
  <2>6. InHandler'
    BY <2>1, <2>3 DEF LoginInv, InHandler, Adapter
  <2> QED
    BY <2>2, <2>4, <2>5, <2>6 DEF LoginInv
<1> QED
  BY <1>1, <1>2

\* A step of a password login.
LEMMA PasswordKeeps ==
  ASSUME LoginInv, InstallPassword \/ \E p \in Password : LogInByPassword(p) \/ AnswerPassword(p)
  PROVE  LoginInv'
<1> USE NoneAssumption, LoginAssumption
<1>1. CASE InstallPassword
  <2>1. /\ loop = "password" /\ loop' = "free" /\ opening' = None
        /\ adapter' = opening /\ stale' = FALSE /\ busy' = FALSE
        /\ UNCHANGED <<sessions, aged, cancelled, codes, wpc, rpc, seen, leaving, outdated>>
    BY <1>1 DEF InstallPassword, Register, registry, worker
  <2>2. Typed'
    BY <2>1 DEF Typed, LoginInv, LoopPC
  <2>3. CodesLeft' /\ KnownBegan' /\ Replaced' /\ InHandler' /\ StillIdle'
    BY <2>1 DEF LoginInv, CodesLeft, KnownBegan, Begun, Replaced, InHandler, StillIdle
  <2> QED
    BY <2>2, <2>3 DEF LoginInv
<1>2. ASSUME NEW p \in Password, LogInByPassword(p) \/ AnswerPassword(p) PROVE LoginInv'
  <2>1. /\ p \in Adapter /\ p \notin Session /\ loop = "free"
        /\ \E q \in RequestPC : rpc' = [rpc EXCEPT ![p] = q]
        /\ \/ UNCHANGED <<sessions, aged, cancelled, loop, opening, outdated>>
           \/ /\ loop' = "password" /\ opening' = p
              /\ sessions' = sessions \ sessions /\ aged' = aged \ sessions
              /\ cancelled' = cancelled \cup (sessions \cap sessions)
              /\ outdated' = outdated \cup Begun
        /\ UNCHANGED <<codes, wpc, adapter, stale, busy, seen, leaving>>
    BY <1>2
    DEF LogInByPassword, AnswerPassword, Cancel, RequestPC, registry, worker, entry, eloop,
        Adapter
  <2>2. Begun \subseteq Session /\ Begun' = Begun /\ \A s \in Session : rpc'[s] = rpc[s]
    BY <2>1 DEF Typed, LoginInv, Begun, Adapter
  <2>3. Typed'
    BY <2>1, <2>2 DEF Typed, LoginInv, LoopPC
  <2>4. CodesLeft'
    BY <2>1, <2>2 DEF LoginInv, CodesLeft
  <2>5. KnownBegan' /\ Replaced' /\ StillIdle'
    BY <2>1, <2>2 DEF LoginInv, KnownBegan, Replaced, StillIdle
  <2>6. InHandler'
    BY <2>1 DEF LoginInv, InHandler
  <2> QED
    BY <2>3, <2>4, <2>5, <2>6 DEF LoginInv
<1> QED
  BY <1>1, <1>2

\* A step of a logout, of a request that uses the adapter, or of time.
LEMMA OthersKeep ==
  ASSUME LoginInv,
         LogOut \/ LogOutEntry \/ LogOutSessions \/ Use \/ EndTask \/ AgeAdapter
           \/ \E s \in Session : AgeSession(s)
  PROVE  LoginInv'
<1> USE NoneAssumption
<1>1. CASE LogOutSessions
  <2>1. /\ loop = "logout" /\ loop' = "free"
        /\ sessions' = sessions \ sessions /\ aged' = aged \ sessions
        /\ cancelled' = cancelled \cup (sessions \cap sessions)
        /\ outdated' = outdated \cup Begun
        /\ UNCHANGED <<codes, wpc, rpc, adapter, stale, busy, seen, opening, leaving>>
    BY <1>1 DEF LogOutSessions, Cancel, worker, entry
  <2>2. Typed'
    BY <2>1 DEF Typed, LoginInv, LoopPC, Begun
  <2>3. CodesLeft' /\ KnownBegan' /\ Replaced' /\ InHandler' /\ StillIdle'
    BY <2>1 DEF LoginInv, CodesLeft, KnownBegan, Begun, Replaced, InHandler, StillIdle
  <2> QED
    BY <2>2, <2>3 DEF LoginInv
<1>2. CASE LogOut \/ LogOutEntry \/ Use \/ EndTask \/ AgeAdapter
          \/ \E s \in Session : AgeSession(s)
  <2>1. /\ \/ loop' = loop
           \/ loop = "free" /\ loop' = "logout"
        /\ adapter' \in {adapter, None} /\ stale' \in BOOLEAN /\ leaving' \in BOOLEAN
        /\ loop = "free" \/ (adapter' = adapter /\ busy' \in {busy, FALSE})
        /\ busy' \in BOOLEAN
        /\ aged' = aged \/ \E s \in Session : aged' = aged \cup {s}
        /\ UNCHANGED <<sessions, cancelled, codes, wpc, rpc, seen, opening, outdated>>
    BY <1>2
    DEF Typed, LoginInv, LogOut, LogOutEntry, Use, EndTask, AgeAdapter, AgeSession, registry,
        worker,
      entry, eloop
  <2>2. Typed'
    BY <2>1 DEF Typed, LoginInv, LoopPC
  <2>3. CodesLeft' /\ KnownBegan' /\ Replaced'
    BY <2>1 DEF LoginInv, CodesLeft, KnownBegan, Begun, Replaced
  <2>4. InHandler'
    BY <2>1 DEF LoginInv, InHandler
  <2>5. StillIdle'
    <3> SUFFICES ASSUME loop' = "remove", adapter' = seen' PROVE ~busy'
      BY DEF StillIdle
    <3>1. loop = "remove" /\ adapter = seen /\ (busy' = busy \/ busy' = FALSE)
      BY <2>1
    <3> QED
      BY <3>1 DEF LoginInv, StillIdle
  <2> QED
    BY <2>2, <2>3, <2>4, <2>5 DEF LoginInv
<1> QED
  BY <1>1, <1>2

LEMMA StepKeeps == LoginInv /\ [Next]_vars => LoginInv'
<1> SUFFICES ASSUME LoginInv, [Next]_vars PROVE LoginInv'
  OBVIOUS
<1>1. CASE UNCHANGED vars
  BY <1>1
  DEF LoginInv, Typed, vars, registry, worker, entry, eloop, KnownBegan, Begun, Replaced,
      CodesLeft,
    InHandler, StillIdle
<1>2. CASE Next
  BY <1>2, WorkerKeeps, CleanUpKeeps, SessionKeeps, PasswordKeeps, OthersKeep DEF Next, LoopStep
<1> QED
  BY <1>1, <1>2

\* LoginInv holds in every run of the logins of course.py.
THEOREM LoginInvariance == Spec => []LoginInv
  BY Starts, StepKeeps, PTL DEF Spec

\* The variables keep their types: no login shows more codes than qr_login allows.
THEOREM LoginTypes == Spec => []TypeOK
<1>1. LoginInv => TypeOK
  BY DEF LoginInv, Typed, TypeOK, WorkerPC, RequestPC, LoopPC
<1> QED
  BY <1>1, LoginInvariance, PTL

\* What may change the adapter of the user.
LEMMA AdapterMoves ==
  ASSUME LoginInv, [Next]_vars, adapter' # adapter
  PROVE  \/ \E s \in sessions : adapter' = s
         \/ adapter' \in Password
         \/ adapter' = None /\ stale /\ ~busy
         \/ adapter' = None /\ loop' = "logout"
<1>1. ASSUME NEW s \in Session, WorkerStep(s)
      PROVE  \E x \in sessions : adapter' = x
  BY <1>1 DEF WorkerStep, FetchCode, SeeCancel, LogIn, Install, Fail, Register, entry
<1>2. CASE Remove
  BY <1>2 DEF Remove, LoginInv, StillIdle
<1>3. CASE InstallPassword
  BY <1>3 DEF InstallPassword, Register, LoginInv, InHandler
<1>4. CASE LogOutEntry
  BY <1>4 DEF LogOutEntry
<1>5. ~ (Inspect \/ OpenSession \/ LogOutSessions \/ LogOut \/ Use \/ EndTask \/ AgeAdapter \/ UNCHANGED vars)
  BY DEF Inspect, OpenSession, LogOutSessions, LogOut, Use, EndTask, AgeAdapter, entry, vars
<1>6. \A s \in Session \cup {None} : ~ CleanUp(s)
  BY DEF CleanUp, entry
<1>7. \A s \in Session : ~ (CodeAnswered(s) \/ CodeLate(s) \/ AnswerSession(s) \/ AgeSession(s))
  BY DEF CodeAnswered, CodeLate, AnswerSession, AgeSession, entry
<1>8. \A p \in Password : ~ (LogInByPassword(p) \/ AnswerPassword(p))
  BY DEF LogInByPassword, AnswerPassword, entry
<1> QED
  BY <1>1, <1>2, <1>3, <1>4, <1>5, <1>6, <1>7, <1>8 DEF Next, LoopStep

\* However requests, workers and clean-ups interleave, a QR login that a later
\* login or a logout replaced never takes the user's adapter over (course.py).
THEOREM NoLateLogin == Spec => NewestLoginWins
<1>1. LoginInv /\ [Next]_vars => [\A s \in outdated : adapter' = s => adapter = s]_vars
  <2> SUFFICES ASSUME LoginInv, [Next]_vars, NEW s \in outdated, adapter' = s, adapter # s
               PROVE  FALSE
    OBVIOUS
  <2>1. s \in Session /\ s \notin sessions /\ s \notin Password /\ s # None
    BY LoginAssumption, NoneAssumption DEF Typed, LoginInv, Replaced
  <2> QED
    BY <2>1, AdapterMoves
<1> QED
  BY <1>1, LoginInvariance, PTL DEF Spec, NewestLoginWins

\* A clean-up takes away no adapter that was used since it expired, was registered
\* meanwhile or has a task under way (cleanup_expired_entries).
THEOREM LoginsAreKept == Spec => LoginKept
<1>1. LoginInv /\ [Next]_vars =>
        [adapter # None /\ adapter' = None => (stale /\ ~busy) \/ loop' = "logout"]_vars
  <2> SUFFICES ASSUME LoginInv, [Next]_vars, adapter # None, adapter' = None
               PROVE  (stale /\ ~busy) \/ loop' = "logout"
    OBVIOUS
  <2>1. None \notin sessions /\ None \notin Password
    BY NoneAssumption DEF Typed, LoginInv
  <2> QED
    BY <2>1, AdapterMoves
<1> QED
  BY <1>1, LoginInvariance, PTL DEF Spec, LoginKept
=============================================================================
