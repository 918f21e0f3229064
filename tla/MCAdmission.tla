----------------------------- MODULE MCAdmission -----------------------------
(***************************************************************************)
(* What limits the requests of a user, on small instances: the rate        *)
(* limiter, which every request passes, and the admission of learning      *)
(* tasks.  A behaviour is one of either, chosen in the initial state,      *)
(* while the other one rests.                                              *)
(***************************************************************************)
EXTENDS MCLearningManager

CONSTANTS Client, Thread, Proxy, Limit, Window, MaxCache, Interval, MaxTime, MaxCalls

\* Requests run in finitely many threads, no client has the proxy's address, and
\* limits, windows and intervals are at least one.
ASSUME LimiterAssumption ==
    /\ IsFiniteSet(Thread) /\ Proxy \notin Client
    /\ {Limit, Window, Interval} \subseteq Nat \ {0}
    /\ {MaxCache, MaxTime, MaxCalls} \subseteq Nat

VARIABLES time, calls, rows, cache, request, entries, admitted
VARIABLE part

Limiter == INSTANCE ClientLimiter

limiterVars == <<time, calls, rows, cache, request, entries, admitted>>
admissionVars == <<vars, limiterVars, part>>

AdmissionInit ==
    /\ part \in {"tasks", "limiter"}
    /\ Init /\ Limiter!Init

AdmissionNext ==
    /\ part' = part
    /\ \/ part = "tasks" /\ UNCHANGED limiterVars /\ Next
       \/ part = "limiter" /\ UNCHANGED vars /\ Limiter!Next

AdmissionSpec == AdmissionInit /\ [][AdmissionNext]_admissionVars

\* A client is let through as often as the limits in the table and in memory
\* say, under no other name than its own, and the memory stays small
\* (rate_limiter.py).
LimiterSound == part = "limiter" => Limiter!LimiterSound
=============================================================================
