------------------------------- MODULE Window -------------------------------
(***************************************************************************)
(* The sliding window of main.RateLimiter and of                           *)
(* auth_rate_limit.AuthRateLimiter: the admitted attempts of one key, each *)
(* the request that made it and the time.  (The code keeps the times only, *)
(* in a list whose order it never uses.)  Both methods are is_allowed,     *)
(* without an await.                                                       *)
(***************************************************************************)
EXTENDS Naturals, FiniteSets

\* fault: the window is one instant too short
RecentShort(attempts, window, t) == {a \in attempts : a.at + window > t + 1}

\* [t for t in times if t > cutoff]
Recent(attempts, window, t) == {a \in attempts : a.at + window > t}

\* max_requests <= 0 disables the limiter
Allowed(attempts, max, window, t) == max = 0 \/ Cardinality(Recent(attempts, window, t)) < max

\* The attempts kept after the attempt a: a refused one is not counted.
Counted(attempts, max, window, a) ==
    LET recent == Recent(attempts, window, a.at)
    IN  CASE max = 0 -> attempts
          [] max # 0 /\ Allowed(attempts, max, window, a.at) -> recent \cup {a}
          [] OTHER -> recent
=============================================================================
