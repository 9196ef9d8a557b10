--------------------------- MODULE CircuitBreaker ---------------------------
(***************************************************************************)
(* The circuit breaker of core/src/error/retry.rs, shared by callers that  *)
(* hold its lock only inside can_execute, record_success and               *)
(* record_failure: results arrive while the breaker has moved on since the *)
(* call was let through.                                                   *)
(*                                                                         *)
(* Time is one bit: whether the timeout has elapsed since the last failure *)
(* that was recorded.                                                      *)
(***************************************************************************)
EXTENDS Integers, FiniteSets

CONSTANTS
    Caller,            \* tasks that share the breaker
    FailureThreshold,  \* failure_threshold
    MaxFailures        \* bound on failure_count, a u32 that only grows while open

ASSUME BreakerAssumption ==
    /\ FailureThreshold \in Nat \ {0}
    /\ MaxFailures \in Nat /\ FailureThreshold < MaxFailures

CircuitState == {"Closed", "Open", "HalfOpen"}

VARIABLES
    state,
    failure_count,
    elapsed,      \* last_failure_time.elapsed() >= timeout
    executing     \* callers whose operation was let through and is not recorded

breakerVars == <<state, failure_count, elapsed, executing>>

BreakerTypeOK ==
    /\ state \in CircuitState
    /\ failure_count \in Nat
    /\ elapsed \in BOOLEAN
    /\ executing \subseteq Caller

\* last_failure_time is None at first; it is Some in every open breaker.
BreakerInit ==
    /\ state = "Closed" /\ failure_count = 0
    /\ elapsed = FALSE /\ executing = {}

Allows == state # "Open" \/ elapsed

\* can_execute, when it returns true.
CanExecute(c) ==
    /\ c \notin executing
    /\ Allows
    /\ state' = IF state = "Open" THEN "HalfOpen" ELSE state
    /\ executing' = executing \cup {c}
    /\ UNCHANGED <<failure_count, elapsed>>

\* A success that comes back while the breaker is open changes nothing.
RecordSuccess(c) ==
    /\ c \in executing
    /\ state' = IF state = "HalfOpen" THEN "Closed" ELSE state
    /\ failure_count' = IF state = "Open" THEN failure_count ELSE 0
    /\ executing' = executing \ {c}
    /\ UNCHANGED elapsed

\* Mutation: the breaker opens one failure late.
RecordFailureLate(c) ==
    /\ c \in executing
    /\ failure_count < MaxFailures
    /\ failure_count' = failure_count + 1
    /\ state' = IF failure_count >= FailureThreshold THEN "Open" ELSE state
    /\ elapsed' = FALSE
    /\ executing' = executing \ {c}

RecordFailure(c) ==
    /\ c \in executing
    /\ failure_count < MaxFailures
    /\ failure_count' = failure_count + 1
    /\ state' = IF failure_count + 1 >= FailureThreshold THEN "Open" ELSE state
    /\ elapsed' = FALSE
    /\ executing' = executing \ {c}

TimeoutElapses ==
    /\ state = "Open" /\ ~elapsed
    /\ elapsed' = TRUE
    /\ UNCHANGED <<state, failure_count, executing>>

BreakerNext ==
    \/ \E c \in Caller : CanExecute(c) \/ RecordSuccess(c) \/ RecordFailure(c)
    \/ TimeoutElapses

\* Time passes; no caller has to call or to come back.
BreakerFairness == WF_breakerVars(TimeoutElapses)

BreakerSpec == BreakerInit /\ [][BreakerNext]_breakerVars /\ BreakerFairness

-----------------------------------------------------------------------------
(* Properties.                                                             *)

\* The count and the state agree, whatever results arrive late: the breaker is
\* closed exactly while the count is below the threshold.  So one failed probe
\* of a half-open breaker reopens it.
CountMatchesState == state = "Closed" <=> failure_count < FailureThreshold

\* The breaker only closes by a success recorded while it is half open, and it
\* is never half open without having been open.
ClosesOnlyHalfOpen ==
    [][/\ state' = "Closed" => state \in {"Closed", "HalfOpen"}
       /\ state' = "HalfOpen" /\ state # "HalfOpen" => state = "Open" /\ elapsed]_breakerVars
=============================================================================
