------------------------------- MODULE Retry -------------------------------
(***************************************************************************)
(* RetryPolicy and retry_async of core/src/error/retry.rs: a loop around   *)
(* an operation that fails or succeeds as its environment has it.  Delays  *)
(* are whole milliseconds; the multiplier is a whole number, so the        *)
(* floating-point product is exact.                                        *)
(***************************************************************************)
EXTENDS Naturals, Sequences

CONSTANTS
    MaxAttempts,        \* RetryPolicy
    InitialDelay,
    MaxDelay,
    BackoffMultiplier,
    Jitter

ASSUME RetryAssumption ==
    /\ MaxAttempts \in Nat /\ InitialDelay \in Nat /\ MaxDelay \in Nat
    /\ BackoffMultiplier \in Nat \ {0} /\ Jitter \in BOOLEAN

\* YuhaError::is_retriable tells the errors apart in this way only.
Outcome == {"ok", "retriable", "permanent"}

VARIABLES
    attempt,    \* the loop's counter
    phase,      \* "call", "sleep" or "returned"
    outcomes,   \* what the calls of the operation have given so far
    delays,     \* the delays slept so far
    result      \* what retry_async returned: an outcome, or "none"

retryVars == <<attempt, phase, outcomes, delays, result>>

RetryInit ==
    /\ attempt = 0 /\ phase = "call"
    /\ outcomes = <<>> /\ delays = <<>> /\ result = "none"

\* initial_delay * multiplier^(n - 1)
Backoff(n) == InitialDelay * BackoffMultiplier^(n - 1)

\* The delays that delay_for_attempt may return, for n > 0.
DelayForAttempt(n) ==
    LET delay == IF Backoff(n) < MaxDelay THEN Backoff(n) ELSE MaxDelay IN
    IF Jitter THEN delay..(delay + delay \div 10) ELSE {delay}

\* Mutation: the number of attempts is compared one too late.
ShouldRetryOnceMore(outcome) == attempt <= MaxAttempts /\ outcome = "retriable"

ShouldRetry(outcome) == attempt < MaxAttempts /\ outcome = "retriable"

CallOperation(outcome) ==
    /\ phase = "call"
    /\ outcomes' = Append(outcomes, outcome)
    /\ IF outcome # "ok" /\ ShouldRetry(outcome)
       THEN phase' = "sleep" /\ attempt' = attempt + 1 /\ UNCHANGED result
       ELSE phase' = "returned" /\ result' = outcome /\ UNCHANGED attempt
    /\ UNCHANGED delays

Sleep ==
    /\ phase = "sleep"
    /\ \E d \in DelayForAttempt(attempt) : delays' = Append(delays, d)
    /\ phase' = "call"
    /\ UNCHANGED <<attempt, outcomes, result>>

RetryNext == Sleep \/ \E outcome \in Outcome : CallOperation(outcome)

RetrySpec == RetryInit /\ [][RetryNext]_retryVars

-----------------------------------------------------------------------------
(* Properties.                                                             *)

\* retry_async returns what the last call gave, after at most max_attempts
\* retries, and it neither retries a success or a permanent error nor gives up
\* on a retriable one while attempts are left.
ReturnsLastOutcome ==
    /\ Len(outcomes) <= MaxAttempts + 1 /\ Len(delays) <= MaxAttempts
    /\ \A n \in DOMAIN outcomes : n < Len(outcomes) => outcomes[n] = "retriable"
    /\ phase = "returned" => /\ result = outcomes[Len(outcomes)]
                             /\ result = "retriable" => Len(outcomes) = MaxAttempts + 1

-----------------------------------------------------------------------------
(* What comments of the repository say and this code does not keep: see    *)
(* "Disagreements" in the README.                                          *)

\* No delay exceeds the maximum delay.
DelayLimit == \A n \in DOMAIN delays : delays[n] <= MaxDelay
=============================================================================
