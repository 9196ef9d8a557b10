---------------------------- MODULE LibraryProofs ----------------------------
(* What the small services promise: a background task for any number of      *)
(* starts and stops (BackgroundTask), retry_async for every policy (Retry),   *)
(* the circuit breaker for every threshold and any number of callers          *)
(* (CircuitBreaker), the gauges of the session metrics for any number of      *)
(* sessions and callers (SessionMetrics), the upload of the remote binary and *)
(* the data of its stream for any number of connections, parts and data       *)
(* (SshTransport), the counters of the metrics collector for any number of    *)
(* calls (MetricsCollector), and the keys and names of transports for all     *)
(* hosts, users, paths and ports (TransportConfig).                           *)
EXTENDS BackgroundTask, Retry, CircuitBreaker, SessionMetrics, MetricsCollector,
        SshTransport, TransportConfig, SequenceFacts, FiniteSetTheorems, SequenceTheorems, TLAPS

-----------------------------------------------------------------------------
(* The background task                                                     *)

\* Every variable keeps its type.
THEOREM TaskTypeCorrect == TaskSpec => []TaskTypeOK
<1>1. TaskInit => TaskTypeOK
  BY DEF TaskInit, TaskTypeOK, LoopPhase
<1>2. TaskTypeOK /\ [TaskNext]_taskVars => TaskTypeOK'
  BY DEF TaskTypeOK, TaskNext, taskVars, LoopPhase, StartTask, LoopStep, SpawnLoop,
         LoopChecks, LoopWorks, StopTask
<1> QED
  BY <1>1, <1>2, PTL DEF TaskSpec

\* While cleanup_running is set there is a loop that will see it, however starts
\* and stops are interleaved with the ticks: a loop ends only when it finds the
\* flag cleared, and the flag is set only by a start that spawns a loop.
THEOREM RunningAlwaysHasLoop == TaskSpec => []RunningHasLoop
<1>1. TaskInit => RunningHasLoop
  BY DEF TaskInit, RunningHasLoop
<1>2. ASSUME TaskTypeOK, RunningHasLoop, [TaskNext]_taskVars
      PROVE  RunningHasLoop'
  <2> USE <1>2 DEF TaskTypeOK, RunningHasLoop, Live
  <2>1. ASSUME NEW n \in LoopId, StartTask(n) PROVE RunningHasLoop'
    <3>1. loops'[n] = "spawning"
      BY <2>1 DEF StartTask
    <3> QED
      BY <3>1
  <2>2. ASSUME NEW n \in LoopId, LoopStep(n) PROVE RunningHasLoop'
    <3>1. running' = running
      BY <2>2 DEF LoopStep, SpawnLoop, LoopChecks, LoopWorks
    <3>2. running => loops'[n] \in {"ticking", "working"}
      BY <2>2 DEF LoopStep, SpawnLoop, LoopChecks, LoopWorks
    <3> QED
      BY <3>1, <3>2
  <2>3. CASE StopTask
    BY <2>3 DEF StopTask
  <2>4. CASE UNCHANGED taskVars
    BY <2>4 DEF taskVars
  <2> QED
    BY <1>2, <2>1, <2>2, <2>3, <2>4 DEF TaskNext
<1> QED
  BY <1>1, <1>2, TaskTypeCorrect, PTL DEF TaskSpec

-----------------------------------------------------------------------------
(* retry_async                                                             *)

\* The delays that a policy may ask for at all.
PolicyDelay == UNION {DelayForAttempt(n) : n \in 1..MaxAttempts}

\* The n-th sleep is the one that delay_for_attempt gives for attempt n.
DelaysFollowPolicy == \A n \in DOMAIN delays : delays[n] \in DelayForAttempt(n)

\* The loop's counter is the number of calls that failed and are retried, and of
\* the sleeps; all calls but the last gave a retriable error.
RetryInv ==
    /\ attempt \in Nat /\ attempt <= MaxAttempts
    /\ phase \in {"call", "sleep", "returned"}
    /\ outcomes \in Seq(Outcome) /\ delays \in Seq(PolicyDelay)
    /\ Len(outcomes) = attempt + IF phase = "returned" THEN 1 ELSE 0
    /\ Len(delays) = attempt - IF phase = "sleep" THEN 1 ELSE 0
    /\ phase = "sleep" => attempt > 0
    /\ \A n \in DOMAIN outcomes : phase # "returned" \/ n < Len(outcomes)
                                  => outcomes[n] = "retriable"
    /\ phase = "returned" => /\ result = outcomes[Len(outcomes)]
                             /\ result = "retriable" => attempt = MaxAttempts
    /\ DelaysFollowPolicy

\* Whatever the operation gives, the loop keeps the invariant.
THEOREM RetryKeepsInv == RetrySpec => []RetryInv
<1> USE RetryAssumption
<1>1. RetryInit => RetryInv
  BY DEF RetryInit, RetryInv, DelaysFollowPolicy
<1>2. ASSUME RetryInv, [RetryNext]_retryVars PROVE RetryInv'
  <2>1. ASSUME NEW outcome \in Outcome, CallOperation(outcome) PROVE RetryInv'
    <3> DEFINE o == Append(outcomes, outcome)
    <3>1. /\ o \in Seq(Outcome) /\ Len(outcomes) \in Nat /\ Len(o) = Len(outcomes) + 1
          /\ DOMAIN outcomes = 1..Len(outcomes) /\ DOMAIN o = 1..(Len(outcomes) + 1)
          /\ \A n \in 1..Len(outcomes) : o[n] = outcomes[n]
          /\ o[Len(outcomes) + 1] = outcome
      BY <1>2 DEF RetryInv
    <3>2. /\ phase = "call" /\ outcomes' = o /\ delays' = delays
          /\ \/ /\ outcome = "retriable" /\ attempt < MaxAttempts
                /\ phase' = "sleep" /\ attempt' = attempt + 1
             \/ /\ outcome = "retriable" => ~(attempt < MaxAttempts)
                /\ phase' = "returned" /\ result' = outcome /\ attempt' = attempt
      BY <2>1 DEF CallOperation, ShouldRetry
    <3> HIDE DEF o
    <3>3. DelaysFollowPolicy'
      BY <1>2, <3>2 DEF RetryInv, DelaysFollowPolicy
    <3>4. \A n \in DOMAIN o : phase' # "returned" \/ n < Len(o) => o[n] = "retriable"
      BY <1>2, <3>1, <3>2 DEF RetryInv
    <3> QED
      BY <1>2, <3>1, <3>2, <3>3, <3>4 DEF RetryInv
  <2>2. CASE Sleep
    <3>1. PICK d \in DelayForAttempt(attempt) : delays' = Append(delays, d)
      BY <2>2 DEF Sleep
    <3>2. /\ phase = "sleep" /\ phase' = "call" /\ UNCHANGED <<attempt, outcomes, result>>
      BY <2>2 DEF Sleep
    <3> DEFINE s == Append(delays, d)
    <3>3. attempt \in 1..MaxAttempts
      BY <1>2, <3>2 DEF RetryInv
    <3>4. d \in PolicyDelay
      BY <3>1, <3>3 DEF PolicyDelay
    <3>5. /\ s \in Seq(PolicyDelay) /\ Len(delays) \in Nat /\ Len(s) = Len(delays) + 1
          /\ DOMAIN delays = 1..Len(delays) /\ DOMAIN s = 1..(Len(delays) + 1)
          /\ \A n \in 1..Len(delays) : s[n] = delays[n]
          /\ s[Len(delays) + 1] = d
      BY <1>2, <3>4 DEF RetryInv
    <3>6. delays' = s
      BY <3>1
    <3> HIDE DEF s
    <3>7. Len(delays) + 1 = attempt
      BY <1>2, <3>2 DEF RetryInv
    <3>8. DelaysFollowPolicy'
      BY <1>2, <3>1, <3>5, <3>6, <3>7 DEF RetryInv, DelaysFollowPolicy
    <3> QED
      BY <1>2, <3>2, <3>3, <3>5, <3>6, <3>7, <3>8 DEF RetryInv
  <2>3. CASE UNCHANGED retryVars
    BY <1>2, <2>3 DEF retryVars, RetryInv, DelaysFollowPolicy
  <2> QED
    BY <1>2, <2>1, <2>2, <2>3 DEF RetryNext
<1> QED
  BY <1>1, <1>2, PTL DEF RetrySpec

\* retry_async returns what its last call gave, calls at most max_attempts + 1
\* times, and gives up on a retriable error only when no attempts are left.
THEOREM AlwaysReturnsLastOutcome == RetrySpec => []ReturnsLastOutcome
<1>1. RetryInv => ReturnsLastOutcome
  BY RetryAssumption DEF RetryInv, ReturnsLastOutcome
<1> QED
  BY <1>1, RetryKeepsInv, PTL

\* The n-th delay is that of the n-th retry: neither a retry nor a sleep is left
\* out or made twice.
THEOREM DelaysAlwaysFollowPolicy == RetrySpec => []DelaysFollowPolicy
<1>1. RetryInv => DelaysFollowPolicy
  BY DEF RetryInv
<1> QED
  BY <1>1, RetryKeepsInv, PTL

-----------------------------------------------------------------------------
(* The circuit breaker                                                     *)

\* Every variable keeps its type.
THEOREM BreakerTypeCorrect == BreakerSpec => []BreakerTypeOK
<1>1. ASSUME BreakerInit PROVE BreakerTypeOK
  <2>1. state \in CircuitState /\ executing \subseteq Caller /\ failure_count \in Nat
    BY <1>1 DEF BreakerInit, CircuitState
  <2>2. elapsed \in BOOLEAN
    BY <1>1, Zenon DEF BreakerInit
  <2> QED
    BY <2>1, <2>2 DEF BreakerTypeOK
<1>2. ASSUME BreakerTypeOK, [BreakerNext]_breakerVars PROVE BreakerTypeOK'
  <2>1. (state \in CircuitState /\ executing \subseteq Caller)'
    BY <1>2 DEF BreakerTypeOK, BreakerNext, breakerVars, CircuitState, CanExecute,
                RecordSuccess, RecordFailure, TimeoutElapses
  <2>2. failure_count' \in Nat
    BY <1>2 DEF BreakerTypeOK, BreakerNext, breakerVars, CanExecute, RecordSuccess,
                RecordFailure, TimeoutElapses
  <2>3. elapsed' \in BOOLEAN
    BY <1>2, Zenon DEF BreakerTypeOK, BreakerNext, breakerVars, CanExecute, RecordSuccess,
                       RecordFailure, TimeoutElapses
  <2> QED
    BY <2>1, <2>2, <2>3 DEF BreakerTypeOK
<1> QED
  BY <1>1, <1>2, PTL DEF BreakerSpec

\* Whatever results can_execute let through and whenever they are recorded, the
\* breaker is closed exactly while the count is below the threshold.
THEOREM CountAlwaysMatchesState == BreakerSpec => []CountMatchesState
<1>1. BreakerInit => CountMatchesState
  BY BreakerAssumption DEF BreakerInit, CountMatchesState
<1>2. ASSUME BreakerTypeOK, CountMatchesState, [BreakerNext]_breakerVars
      PROVE  CountMatchesState'
  <2> USE BreakerAssumption, <1>2 DEF BreakerTypeOK, CountMatchesState, CircuitState
  <2>1. ASSUME NEW c \in Caller, CanExecute(c) PROVE CountMatchesState'
    BY <2>1 DEF CanExecute
  <2>2. ASSUME NEW c \in Caller, RecordSuccess(c) PROVE CountMatchesState'
    BY <2>2 DEF RecordSuccess
  <2>3. ASSUME NEW c \in Caller, RecordFailure(c) PROVE CountMatchesState'
    BY <2>3 DEF RecordFailure
  <2>4. CASE TimeoutElapses
    BY <2>4 DEF TimeoutElapses
  <2>5. CASE UNCHANGED breakerVars
    BY <2>5 DEF breakerVars
  <2> QED
    BY <1>2, <2>1, <2>2, <2>3, <2>4, <2>5 DEF BreakerNext
<1> QED
  BY <1>1, <1>2, BreakerTypeCorrect, PTL DEF BreakerSpec

\* record_success closes a half-open breaker only, and only can_execute makes
\* an open one half open, after its timeout.
THEOREM AlwaysClosesHalfOpen == BreakerSpec => ClosesOnlyHalfOpen
<1>1. BreakerTypeOK /\ [BreakerNext]_breakerVars
      => [/\ state' = "Closed" => state \in {"Closed", "HalfOpen"}
          /\ state' = "HalfOpen" /\ state # "HalfOpen" => state = "Open" /\ elapsed]_breakerVars
  BY DEF BreakerTypeOK, BreakerNext, breakerVars, CircuitState, CanExecute, Allows,
         RecordSuccess, RecordFailure, TimeoutElapses
<1> QED
  BY <1>1, BreakerTypeCorrect, PTL DEF BreakerSpec, ClosesOnlyHalfOpen

-----------------------------------------------------------------------------
(* The session metrics                                                     *)

MetricsTypeOK ==
    /\ status \in [Session -> Status \cup {"new", "gone"}]
    /\ call \in [Worker -> CallStates \cup {Nil}]
    /\ use_count \in [Session -> Nat]
    /\ gauges \in [Counted -> Nat]

\* The locals of a call, by its step.
LEMMA CallLocals ==
    ASSUME NEW c \in CallStates
    PROVE  /\ c.id \in Session
           /\ c.at \in {"read", "updated", "connection", "closing"} =>
                 /\ c \in [at : {"read", "updated", "connection", "closing"}, id : Session,
                           old : Status, new : Status]
                 /\ c.old \in Status /\ c.new \in Status
           /\ c.at = "removed" => c.last \in Status
BY DEF CallStates

\* Where a call goes next.
LEMMA CallMoves ==
    ASSUME NEW i \in Session
    PROVE  /\ \A at \in {"created", "used", "recorded", "idle"} :
                 [at |-> at, id |-> i] \in CallStates
           /\ \A count \in Nat :
                 [at |-> "counted", id |-> i, count |-> count] \in CallStates
           /\ \A old, new \in Status :
                 [at |-> "read", id |-> i, old |-> old, new |-> new] \in CallStates
           /\ \A last \in Status : [at |-> "removed", id |-> i, last |-> last] \in CallStates
           /\ \A c \in CallStates : c.at \in {"read", "updated"} =>
                 \A at \in {"updated", "connection", "closing"} :
                    LET d == [c EXCEPT !.at = at]
                    IN  /\ d \in CallStates /\ d.at = at /\ d.id = c.id
                        /\ d.old = c.old /\ d.new = c.new
<1>1. ASSUME NEW c \in CallStates, c.at \in {"read", "updated"},
             NEW at \in {"updated", "connection", "closing"}
      PROVE  LET d == [c EXCEPT !.at = at]
             IN  /\ d \in CallStates /\ d.at = at /\ d.id = c.id
                 /\ d.old = c.old /\ d.new = c.new
  <2>1. c \in [at : {"read", "updated", "connection", "closing"}, id : Session,
               old : Status, new : Status]
    BY <1>1, CallLocals
  <2> QED
    BY <2>1 DEF CallStates
<1> QED
  BY <1>1 DEF CallStates

\* What the registry and the metrics do to the gauges.
LEMMA GaugeTypes ==
    ASSUME NEW g \in [Counted -> Nat], NEW s
    PROVE  /\ LeaveStatus(g, s) \in [Counted -> Nat] /\ EnterStatus(g, s) \in [Counted -> Nat]
           /\ \A c \in Counted :
                 /\ LeaveStatus(g, s)[c] =
                       IF s = c THEN (IF g[c] = 0 THEN 0 ELSE g[c] - 1) ELSE g[c]
                 /\ EnterStatus(g, s)[c] = IF s = c THEN g[c] + 1 ELSE g[c]
BY DEF LeaveStatus, EnterStatus

\* Nobody shares a session with a call that is under way.
OneCaller ==
    \A v, w \in Worker : call[v] # Nil /\ call[w] # Nil /\ call[v].id = call[w].id => v = w

\* What a call remembers of the registry is still so.
Remembers(w) ==
    call[w] # Nil =>
        /\ call[w].at = "read" => call[w].id \in Known /\ call[w].old = status[call[w].id]
        /\ call[w].at = "updated" => call[w].new = status[call[w].id]
        /\ call[w].at = "removed" => status[call[w].id] = "gone"

\* The status under which a call's session is recorded.
RecordedBy(c) ==
    IF c.at \in {"read", "updated"} THEN c.old
    ELSE IF c.at = "removed" THEN c.last ELSE status[c.id]

\* The sessions that a gauge ought to count.
Real(s) == {i \in Session : RecordedStatus(i) = s}

MetricsInv ==
    overlapped = {} =>
        /\ OneCaller /\ \A w \in Worker : Remembers(w)
        /\ \A s \in Counted : gauges[s] <= Cardinality(Real(s))

\* RecordedStatus, when the calls do not overlap.
LEMMA RecordedNow ==
    ASSUME OneCaller, NEW i
    PROVE  /\ \A w \in Worker : call[w] # Nil /\ call[w].id = i =>
                 RecordedStatus(i) = RecordedBy(call[w])
           /\ InCall(i) = {} => RecordedStatus(i) = status[i]
<1>1. ASSUME NEW w \in Worker, call[w] # Nil, call[w].id = i
      PROVE  RecordedStatus(i) = RecordedBy(call[w])
  <2>1. InCall(i) = {w}
    BY <1>1 DEF InCall, OneCaller
  <2>2. /\ call[w].at \in {"read", "updated"} =>
              (CHOOSE v \in InCall(i) : call[v].at \in {"read", "updated"}) = w
        /\ At(w, "removed") => (CHOOSE v \in InCall(i) : At(v, "removed")) = w
    BY <2>1
  <2> QED
    BY <1>1, <2>1, <2>2 DEF RecordedStatus, RecordedBy, At
<1>2. InCall(i) = {} => RecordedStatus(i) = status[i]
  BY DEF RecordedStatus
<1> QED
  BY <1>1, <1>2

\* The same after a step.
LEMMA RecordedNext ==
    ASSUME OneCaller', NEW i
    PROVE  /\ \A w \in Worker : call'[w] # Nil /\ call'[w].id = i =>
                 RecordedStatus(i)' = (RecordedBy(call[w]))'
           /\ InCall(i)' = {} => RecordedStatus(i)' = status'[i]
<1>1. ASSUME NEW w \in Worker, call'[w] # Nil, call'[w].id = i
      PROVE  RecordedStatus(i)' = (RecordedBy(call[w]))'
  <2>1. InCall(i)' = {w}
    BY <1>1 DEF InCall, OneCaller
  <2>2. /\ call'[w].at \in {"read", "updated"} =>
              (CHOOSE v \in InCall(i)' : call'[v].at \in {"read", "updated"}) = w
        /\ At(w, "removed")' => (CHOOSE v \in InCall(i)' : At(v, "removed")') = w
    BY <2>1
  <2> QED
    BY <1>1, <2>1, <2>2 DEF RecordedStatus, RecordedBy, At
<1>2. InCall(i)' = {} => RecordedStatus(i)' = status'[i]
  BY DEF RecordedStatus
<1> QED
  BY <1>1, <1>2

\* A step of a call on session j: how it leaves the other sessions.
LEMMA OneCallMoves ==
    ASSUME MetricsTypeOK, OneCaller, \A v \in Worker : Remembers(v),
           NEW w \in Worker, NEW j \in Session, NEW c \in CallStates \cup {Nil},
           call' = [call EXCEPT ![w] = c], c # Nil => c.id = j,
           call[w] # Nil => call[w].id = j, call[w] = Nil => InCall(j) = {},
           \A i \in Session : i # j => status'[i] = status[i]
    PROVE  /\ OneCaller'
           /\ \A v \in Worker : v # w => Remembers(v)'
           /\ \A i \in Session : i # j => RecordedStatus(i)' = RecordedStatus(i)
           /\ RecordedStatus(j) = IF call[w] = Nil THEN status[j] ELSE RecordedBy(call[w])
           /\ c = Nil => RecordedStatus(j)' = status'[j]
           /\ c # Nil => RecordedStatus(j)' = IF c.at \in {"read", "updated"} THEN c.old
                                              ELSE IF c.at = "removed" THEN c.last ELSE status'[j]
<1>1. call'[w] = c /\ \A v \in Worker : v # w => call'[v] = call[v]
  BY DEF MetricsTypeOK
<1>2. \A v \in Worker : v # w /\ call[v] # Nil => call[v].id # j
  BY DEF OneCaller, InCall
<1>3. OneCaller'
  BY <1>1, <1>2 DEF OneCaller
<1>4. ASSUME NEW v \in Worker, v # w PROVE Remembers(v)'
  <2>1. call[v] # Nil => call[v].id \in Session /\ call[v].id # j
    BY <1>2, <1>4, CallLocals DEF MetricsTypeOK
  <2>2. Remembers(v)
    OBVIOUS
  <2> QED
    BY <1>1, <1>4, <2>1, <2>2 DEF Remembers, Known
<1>5. ASSUME NEW i \in Session, i # j PROVE RecordedStatus(i)' = RecordedStatus(i)
  <2>1. InCall(i)' = InCall(i)
    BY <1>1, <1>5 DEF InCall
  <2>2. CASE InCall(i) = {}
    BY <1>3, <1>5, <2>1, <2>2, RecordedNow, RecordedNext
  <2>3. CASE InCall(i) # {}
    <3>1. PICK v \in Worker : call[v] # Nil /\ call[v].id = i
      BY <2>3 DEF InCall
    <3>2. v # w
      BY <1>5, <3>1
    <3>3. call'[v] = call[v]
      BY <1>1, <3>2
    <3>4. RecordedStatus(i) = RecordedBy(call[v])
      BY <3>1, RecordedNow
    <3>5. RecordedStatus(i)' = (RecordedBy(call[v]))'
      BY <1>3, <3>1, <3>3, RecordedNext
    <3>6. (RecordedBy(call[v]))' = RecordedBy(call[v])
      BY <1>5, <3>1, <3>3 DEF RecordedBy
    <3> QED
      BY <3>4, <3>5, <3>6
  <2> QED
    BY <2>2, <2>3
<1>6. RecordedStatus(j) = IF call[w] = Nil THEN status[j] ELSE RecordedBy(call[w])
  BY RecordedNow
<1>7. c = Nil => RecordedStatus(j)' = status'[j]
  <2>1. c = Nil => InCall(j)' = {}
    BY <1>1, <1>2 DEF InCall
  <2> QED
    BY <1>3, <2>1, RecordedNext
<1>8. ASSUME c # Nil
      PROVE  RecordedStatus(j)' = IF c.at \in {"read", "updated"} THEN c.old
                                  ELSE IF c.at = "removed" THEN c.last ELSE status'[j]
  <2>1. RecordedStatus(j)' = (RecordedBy(call[w]))'
    BY <1>1, <1>3, <1>8, RecordedNext
  <2>2. (RecordedBy(call[w]))' = IF c.at \in {"read", "updated"} THEN c.old
                                 ELSE IF c.at = "removed" THEN c.last ELSE status'[j]
    BY <1>1, <1>8 DEF RecordedBy
  <2> QED
    BY <2>1, <2>2
<1> QED
  BY <1>3, <1>4, <1>5, <1>6, <1>7, <1>8

\* One session more or less under a status.
LEMMA RealMoves ==
    ASSUME NEW j \in Session, NEW s,
           \A i \in Session : i # j => RecordedStatus(i)' = RecordedStatus(i)
    PROVE  /\ Cardinality(Real(s)) \in Nat /\ Cardinality(Real(s)') \in Nat
           /\ RecordedStatus(j) = s => Cardinality(Real(s)) > 0
           /\ (RecordedStatus(j) = s <=> RecordedStatus(j)' = s) =>
                 Cardinality(Real(s)') = Cardinality(Real(s))
           /\ RecordedStatus(j) = s /\ RecordedStatus(j)' # s =>
                 Cardinality(Real(s)') = Cardinality(Real(s)) - 1
           /\ RecordedStatus(j) # s /\ RecordedStatus(j)' = s =>
                 Cardinality(Real(s)') = Cardinality(Real(s)) + 1
<1>1. IsFiniteSet(Real(s)) /\ IsFiniteSet(Real(s)')
  <2>1. Real(s) \subseteq Session /\ Real(s)' \subseteq Session
    BY DEF Real
  <2> QED
    BY <2>1, MetricsAssumption, FS_Subset
<1>2. Cardinality(Real(s)) \in Nat /\ Cardinality(Real(s)') \in Nat
  BY <1>1, FS_CardinalityType
<1>3. ASSUME (RecordedStatus(j) = s <=> RecordedStatus(j)' = s)
      PROVE  Cardinality(Real(s)') = Cardinality(Real(s))
  <2>1. Real(s)' = Real(s)
    BY <1>3 DEF Real
  <2> QED
    BY <2>1
<1>4. ASSUME RecordedStatus(j) = s, RecordedStatus(j)' # s
      PROVE  Cardinality(Real(s)') = Cardinality(Real(s)) - 1
  <2>1. Real(s)' = Real(s) \ {j} /\ j \in Real(s)
    BY <1>4 DEF Real
  <2> QED
    BY <1>1, <2>1, FS_RemoveElement
<1>5. ASSUME RecordedStatus(j) # s, RecordedStatus(j)' = s
      PROVE  Cardinality(Real(s)') = Cardinality(Real(s)) + 1
  <2>1. Real(s)' = Real(s) \cup {j} /\ j \notin Real(s)
    BY <1>5 DEF Real
  <2> QED
    BY <1>1, <2>1, FS_AddElement
<1>6. ASSUME RecordedStatus(j) = s PROVE Cardinality(Real(s)) > 0
  <2>1. j \in Real(s)
    BY <1>6 DEF Real
  <2>2. Cardinality(Real(s)) # 0
    BY <1>1, <2>1, FS_EmptySet
  <2> QED
    BY <1>2, <2>2
<1> QED
  BY <1>2, <1>3, <1>4, <1>5, <1>6

\* The gauges stay within the real numbers when a step that moves one session does
\* not move them, or moves them with the session.
LEMMA GaugesFollow ==
    ASSUME MetricsTypeOK, \A s \in Counted : gauges[s] <= Cardinality(Real(s)),
           NEW j \in Session,
           \A i \in Session : i # j => RecordedStatus(i)' = RecordedStatus(i),
           \/ /\ gauges' = gauges
              /\ RecordedStatus(j) \notin Counted \/ RecordedStatus(j)' = RecordedStatus(j)
           \/ gauges' = EnterStatus(LeaveStatus(gauges, RecordedStatus(j)), RecordedStatus(j)')
    PROVE  \A s \in Counted : gauges'[s] <= Cardinality(Real(s)')
<1> SUFFICES ASSUME NEW s \in Counted PROVE gauges'[s] <= Cardinality(Real(s)')
  OBVIOUS
<1> DEFINE old == RecordedStatus(j)
           new == RecordedStatus(j)'
           n == Cardinality(Real(s))
           m == Cardinality(Real(s)')
<1>1. /\ n \in Nat /\ m \in Nat
      /\ old = s => n > 0
      /\ (old = s <=> new = s) => m = n
      /\ old = s /\ new # s => m = n - 1
      /\ old # s /\ new = s => m = n + 1
  BY RealMoves
<1>2. gauges[s] \in Nat /\ gauges[s] <= n
  BY DEF MetricsTypeOK
<1>3. CASE gauges' = gauges /\ (old \notin Counted \/ new = old)
  <2>1. old # s \/ new = s
    BY <1>3
  <2> HIDE DEF old, new, n, m
  <2>2. gauges'[s] <= m
    BY <1>1, <1>2, <1>3, <2>1
  <2> QED
    BY <2>2 DEF m
<1>4. CASE gauges' = EnterStatus(LeaveStatus(gauges, old), new)
  <2> HIDE DEF old, new, n, m
  <2>1. LeaveStatus(gauges, old) \in [Counted -> Nat]
    BY GaugeTypes DEF MetricsTypeOK
  <2>2. LeaveStatus(gauges, old)[s] =
            IF old = s THEN (IF gauges[s] = 0 THEN 0 ELSE gauges[s] - 1) ELSE gauges[s]
    BY GaugeTypes DEF MetricsTypeOK
  <2>3. gauges'[s] = IF new = s THEN LeaveStatus(gauges, old)[s] + 1
                                ELSE LeaveStatus(gauges, old)[s]
    BY <1>4, <2>1, GaugeTypes
  <2>4. LeaveStatus(gauges, old)[s] \in Nat
    BY <2>1
  <2>5. gauges'[s] <= m
    BY <1>1, <1>2, <2>2, <2>3, <2>4
  <2> QED
    BY <2>5 DEF m
<1> QED
  BY <1>3, <1>4

\* The steps of use_session after the registry has counted the use.
LEMMA UseSteps ==
    ASSUME NEW w \in Worker, call[w] \in CallStates, UseStep(w),
           status \in [Session -> Status \cup {"new", "gone"}], use_count \in [Session -> Nat]
    PROVE  /\ status' = status /\ use_count' = use_count /\ gauges' = gauges
           /\ \E c \in CallStates \cup {Nil} :
                 /\ call' = [call EXCEPT ![w] = c]
                 /\ c # Nil =>
                       /\ c.id = call[w].id
                       /\ \/ c.at \in {"counted", "recorded", "idle"}
                          \/ /\ c.at = "read" /\ c.old = status[c.id]
                             /\ status[c.id] \in Status
<1>1. PICK i \in Session : i = call[w].id
  BY CallLocals
<1>2. "Active" \in Status /\ use_count[i] \in Nat
  BY DEF Status
<1>3. /\ \A at \in {"recorded", "idle"} : [at |-> at, id |-> i] \in CallStates
      /\ [at |-> "counted", id |-> i, count |-> use_count[i]] \in CallStates
      /\ \A old \in Status :
            [at |-> "read", id |-> i, old |-> old, new |-> "Active"] \in CallStates
  BY <1>2, CallMoves
<1> DEFINE Fits(c) == c # Nil =>
                        /\ c.id = i
                        /\ \/ c.at \in {"counted", "recorded", "idle"}
                           \/ c.at = "read" /\ c.old = status[c.id] /\ status[c.id] \in Status
<1>8. SUFFICES /\ status' = status /\ use_count' = use_count /\ gauges' = gauges
               /\ \E c \in CallStates \cup {Nil} : call' = [call EXCEPT ![w] = c] /\ Fits(c)
  BY <1>1
<1>4. CASE UseCount(w)
  <2>1. PICK c : c = IF i \in Known THEN [at |-> "counted", id |-> i, count |-> use_count[i]]
                     ELSE Nil
    OBVIOUS
  <2>2. c \in CallStates \cup {Nil} /\ Fits(c)
    BY <1>3, <2>1
  <2>3. call' = [call EXCEPT ![w] = c] /\ UNCHANGED <<registryVars, collected>>
    BY <1>1, <1>4, <2>1 DEF UseCount, Proceed
  <2> QED
    BY <2>2, <2>3 DEF registryVars, collected
<1>5. CASE UseRecord(w)
  <2>1. PICK c : c = [at |-> "recorded", id |-> i]
    OBVIOUS
  <2>2. c \in CallStates \cup {Nil} /\ Fits(c)
    BY <1>3, <2>1
  <2>3. call' = [call EXCEPT ![w] = c] /\ UNCHANGED registryVars /\ gauges' = gauges
    BY <1>1, <1>5, <2>1 DEF UseRecord, RecordUsage, Proceed
  <2> QED
    BY <2>2, <2>3 DEF registryVars
<1>6. CASE UseTest(w)
  <2>1. PICK c : c = IF status[i] = "Idle" THEN [at |-> "idle", id |-> i] ELSE Nil
    OBVIOUS
  <2>2. c \in CallStates \cup {Nil} /\ Fits(c)
    BY <1>3, <2>1
  <2>3. call' = [call EXCEPT ![w] = c] /\ UNCHANGED <<registryVars, collected>>
    BY <1>1, <1>6, <2>1 DEF UseTest, Proceed
  <2> QED
    BY <2>2, <2>3 DEF registryVars, collected
<1>7. CASE UseActivate(w)
  <2>1. PICK c : c = IF i \in Known THEN [at |-> "read", id |-> i, old |-> status[i], new |-> "Active"]
                     ELSE Nil
    OBVIOUS
  <2>2. c \in CallStates \cup {Nil} /\ Fits(c)
    BY <1>3, <2>1 DEF Known
  <2>3. call' = [call EXCEPT ![w] = c] /\ UNCHANGED <<registryVars, collected>>
    BY <1>1, <1>7, <2>1 DEF UseActivate, Proceed
  <2> QED
    BY <2>2, <2>3 DEF registryVars, collected
<1> QED
  BY <1>4, <1>5, <1>6, <1>7 DEF UseStep

\* The steps of the calls and of the metrics keep the types.
LEMMA MetricsKeepTypes == MetricsTypeOK /\ [MetricsNext]_metricsVars => MetricsTypeOK'
<1> SUFFICES ASSUME MetricsTypeOK, [MetricsNext]_metricsVars PROVE MetricsTypeOK'
  OBVIOUS
<1>0. MetricsTypeOK /\ Changes \subseteq Status
  BY MetricsAssumption
<1>1. ASSUME NEW w \in Worker, CallStep(w) PROVE MetricsTypeOK'
  <2> DEFINE d == call[w]
  <2>0. d \in CallStates
    <3>1. d # Nil
      BY <1>1 DEF CallStep, CreateRecord, UpdateRegistry, UpdateRecord, UpdateConnection,
                  UseStep, UseCount, UseRecord, UseTest, UseActivate,
                  Unregister, CloseRecord, At
    <3> QED
      BY <1>0, <3>1 DEF MetricsTypeOK
  <2>1. CASE CreateRecord(w)
    BY <1>0, <2>1 DEF MetricsTypeOK, CreateRecord, RecordCreated, Proceed, registryVars
  <2>2. CASE UpdateRegistry(w)
    <3>1. d.at = "read"
      BY <2>2 DEF UpdateRegistry, At
    <3>2. d.id \in Session /\ d.new \in Status /\ [d EXCEPT !.at = "updated"] \in CallStates
      BY <2>0, <3>1, CallLocals, CallMoves
    <3>3. gauges' = gauges /\ use_count' = use_count
      BY <2>2 DEF UpdateRegistry, collected
    <3>4. status' \in [Session -> Status \cup {"new", "gone"}]
      BY <1>0, <2>2, <3>2 DEF MetricsTypeOK, UpdateRegistry
    <3>5. call' \in [Worker -> CallStates \cup {Nil}]
      BY <1>0, <2>2, <3>2 DEF MetricsTypeOK, UpdateRegistry, Proceed
    <3> QED
      BY <1>0, <3>3, <3>4, <3>5 DEF MetricsTypeOK
  <2>3. CASE UpdateRecord(w)
    <3>1. d.at = "updated"
      BY <2>3 DEF UpdateRecord, At
    <3>2. /\ [d EXCEPT !.at = "connection"] \in CallStates
          /\ [d EXCEPT !.at = "closing"] \in CallStates
      BY <2>0, <3>1, CallLocals, CallMoves
    <3>3. /\ status' = status /\ use_count' = use_count
          /\ gauges' = EnterStatus(LeaveStatus(gauges, d.old), d.new)
      BY <2>3 DEF UpdateRecord, RecordStatus, registryVars
    <3>4. gauges' \in [Counted -> Nat]
      <4>1. LeaveStatus(gauges, d.old) \in [Counted -> Nat]
        BY <1>0, GaugeTypes DEF MetricsTypeOK
      <4> QED
        BY <3>3, <4>1, GaugeTypes
    <3>5. call' \in [Worker -> CallStates \cup {Nil}]
      BY <1>0, <2>3, <3>2 DEF MetricsTypeOK, UpdateRecord, Proceed
    <3> QED
      BY <1>0, <3>3, <3>4, <3>5 DEF MetricsTypeOK
  <2>4. CASE UpdateConnection(w)
    BY <1>0, <2>4 DEF MetricsTypeOK, UpdateConnection, RecordConnection, Proceed, registryVars
  <2>5. CASE UseStep(w)
    <3>1. /\ status' = status /\ use_count' = use_count /\ gauges' = gauges
          /\ \E c \in CallStates \cup {Nil} : call' = [call EXCEPT ![w] = c]
      BY <1>0, <2>0, <2>5, UseSteps DEF MetricsTypeOK
    <3> QED
      BY <1>0, <3>1 DEF MetricsTypeOK
  <2>6. CASE Unregister(w)
    <3>1. d.id \in Known => [at |-> "removed", id |-> d.id, last |-> status[d.id]] \in CallStates
      BY <2>0, CallLocals, CallMoves DEF Known
    <3>2. gauges' = gauges /\ use_count' = use_count
      BY <2>6 DEF Unregister, collected
    <3>3. status' \in [Session -> Status \cup {"new", "gone"}]
      BY <1>0, <2>6 DEF MetricsTypeOK, Unregister
    <3>4. call' \in [Worker -> CallStates \cup {Nil}]
      BY <1>0, <2>6, <3>1 DEF MetricsTypeOK, Unregister, Proceed
    <3> QED
      BY <1>0, <3>2, <3>3, <3>4 DEF MetricsTypeOK
  <2>7. CASE CloseRecord(w)
    <3>1. /\ status' = status /\ use_count' = use_count
          /\ gauges' = LeaveStatus(gauges, d.last)
      BY <2>7 DEF CloseRecord, RecordClosed, registryVars
    <3>2. gauges' \in [Counted -> Nat]
      BY <1>0, <3>1, GaugeTypes DEF MetricsTypeOK
    <3>3. call' \in [Worker -> CallStates \cup {Nil}]
      BY <1>0, <2>7 DEF MetricsTypeOK, CloseRecord, Proceed
    <3> QED
      BY <1>0, <3>1, <3>2, <3>3 DEF MetricsTypeOK
  <2> QED
    BY <1>1, <2>1, <2>2, <2>3, <2>4, <2>5, <2>6, <2>7 DEF CallStep
<1>2. ASSUME NEW w \in Worker, NEW i \in Session, CreateSession(w, i) PROVE MetricsTypeOK'
  <2>1. [at |-> "created", id |-> i] \in CallStates
    BY CallMoves
  <2> QED
    BY <1>0, <1>2, <2>1 DEF MetricsTypeOK, CreateSession, Begin, collected, Status
<1>3. ASSUME NEW w \in Worker, NEW i \in Session, UseSession(w, i) PROVE MetricsTypeOK'
  <2>1. [at |-> "used", id |-> i] \in CallStates
    BY CallMoves
  <2> QED
    BY <1>0, <1>3, <2>1 DEF MetricsTypeOK, UseSession, Begin, collected
<1>4. ASSUME NEW w \in Worker, NEW i \in Session, ExpireSession(w, i) PROVE MetricsTypeOK'
  <2>1. [at |-> "removed", id |-> i, last |-> status[i]] \in CallStates
    BY <1>4, CallMoves DEF ExpireSession, Known
  <2> QED
    BY <1>0, <1>4, <2>1 DEF MetricsTypeOK, ExpireSession, Begin, collected
<1>5. ASSUME NEW w \in Worker, NEW i \in Session, NEW new \in Changes, UpdateStatus(w, i, new)
      PROVE  MetricsTypeOK'
  <2>1. [at |-> "read", id |-> i, old |-> status[i], new |-> new] \in CallStates
    BY <1>0, <1>5, CallMoves DEF UpdateStatus, Known
  <2> QED
    BY <1>0, <1>5, <2>1 DEF MetricsTypeOK, UpdateStatus, Begin, collected, registryVars
<1>6. CASE Reset
  BY <1>0, <1>6 DEF MetricsTypeOK, Reset, NoGauges, registryVars
<1>7. CASE CleanupOldHistory \/ TimePasses
  BY <1>0, <1>7 DEF MetricsTypeOK, CleanupOldHistory, TimePasses, registryVars
<1>8. CASE UNCHANGED metricsVars
  BY <1>0, <1>8 DEF MetricsTypeOK, metricsVars, registryVars, collected
<1> QED
  BY <1>1, <1>2, <1>3, <1>4, <1>5, <1>6, <1>7, <1>8 DEF MetricsNext

\* Under which status a session is recorded before a step of worker w, and after it.
Before(w, j) == IF call[w] = Nil THEN status[j] ELSE RecordedBy(call[w])
After(c, j) ==
    IF c = Nil THEN status'[j]
    ELSE IF c.at \in {"read", "updated"} THEN c.old
    ELSE IF c.at = "removed" THEN c.last ELSE status'[j]

\* A step of worker w on session j that enters c.
Moves(w, j, c) ==
    /\ call' = [call EXCEPT ![w] = c] /\ (c # Nil => c.id = j)
    /\ call[w] # Nil => call[w].id = j
    /\ call[w] = Nil => InCall(j) = {}
    /\ \A i \in Session : i # j => status'[i] = status[i]
    /\ Remembers(w)'
    /\ \/ gauges' = gauges /\ (Before(w, j) \notin Counted \/ After(c, j) = Before(w, j))
       \/ gauges' = EnterStatus(LeaveStatus(gauges, Before(w, j)), After(c, j))

\* Such a step keeps the invariant.
LEMMA MovesKeepInv ==
    ASSUME MetricsTypeOK, MetricsInv, overlapped = {},
           NEW w \in Worker, NEW j \in Session, NEW c \in CallStates \cup {Nil}, Moves(w, j, c)
    PROVE  MetricsInv'
<1>1. OneCaller /\ (\A v \in Worker : Remembers(v))
      /\ \A s \in Counted : gauges[s] <= Cardinality(Real(s))
  BY DEF MetricsInv
<1>2. /\ call' = [call EXCEPT ![w] = c] /\ (c # Nil => c.id = j)
      /\ call[w] # Nil => call[w].id = j
      /\ call[w] = Nil => InCall(j) = {}
      /\ \A i \in Session : i # j => status'[i] = status[i]
      /\ Remembers(w)'
      /\ \/ gauges' = gauges /\ (Before(w, j) \notin Counted \/ After(c, j) = Before(w, j))
         \/ gauges' = EnterStatus(LeaveStatus(gauges, Before(w, j)), After(c, j))
  BY DEF Moves
<1>3. /\ OneCaller'
      /\ \A v \in Worker : v # w => Remembers(v)'
      /\ \A i \in Session : i # j => RecordedStatus(i)' = RecordedStatus(i)
      /\ RecordedStatus(j) = IF call[w] = Nil THEN status[j] ELSE RecordedBy(call[w])
      /\ c = Nil => RecordedStatus(j)' = status'[j]
      /\ c # Nil => RecordedStatus(j)' = IF c.at \in {"read", "updated"} THEN c.old
                                         ELSE IF c.at = "removed" THEN c.last ELSE status'[j]
  BY <1>1, <1>2, OneCallMoves
<1>4. RecordedStatus(j) = Before(w, j) /\ RecordedStatus(j)' = After(c, j)
  BY <1>3 DEF Before, After
<1>5. \/ /\ gauges' = gauges
         /\ RecordedStatus(j) \notin Counted \/ RecordedStatus(j)' = RecordedStatus(j)
      \/ gauges' = EnterStatus(LeaveStatus(gauges, RecordedStatus(j)), RecordedStatus(j)')
  BY <1>2, <1>4, Zenon
<1>6. \A s \in Counted : gauges'[s] <= Cardinality(Real(s)')
  BY <1>1, <1>3, <1>5, GaugesFollow
<1>7. \A v \in Worker : Remembers(v)'
  BY <1>2, <1>3
<1> QED
  BY <1>3, <1>6, <1>7 DEF MetricsInv

\* A call that begins without overlapping.
LEMMA BeginsAlone ==
    ASSUME NEW w \in Worker, NEW j \in Session, NEW c \in CallStates, c.id = j,
           Begin(w, c), overlapped' = {}
    PROVE  /\ overlapped = {} /\ InCall(j) = {} /\ call[w] = Nil
           /\ call' = [call EXCEPT ![w] = c]
BY DEF Begin

\* The steps of a call keep the invariant.
LEMMA CallStepsKeepInv ==
    ASSUME MetricsTypeOK, MetricsInv, NEW w \in Worker, CallStep(w), overlapped' = {}
    PROVE  MetricsInv'
<1>1. overlapped = {} /\ call[w] # Nil
  BY DEF CallStep, CreateRecord, UpdateRegistry, UpdateRecord, UpdateConnection,
         UseStep, UseCount, UseRecord, UseTest, UseActivate,
                  Unregister, CloseRecord, At, Proceed
<1>2. PICK d \in CallStates : d = call[w]
  BY <1>1 DEF MetricsTypeOK
<1>3. PICK j \in Session : j = d.id
  BY CallLocals
<1>4. Remembers(w) /\ Nil \notin CallStates
  BY <1>1, MetricsAssumption DEF MetricsInv
<1>5. Before(w, j) = IF d.at \in {"read", "updated"} THEN d.old
                     ELSE IF d.at = "removed" THEN d.last ELSE status[j]
  BY <1>1, <1>2, <1>3 DEF Before, RecordedBy
<1>6. ASSUME NEW c \in CallStates \cup {Nil}, c # Nil => c.id = j,
             call' = [call EXCEPT ![w] = c],
             \A i \in Session : i # j => status'[i] = status[i],
             c # Nil => /\ c.at = "read" => status'[j] \in Status /\ c.old = status'[j]
                        /\ c.at = "updated" => c.new = status'[j]
                        /\ c.at = "removed" => status'[j] = "gone",
             \/ gauges' = gauges /\ (Before(w, j) \notin Counted \/ After(c, j) = Before(w, j))
             \/ gauges' = EnterStatus(LeaveStatus(gauges, Before(w, j)), After(c, j))
      PROVE  MetricsInv'
  <2>1. call'[w] = c
    BY <1>6 DEF MetricsTypeOK
  <2>2. Remembers(w)'
    BY <1>6, <2>1 DEF Remembers, Known
  <2>3. Moves(w, j, c)
    BY <1>1, <1>2, <1>3, <1>6, <2>2 DEF Moves
  <2> QED
    BY <1>1, <2>3, MovesKeepInv
<1>7. CASE CreateRecord(w)
  <2>1. /\ call' = [call EXCEPT ![w] = Nil] /\ status' = status /\ gauges' = gauges
        /\ d.at = "created"
    BY <1>2, <1>7 DEF CreateRecord, At, RecordCreated, Proceed, registryVars
  <2>2. After(Nil, j) = Before(w, j)
    BY <1>5, <2>1 DEF After
  <2> QED
    BY <1>6, <2>1, <2>2
<1>8. CASE UpdateRegistry(w)
  <2>1. d.at = "read" /\ gauges' = gauges
    BY <1>2, <1>8 DEF UpdateRegistry, At, collected
  <2>2. j \in Known /\ d.new \in Status
    BY <1>1, <1>2, <1>3, <1>4, <2>1, CallLocals DEF Remembers
  <2>3. PICK c : c = [d EXCEPT !.at = "updated"]
    OBVIOUS
  <2>4. c \in CallStates /\ c.at = "updated" /\ c.id = j /\ c.old = d.old /\ c.new = d.new
    BY <1>3, <2>1, <2>3, CallMoves
  <2>5. call' = [call EXCEPT ![w] = c] /\ status' = [status EXCEPT ![j] = d.new]
    BY <1>2, <1>3, <1>8, <2>2, <2>3 DEF UpdateRegistry, Proceed
  <2>6. status'[j] = d.new /\ \A i \in Session : i # j => status'[i] = status[i]
    BY <2>5 DEF MetricsTypeOK
  <2>7. After(c, j) = Before(w, j)
    BY <1>4, <1>5, <2>1, <2>4 DEF After
  <2> QED
    BY <1>6, <2>1, <2>4, <2>5, <2>6, <2>7
<1>9. CASE UpdateRecord(w)
  <2>1. /\ d.at = "updated" /\ status' = status
        /\ gauges' = EnterStatus(LeaveStatus(gauges, d.old), d.new)
    BY <1>2, <1>9 DEF UpdateRecord, At, RecordStatus, registryVars
  <2>2. status[j] = d.new
    BY <1>1, <1>2, <1>3, <1>4, <2>1 DEF Remembers
  <2>3. PICK c : c = IF Attempted(d) THEN [d EXCEPT !.at = "connection"]
                     ELSE IF d.new = "Closing" THEN [d EXCEPT !.at = "closing"] ELSE Nil
    OBVIOUS
  <2>4. c \in CallStates \cup {Nil} /\ (c # Nil => c.id = j /\ c.at \in {"connection", "closing"})
    BY <1>3, <2>1, <2>3, CallMoves
  <2>5. call' = [call EXCEPT ![w] = c]
    BY <1>2, <1>9, <2>3 DEF UpdateRecord, Proceed
  <2>6. After(c, j) = d.new /\ Before(w, j) = d.old
    BY <1>5, <2>1, <2>2, <2>4 DEF After
  <2> QED
    BY <1>6, <2>1, <2>4, <2>5, <2>6
<1>10. CASE UpdateConnection(w)
  <2>1. /\ call' = [call EXCEPT ![w] = Nil] /\ status' = status /\ gauges' = gauges
        /\ d.at = "connection"
    BY <1>2, <1>10 DEF UpdateConnection, At, RecordConnection, Proceed, registryVars
  <2>2. After(Nil, j) = Before(w, j)
    BY <1>5, <2>1 DEF After
  <2> QED
    BY <1>6, <2>1, <2>2
<1>11. CASE UseStep(w)
  <2>1. PICK c \in CallStates \cup {Nil} :
           /\ call' = [call EXCEPT ![w] = c] /\ status' = status /\ gauges' = gauges
           /\ c # Nil =>
                 /\ c.id = j
                 /\ \/ c.at \in {"counted", "recorded", "idle"}
                    \/ c.at = "read" /\ c.old = status[j] /\ status[j] \in Status
    BY <1>2, <1>3, <1>11, UseSteps DEF MetricsTypeOK
  <2>2. d.at \in {"used", "counted", "recorded", "idle"}
    BY <1>2, <1>11 DEF UseStep, UseCount, UseRecord, UseTest, UseActivate, At
  <2>3. After(c, j) = Before(w, j)
    BY <1>5, <2>1, <2>2 DEF After
  <2> QED
    BY <1>6, <2>1, <2>3
<1>12. CASE Unregister(w)
  <2>1. d.at = "closing" /\ gauges' = gauges
    BY <1>2, <1>12 DEF Unregister, At, collected
  <2>2. CASE j \in Known
    <3>1. PICK c : c = [at |-> "removed", id |-> j, last |-> status[j]]
      OBVIOUS
    <3>2. c \in CallStates /\ c.id = j /\ c.at = "removed" /\ c.last = status[j]
      BY <2>2, <3>1, CallMoves DEF Known
    <3>3. call' = [call EXCEPT ![w] = c] /\ status' = [status EXCEPT ![j] = "gone"]
      BY <1>2, <1>3, <1>12, <2>2, <3>1 DEF Unregister, Proceed
    <3>4. status'[j] = "gone" /\ \A i \in Session : i # j => status'[i] = status[i]
      BY <3>3 DEF MetricsTypeOK
    <3>5. After(c, j) = Before(w, j)
      BY <1>4, <1>5, <2>1, <3>2 DEF After
    <3> QED
      BY <1>6, <2>1, <3>2, <3>3, <3>4, <3>5
  <2>3. CASE j \notin Known
    <3>1. call' = [call EXCEPT ![w] = Nil] /\ status' = status
      BY <1>2, <1>3, <1>12, <2>3 DEF Unregister, Proceed
    <3>2. After(Nil, j) = Before(w, j)
      BY <1>5, <2>1, <3>1 DEF After
    <3> QED
      BY <1>6, <2>1, <3>1, <3>2
  <2> QED
    BY <2>2, <2>3
<1>13. CASE CloseRecord(w)
  <2>1. /\ call' = [call EXCEPT ![w] = Nil] /\ status' = status /\ d.at = "removed"
        /\ gauges' = LeaveStatus(gauges, d.last)
    BY <1>2, <1>13 DEF CloseRecord, At, RecordClosed, Proceed, registryVars
  <2>2. status[j] = "gone"
    BY <1>1, <1>2, <1>3, <1>4, <2>1 DEF Remembers
  <2>3. After(Nil, j) = "gone" /\ Before(w, j) = d.last
    BY <1>5, <2>1, <2>2 DEF After
  <2>4. gauges' = EnterStatus(LeaveStatus(gauges, Before(w, j)), After(Nil, j))
    BY <2>1, <2>3 DEF EnterStatus, Counted
  <2> QED
    BY <1>6, <2>1, <2>4
<1> QED
  BY <1>7, <1>8, <1>9, <1>10, <1>11, <1>12, <1>13 DEF CallStep

\* The calls that begin keep the invariant.
LEMMA BeginsKeepInv ==
    ASSUME MetricsTypeOK, MetricsInv, NEW w \in Worker, NEW j \in Session, overlapped' = {},
           \/ CreateSession(w, j) \/ UseSession(w, j) \/ ExpireSession(w, j)
           \/ \E new \in Changes : UpdateStatus(w, j, new)
    PROVE  MetricsInv'
<1>1. ASSUME NEW c \in CallStates, c.id = j, Begin(w, c), gauges' = gauges,
             \A i \in Session : i # j => status'[i] = status[i],
             /\ c.at = "read" => status'[j] \in Status /\ c.old = status'[j]
             /\ c.at # "updated"
             /\ c.at = "removed" => status'[j] = "gone",
             status[j] \notin Counted \/ After(c, j) = status[j]
      PROVE  MetricsInv'
  <2>1. /\ overlapped = {} /\ InCall(j) = {} /\ call[w] = Nil
        /\ call' = [call EXCEPT ![w] = c]
    BY <1>1, BeginsAlone
  <2>2. call'[w] = c
    BY <2>1 DEF MetricsTypeOK
  <2>3. Remembers(w)'
    BY <1>1, <2>2 DEF Remembers, Known
  <2>4. Before(w, j) = status[j]
    BY <2>1 DEF Before
  <2>5. Moves(w, j, c)
    BY <1>1, <2>1, <2>3, <2>4 DEF Moves
  <2> QED
    BY <2>1, <2>5, MovesKeepInv
<1>0. Nil \notin CallStates /\ Changes \subseteq Status
  BY MetricsAssumption
<1>2. CASE CreateSession(w, j)
  <2>1. PICK c : c = [at |-> "created", id |-> j]
    OBVIOUS
  <2>2. c \in CallStates /\ c.id = j /\ c.at = "created"
    BY <2>1, CallMoves
  <2>3. Begin(w, c) /\ gauges' = gauges /\ status[j] \notin Counted
    BY <1>2, <2>1 DEF CreateSession, collected, Counted
  <2>4. \A i \in Session : i # j => status'[i] = status[i]
    BY <1>2 DEF CreateSession, MetricsTypeOK
  <2> QED
    BY <1>1, <2>2, <2>3, <2>4
<1>3. CASE UseSession(w, j)
  <2>1. PICK c : c = [at |-> "used", id |-> j]
    OBVIOUS
  <2>2. c \in CallStates /\ c.id = j /\ c.at = "used"
    BY <2>1, CallMoves
  <2>3. Begin(w, c) /\ gauges' = gauges /\ status' = status
    BY <1>3, <2>1 DEF UseSession, collected
  <2>4. After(c, j) = status[j]
    BY <1>0, <2>2, <2>3 DEF After
  <2> QED
    BY <1>1, <2>2, <2>3, <2>4
<1>4. CASE ExpireSession(w, j)
  <2>1. PICK c : c = [at |-> "removed", id |-> j, last |-> status[j]]
    OBVIOUS
  <2>2. c \in CallStates /\ c.id = j /\ c.at = "removed" /\ c.last = status[j]
    BY <1>4, <2>1, CallMoves DEF ExpireSession, Known
  <2>3. Begin(w, c) /\ gauges' = gauges
    BY <1>4, <2>1 DEF ExpireSession, collected
  <2>4. status'[j] = "gone" /\ \A i \in Session : i # j => status'[i] = status[i]
    BY <1>4 DEF ExpireSession, MetricsTypeOK
  <2>5. After(c, j) = status[j]
    BY <1>0, <2>2 DEF After
  <2> QED
    BY <1>1, <2>2, <2>3, <2>4, <2>5
<1>5. CASE \E new \in Changes : UpdateStatus(w, j, new)
  <2>1. PICK new \in Changes : UpdateStatus(w, j, new)
    BY <1>5
  <2>2. PICK c : c = [at |-> "read", id |-> j, old |-> status[j], new |-> new]
    OBVIOUS
  <2>3. status[j] \in Status
    BY <2>1 DEF UpdateStatus, Known
  <2>4. c \in CallStates /\ c.id = j /\ c.at = "read" /\ c.old = status[j]
    BY <1>0, <2>2, <2>3, CallMoves
  <2>5. Begin(w, c) /\ gauges' = gauges /\ status' = status
    BY <2>1, <2>2 DEF UpdateStatus, collected, registryVars
  <2>6. After(c, j) = status[j]
    BY <1>0, <2>4 DEF After
  <2> QED
    BY <1>1, <2>3, <2>4, <2>5, <2>6
<1> QED
  BY <1>2, <1>3, <1>4, <1>5

\* Nothing that the invariant compares changes.
LEMMA RegistryRests ==
    ASSUME MetricsInv, overlapped' = overlapped, call' = call, status' = status,
           \A s \in Counted : gauges'[s] <= gauges[s] \/ gauges'[s] = 0,
           MetricsTypeOK, MetricsTypeOK'
    PROVE  MetricsInv'
<1> SUFFICES ASSUME overlapped' = {} PROVE MetricsInv'
  BY DEF MetricsInv
<1>1. OneCaller' /\ \A w \in Worker : Remembers(w)'
  BY DEF MetricsInv, OneCaller, Remembers, Known
<1>2. ASSUME NEW s \in Counted PROVE gauges'[s] <= Cardinality(Real(s)')
  <2>1. \A i \in Session : RecordedStatus(i)' = RecordedStatus(i)
    BY DEF RecordedStatus, InCall, At
  <2>2. Real(s)' = Real(s)
    BY <2>1 DEF Real
  <2>3. Cardinality(Real(s)) \in Nat
    <3>1. Real(s) \subseteq Session
      BY DEF Real
    <3> QED
      BY <3>1, MetricsAssumption, FS_Subset, FS_CardinalityType
  <2>4. gauges[s] <= Cardinality(Real(s)) /\ gauges[s] \in Nat /\ gauges'[s] \in Nat
    BY DEF MetricsInv, MetricsTypeOK
  <2> QED
    BY <2>2, <2>3, <2>4
<1> QED
  BY <1>1, <1>2 DEF MetricsInv

\* MetricsInv is inductive, beside the types.
LEMMA MetricsKeepInv ==
    MetricsTypeOK /\ MetricsInv /\ [MetricsNext]_metricsVars => MetricsInv'
<1> SUFFICES ASSUME MetricsTypeOK, MetricsInv, [MetricsNext]_metricsVars PROVE MetricsInv'
  OBVIOUS
<1>0. MetricsTypeOK'
  BY MetricsKeepTypes
<1>1. CASE \E w \in Worker :
              \/ CallStep(w)
              \/ \E i \in Session :
                    \/ CreateSession(w, i) \/ UseSession(w, i) \/ ExpireSession(w, i)
                    \/ \E new \in Changes : UpdateStatus(w, i, new)
  <2>1. CASE overlapped' = {}
    BY <1>1, <2>1, CallStepsKeepInv, BeginsKeepInv
  <2>2. CASE overlapped' # {}
    BY <2>2 DEF MetricsInv
  <2> QED
    BY <2>1, <2>2
<1>2. CASE Reset
  BY <1>0, <1>2, RegistryRests DEF Reset, NoGauges, registryVars
<1>3. CASE CleanupOldHistory \/ TimePasses \/ UNCHANGED metricsVars
  <2>1. /\ overlapped' = overlapped /\ call' = call /\ status' = status /\ gauges' = gauges
    BY <1>3 DEF CleanupOldHistory, TimePasses, metricsVars, registryVars, collected
  <2>2. \A s \in Counted : gauges'[s] <= gauges[s]
    BY <2>1 DEF MetricsTypeOK
  <2> QED
    BY <1>0, <2>1, <2>2, RegistryRests
<1> QED
  BY <1>1, <1>2, <1>3 DEF MetricsNext

\* As long as no two calls of the session manager overlap on a session, no gauge of
\* SessionMetricsCollector shows more sessions than have been recorded under its
\* status, whenever the metrics are reset and whichever calls are under way.
THEOREM GaugeAlwaysWithinReal == MetricsSpec => []GaugeWithinReal
<1>1. MetricsInit => MetricsTypeOK /\ MetricsInv
  <2> SUFFICES ASSUME MetricsInit PROVE MetricsTypeOK /\ MetricsInv
    OBVIOUS
  <2>1. MetricsTypeOK
    BY DEF MetricsInit, MetricsTypeOK, NoGauges
  <2>2. OneCaller /\ \A w \in Worker : Remembers(w)
    BY DEF MetricsInit, OneCaller, Remembers
  <2>3. ASSUME NEW s \in Counted PROVE gauges[s] <= Cardinality(Real(s))
    <3>1. Real(s) \subseteq Session
      BY DEF Real
    <3>2. Cardinality(Real(s)) \in Nat
      BY <3>1, MetricsAssumption, FS_Subset, FS_CardinalityType
    <3> QED
      BY <3>2 DEF MetricsInit, NoGauges
  <2> QED
    BY <2>1, <2>2, <2>3 DEF MetricsInv
<1>2. MetricsTypeOK /\ MetricsInv => GaugeWithinReal
  BY DEF MetricsInv, GaugeWithinReal, Real
<1> QED
  BY <1>1, <1>2, MetricsKeepTypes, MetricsKeepInv, PTL DEF MetricsSpec

-----------------------------------------------------------------------------
(* The SSH transport                                                       *)

\* The number of commands of a connection.
Commands(c) == IF ~upload[c] THEN 1 ELSE IF chunks = 1 THEN 2 ELSE chunks + 2

\* What connect sends: the parts in their order, then the permissions, unless the
\* first command has set them, and the start at last.
LEMMA ScriptShape ==
    ASSUME chunks \in Nat \ {0}, NEW c
    PROVE  /\ Commands(c) \in Nat \ {0}
           /\ DOMAIN Script(c) = 1..Commands(c) /\ Len(Script(c)) = Commands(c)
           /\ \A n \in 1..Commands(c) : Script(c)[n].do = "run" <=> n = Commands(c)
           /\ upload[c] =>
                 /\ chunks < Commands(c)
                 /\ \A n \in 1..Commands(c) :
                       /\ Script(c)[n].do \in {"create", "write_all"} <=> n = 1
                       /\ Script(c)[n].do = "write_all" <=> n = 1 /\ chunks = 1
                       /\ Script(c)[n].do = "append" <=> n \in 2..chunks
                       /\ Script(c)[n].do = "chmod" <=> n = chunks + 1 /\ chunks > 1
                       /\ n \in 1..chunks => Script(c)[n].part = n
<1> DEFINE parts == [n \in 1..(chunks - 1) |-> [do |-> "append", part |-> n + 1]]
           run == <<[do |-> "run", part |-> 0]>>
           first == <<[do |-> "create", part |-> 1]>>
           last == <<[do |-> "chmod", part |-> 0]>>
           R == [do : {"create", "write_all", "append", "chmod", "run"}, part : Nat]
<1>1. CASE ~upload[c]
  <2>1. Script(c) = <<>> \o run
    BY <1>1 DEF Script
  <2>2. Script(c) = run
    BY <2>1
  <2> QED
    BY <1>1, <2>2 DEF Commands
<1>2. CASE upload[c] /\ chunks = 1
  <2> DEFINE all == <<[do |-> "write_all", part |-> 1]>>
  <2>1. Script(c) = all \o run
    BY <1>2 DEF Script
  <2>2. /\ all \in Seq(R) /\ Len(all) = 1 /\ all[1] = [do |-> "write_all", part |-> 1]
        /\ run \in Seq(R) /\ Len(run) = 1 /\ run[1] = [do |-> "run", part |-> 0]
    OBVIOUS
  <2> HIDE DEF all, run, R
  <2>3. /\ Script(c) \in Seq(R) /\ Len(Script(c)) = 2
        /\ Script(c)[1] = [do |-> "write_all", part |-> 1]
        /\ Script(c)[2] = [do |-> "run", part |-> 0]
    BY <2>1, <2>2, ConcatProperties
  <2>4. Commands(c) = 2 /\ DOMAIN Script(c) = 1..2
    BY <1>2, <2>3 DEF Commands
  <2> QED
    BY <1>2, <2>3, <2>4
<1>3. CASE upload[c] /\ chunks # 1
  <2>1. Script(c) = (first \o parts \o last) \o run
    BY <1>3 DEF Script
  <2>2. /\ parts \in Seq(R) /\ Len(parts) = chunks - 1
        /\ \A n \in 1..(chunks - 1) : parts[n] = [do |-> "append", part |-> n + 1]
    BY <1>3
  <2>3. /\ first \in Seq(R) /\ Len(first) = 1 /\ first[1] = [do |-> "create", part |-> 1]
        /\ last \in Seq(R) /\ Len(last) = 1 /\ last[1] = [do |-> "chmod", part |-> 0]
        /\ run \in Seq(R) /\ Len(run) = 1 /\ run[1] = [do |-> "run", part |-> 0]
    OBVIOUS
  <2> HIDE DEF parts, first, last, run, R
  <2>4. /\ first \o parts \in Seq(R) /\ Len(first \o parts) = chunks
        /\ (first \o parts)[1] = [do |-> "create", part |-> 1]
        /\ \A n \in 2..chunks : (first \o parts)[n] = [do |-> "append", part |-> n]
    <3>0. first \in Seq(R) /\ parts \in Seq(R)
      BY <2>2, <2>3
    <3>1. /\ first \o parts \in Seq(R) /\ Len(first \o parts) = Len(first) + Len(parts)
          /\ \A i \in 1..(Len(first) + Len(parts)) :
                (first \o parts)[i] = IF i <= Len(first) THEN first[i] ELSE parts[i - Len(first)]
      BY <3>0, ConcatProperties
    <3> QED
      BY <1>3, <2>2, <2>3, <3>1
  <2>5. /\ first \o parts \o last \in Seq(R) /\ Len(first \o parts \o last) = chunks + 1
        /\ (first \o parts \o last)[1] = [do |-> "create", part |-> 1]
        /\ \A n \in 2..chunks : (first \o parts \o last)[n] = [do |-> "append", part |-> n]
        /\ (first \o parts \o last)[chunks + 1] = [do |-> "chmod", part |-> 0]
    <3> DEFINE s == first \o parts
    <3>1. s \in Seq(R) /\ last \in Seq(R)
      BY <2>3, <2>4
    <3> HIDE DEF s
    <3>2. /\ s \o last \in Seq(R) /\ Len(s \o last) = Len(s) + Len(last)
          /\ \A i \in 1..(Len(s) + Len(last)) :
                (s \o last)[i] = IF i <= Len(s) THEN s[i] ELSE last[i - Len(s)]
      BY <3>1, ConcatProperties
    <3>3. /\ Len(s) = chunks /\ s[1] = [do |-> "create", part |-> 1]
          /\ \A n \in 2..chunks : s[n] = [do |-> "append", part |-> n]
      BY <2>4 DEF s
    <3>4. /\ s \o last \in Seq(R) /\ Len(s \o last) = chunks + 1
          /\ (s \o last)[1] = [do |-> "create", part |-> 1]
          /\ \A n \in 2..chunks : (s \o last)[n] = [do |-> "append", part |-> n]
          /\ (s \o last)[chunks + 1] = [do |-> "chmod", part |-> 0]
      BY <1>3, <2>3, <3>2, <3>3
    <3> QED
      BY <3>4 DEF s
  <2>6. /\ Script(c) \in Seq(R) /\ Len(Script(c)) = chunks + 2
        /\ Script(c)[1] = [do |-> "create", part |-> 1]
        /\ \A n \in 2..chunks : Script(c)[n] = [do |-> "append", part |-> n]
        /\ Script(c)[chunks + 1] = [do |-> "chmod", part |-> 0]
        /\ Script(c)[chunks + 2] = [do |-> "run", part |-> 0]
    <3> DEFINE s == first \o parts \o last
    <3>1. s \in Seq(R) /\ run \in Seq(R)
      BY <2>3, <2>5
    <3> HIDE DEF s
    <3>2. /\ s \o run \in Seq(R) /\ Len(s \o run) = Len(s) + Len(run)
          /\ \A i \in 1..(Len(s) + Len(run)) :
                (s \o run)[i] = IF i <= Len(s) THEN s[i] ELSE run[i - Len(s)]
      BY <3>1, ConcatProperties
    <3>3. /\ Len(s) = chunks + 1 /\ s[1] = [do |-> "create", part |-> 1]
          /\ \A n \in 2..chunks : s[n] = [do |-> "append", part |-> n]
          /\ s[chunks + 1] = [do |-> "chmod", part |-> 0]
      BY <2>5 DEF s
    <3>4. Script(c) = s \o run
      BY <2>1 DEF s
    <3> QED
      BY <1>3, <2>3, <3>2, <3>3, <3>4
  <2>7. Commands(c) = chunks + 2 /\ DOMAIN Script(c) = 1..(chunks + 2)
    BY <1>3, <2>6 DEF Commands
  <2>8. ASSUME NEW n \in 1..Commands(c)
        PROVE  \/ n = 1 /\ Script(c)[n] = [do |-> "create", part |-> 1]
               \/ n \in 2..chunks /\ Script(c)[n] = [do |-> "append", part |-> n]
               \/ n = chunks + 1 /\ Script(c)[n] = [do |-> "chmod", part |-> 0]
               \/ n = chunks + 2 /\ Script(c)[n] = [do |-> "run", part |-> 0]
    <3>1. n \in Nat /\ (n = 1 \/ n \in 2..chunks \/ n = chunks + 1 \/ n = chunks + 2)
      BY <1>3, <2>7
    <3> QED
      BY <2>6, <3>1
  <2>9. \A n \in 1..Commands(c) :
           /\ Script(c)[n].do = "run" <=> n = Commands(c)
           /\ Script(c)[n].do \in {"create", "write_all"} <=> n = 1
           /\ Script(c)[n].do = "write_all" <=> n = 1 /\ chunks = 1
           /\ Script(c)[n].do = "append" <=> n \in 2..chunks
           /\ Script(c)[n].do = "chmod" <=> n = chunks + 1 /\ chunks > 1
           /\ n \in 1..chunks => Script(c)[n].part = n
    BY <1>3, <2>7, <2>8
  <2> QED
    BY <1>3, <2>6, <2>7, <2>9
<1> QED
  BY <1>1, <1>2, <1>3

CommandState == {"none", "started", "open", "done"}

SshTypeOK ==
    /\ upload \in [Connection -> BOOLEAN] /\ chunks \in Nat \ {0}
    /\ sent \in [Connection -> Nat]
    /\ command = [c \in Connection |-> command[c]]
    /\ \A c \in Connection : command[c] \in [1..Commands(c) -> CommandState]
    /\ remote = [c \in Connection |-> remote[c]]
    /\ mode \in {"none", "plain", "executable"}

\* One command of one connection goes on.
LEMMA CommandMoves ==
    ASSUME SshTypeOK, NEW c \in Connection, NEW n \in 1..Commands(c), NEW s \in CommandState,
           command' = [command EXCEPT ![c][n] = s]
    PROVE  /\ command' = [d \in Connection |-> command'[d]]
           /\ \A d \in Connection : d # c => command'[d] = command[d]
           /\ command'[c] \in [1..Commands(c) -> CommandState]
           /\ \A m \in 1..Commands(c) :
                 command'[c][m] = IF m = n THEN s ELSE command[c][m]
<1>1. command' = [command EXCEPT ![c] = [command[c] EXCEPT ![n] = s]]
  OBVIOUS
<1>2. command[c] \in [1..Commands(c) -> CommandState]
  BY DEF SshTypeOK
<1>3. PICK f : f = [command[c] EXCEPT ![n] = s]
  OBVIOUS
<1>4. /\ f \in [1..Commands(c) -> CommandState]
      /\ \A m \in 1..Commands(c) : f[m] = IF m = n THEN s ELSE command[c][m]
  BY <1>2, <1>3
<1>5. command' = [command EXCEPT ![c] = f]
  BY <1>1, <1>3
<1>6. command = [d \in Connection |-> command[d]]
  BY DEF SshTypeOK
<1>7. command'[c] = f /\ \A d \in Connection : d # c => command'[d] = command[d]
  BY <1>5, <1>6
<1>8. command' = [d \in Connection |-> command'[d]]
  BY <1>5, <1>6
<1> QED
  BY <1>4, <1>7, <1>8

\* No command of the connection overlapped another, and nobody touched its upload.
Quiet(c) == c \notin overlap \cup disturbed

\* The commands are sent in order; without overlaps all but the last are done.
InOrder(c) ==
    /\ sent[c] <= Commands(c)
    /\ \A n \in 1..Commands(c) :
          /\ command[c][n] = "none" <=> n > sent[c]
          /\ c \notin overlap /\ n < sent[c] => command[c][n] = "done"
          /\ command[c][n] = "open" => upload[c]
    /\ remote[c] # <<>> => command[c][Commands(c)] = "done"

\* The command before the last leaves the file executable.
Permitted(c) ==
    upload[c] /\ Quiet(c) /\ command[c][Commands(c) - 1] = "done" => mode = "executable"

\* A connection that has written to the file has made it.
Made(c) == upload[c] /\ Quiet(c) /\ command[c][1] \in {"open", "done"} => mode # "none"

\* The parts whose commands are done are in the file, in order, and no others.
Filled(c) ==
    upload[c] /\ Quiet(c) /\ remote[c] = <<>> =>
        /\ command[c][1] = "open" => file = <<>>
        /\ \A k \in 1..chunks :
              command[c][k] = "done" /\ (k < chunks => command[c][k + 1] # "done")
              => file = [n \in 1..k |-> n]

RunsWhole(c) == remote[c] # <<>> /\ Quiet(c) => remote[c] = <<Binary>>

UploadInv(c) == InOrder(c) /\ Permitted(c) /\ Made(c) /\ Filled(c) /\ RunsWhole(c)

SshInv == SshTypeOK /\ \A c \in Connection : UploadInv(c)

\* What a step of another connection may do to this one.
LEMMA StepElsewhere ==
    ASSUME SshTypeOK, NEW c \in Connection, UploadInv(c), UNCHANGED connectVars,
           command'[c] = command[c], sent'[c] = sent[c], remote'[c] = remote[c],
           c \in overlap => c \in overlap', c \in disturbed => c \in disturbed',
           mode # "none" => mode' # "none", mode = "executable" => mode' = "executable",
           file' = file \/ ~upload[c] \/ sent[c] = 0 \/ remote[c] # <<>> \/ c \in disturbed'
    PROVE  UploadInv(c)'
<1>1. /\ upload' = upload /\ chunks' = chunks /\ Commands(c)' = Commands(c)
      /\ Commands(c) \in Nat /\ (upload[c] => Commands(c) > chunks) /\ Binary' = Binary
      /\ chunks \in Nat \ {0}
  BY ScriptShape DEF connectVars, Commands, Binary, SshTypeOK
<1>2. Quiet(c)' => Quiet(c)
  BY DEF Quiet
<1>3. InOrder(c)'
  BY <1>1 DEF UploadInv, InOrder
<1>4. Permitted(c)' /\ Made(c)'
  BY <1>1, <1>2 DEF UploadInv, Permitted, Made
<1>5. Filled(c)'
  <2> SUFFICES ASSUME upload[c], Quiet(c), c \notin disturbed', remote[c] = <<>>
               PROVE  /\ command[c][1] = "open" => file' = <<>>
                      /\ \A k \in 1..chunks :
                            command[c][k] = "done" /\ (k < chunks => command[c][k + 1] # "done")
                            => file' = [n \in 1..k |-> n]
    BY <1>1, <1>2 DEF Filled, Quiet
  <2>1. CASE file' = file
    BY <2>1 DEF UploadInv, Filled
  <2>2. CASE sent[c] = 0
    <3>1. \A k \in 1..chunks : command[c][k] = "none"
      BY <1>1, <2>2 DEF UploadInv, InOrder
    <3> QED
      BY <1>1, <3>1
  <2> QED
    BY <2>1, <2>2
<1>6. RunsWhole(c)'
  BY <1>1, <1>2 DEF UploadInv, RunsWhole
<1> QED
  BY <1>3, <1>4, <1>5, <1>6 DEF UploadInv

\* Without overlaps only the last command that was sent can be running.
LEMMA RunningIsLast ==
    ASSUME SshTypeOK, NEW c \in Connection, InOrder(c), c \notin overlap,
           NEW n \in 1..Commands(c), command[c][n] \in {"started", "open"}
    PROVE  \A m \in 1..Commands(c) :
              (m < n => command[c][m] = "done") /\ (m > n => command[c][m] = "none")
<1>1. Commands(c) \in Nat /\ sent[c] \in Nat
  BY ScriptShape DEF SshTypeOK
<1>2. ~(n > sent[c]) /\ ~(n < sent[c])
  BY <1>1 DEF InOrder
<1>3. n = sent[c]
  BY <1>1, <1>2
<1> QED
  BY <1>1, <1>3 DEF InOrder

\* What the shell of a connection's own command does to the order.
LEMMA CommandKeepsOrder ==
    ASSUME SshTypeOK, NEW c \in Connection, InOrder(c), UNCHANGED <<connectVars, sent, overlap>>,
           NEW n \in 1..Commands(c), NEW s \in {"open", "done"},
           command[c][n] \in {"started", "open"},
           command' = [command EXCEPT ![c][n] = s],
           s = "open" => upload[c],
           remote'[c] # <<>> => remote[c] # <<>> \/ (n = Commands(c) /\ s = "done")
    PROVE  InOrder(c)'
<1>1. /\ upload' = upload /\ chunks' = chunks /\ Commands(c)' = Commands(c)
      /\ sent' = sent /\ overlap' = overlap /\ Commands(c) \in Nat \ {0} /\ sent[c] \in Nat
  BY ScriptShape DEF connectVars, Commands, SshTypeOK
<1>2. s \in CommandState
  BY DEF CommandState
<1>3. \A m \in 1..Commands(c) : command'[c][m] = IF m = n THEN s ELSE command[c][m]
  BY <1>2, CommandMoves
<1>4. ~(n > sent[c])
  BY DEF InOrder
<1>5. c \notin overlap => ~(n < sent[c])
  BY DEF InOrder
<1>6. ASSUME NEW m \in 1..Commands(c)
      PROVE  /\ command'[c][m] = "none" <=> m > sent[c]
             /\ c \notin overlap /\ m < sent[c] => command'[c][m] = "done"
             /\ command'[c][m] = "open" => upload[c]
  <2>1. CASE m = n
    BY <1>3, <1>4, <1>5, <2>1
  <2>2. CASE m # n
    BY <1>3, <2>2 DEF InOrder
  <2> QED
    BY <2>1, <2>2
<1>7. remote'[c] # <<>> => command'[c][Commands(c)] = "done"
  BY <1>1, <1>3 DEF InOrder
<1> QED
  BY <1>1, <1>6, <1>7 DEF InOrder

\* The constants of an upload.
LEMMA UploadConstants ==
    ASSUME SshTypeOK, NEW c, UNCHANGED connectVars
    PROVE  /\ upload' = upload /\ chunks' = chunks /\ Commands(c)' = Commands(c)
           /\ Binary' = Binary /\ Script(c)' = Script(c)
           /\ chunks \in Nat \ {0} /\ Commands(c) \in Nat \ {0}
           /\ upload[c] => chunks < Commands(c)
BY ScriptShape DEF connectVars, Commands, Binary, Script, SshTypeOK

\* connect sends the next command.
LEMMA SendKeepsInv ==
    ASSUME SshTypeOK, NEW c \in Connection, UploadInv(c), SendCommand(c)
    PROVE  UploadInv(c)'
<1>1. /\ sent[c] < Commands(c) /\ sent' = [sent EXCEPT ![c] = @ + 1]
      /\ overlap' = IF Unfinished(c) = {} THEN overlap ELSE overlap \cup {c}
      /\ command' = [command EXCEPT ![c][sent[c] + 1] = "started"]
      /\ UNCHANGED connectVars /\ UNCHANGED fileVars /\ remote' = remote
  BY ScriptShape DEF SendCommand, SshTypeOK
<1>2. /\ upload' = upload /\ chunks' = chunks /\ Commands(c)' = Commands(c) /\ Binary' = Binary
      /\ chunks \in Nat \ {0} /\ Commands(c) \in Nat \ {0}
      /\ upload[c] => chunks < Commands(c)
  BY <1>1, UploadConstants
<1>3. PICK n \in 1..Commands(c) : n = sent[c] + 1
  BY <1>1, <1>2 DEF SshTypeOK
<1>4. sent[c] \in Nat /\ sent'[c] = n /\ n = sent[c] + 1
  BY <1>1, <1>3 DEF SshTypeOK
<1>5. \A m \in 1..Commands(c) : command'[c][m] = IF m = n THEN "started" ELSE command[c][m]
  <2>1. command' = [command EXCEPT ![c][n] = "started"]
    BY <1>1, <1>3
  <2> QED
    BY <2>1, CommandMoves DEF CommandState
<1>6. c \notin overlap' => c \notin overlap /\ \A m \in 1..Commands(c) : m < n => command[c][m] = "done"
  <2> SUFFICES ASSUME c \notin overlap'
               PROVE  c \notin overlap /\ \A m \in 1..Commands(c) : m < n => command[c][m] = "done"
    OBVIOUS
  <2>1. c \notin overlap /\ Unfinished(c) = {}
    BY <1>1
  <2>2. \A m \in 1..Commands(c) : command[c][m] \notin {"started", "open"}
    BY <2>1, ScriptShape DEF Unfinished, SshTypeOK
  <2>3. \A m \in 1..Commands(c) : m < n => command[c][m] # "none"
    BY <1>4 DEF UploadInv, InOrder
  <2> QED
    BY <2>1, <2>2, <2>3 DEF SshTypeOK, CommandState
<1>7. InOrder(c)'
  <2>1. sent'[c] <= Commands(c)
    BY <1>1, <1>2, <1>4
  <2>2. ASSUME NEW m \in 1..Commands(c)
        PROVE  /\ command'[c][m] = "none" <=> m > sent'[c]
               /\ c \notin overlap' /\ m < sent'[c] => command'[c][m] = "done"
               /\ command'[c][m] = "open" => upload[c]
    <3>1. CASE m = n
      BY <1>4, <1>5, <3>1
    <3>2. CASE m # n
      BY <1>4, <1>5, <1>6, <3>2 DEF UploadInv, InOrder
    <3> QED
      BY <3>1, <3>2
  <2>3. remote'[c] # <<>> => command'[c][Commands(c)] = "done"
    <3>1. remote[c] # <<>> => ~(Commands(c) > sent[c])
      BY <1>2 DEF UploadInv, InOrder
    <3> QED
      BY <1>1, <1>2, <1>4, <3>1
  <2> QED
    BY <1>2, <2>1, <2>2, <2>3 DEF InOrder
<1>8. Quiet(c)' => Quiet(c)
  BY <1>1, <1>6 DEF Quiet, fileVars
<1>9. Permitted(c)' /\ Made(c)'
  BY <1>1, <1>2, <1>5, <1>8 DEF UploadInv, Permitted, Made, fileVars
<1>10. Filled(c)'
  <2>1. \A k \in 1..chunks : upload[c] /\ command'[c][k] = "done" => command[c][k] = "done"
    BY <1>2, <1>5
  <2>2. \A k \in 1..chunks : upload[c] => (command'[c][k + 1] = "done" <=> command[c][k + 1] = "done")
    <3>1. command[c][n] = "none"
      BY <1>4 DEF UploadInv, InOrder
    <3> QED
      BY <1>2, <1>5, <3>1
  <2>3. upload[c] /\ command'[c][1] = "open" => command[c][1] = "open"
    BY <1>2, <1>5
  <2> QED
    BY <1>1, <1>2, <1>8, <2>1, <2>2, <2>3 DEF UploadInv, Filled, fileVars
<1>11. RunsWhole(c)'
  BY <1>1, <1>2, <1>8 DEF UploadInv, RunsWhole
<1> QED
  BY <1>7, <1>9, <1>10, <1>11 DEF UploadInv

\* The shells of a connection's own commands.
LEMMA ShellKeepsInv ==
    ASSUME SshTypeOK, NEW c \in Connection, UploadInv(c), NEW n \in 1..Commands(c),
           ServerStep(c, n)
    PROVE  UploadInv(c)'
<1>1. UNCHANGED <<connectVars, sent, overlap>> /\ disturbed \subseteq disturbed'
  BY DEF ServerStep, OpenFile, WriteFirst, AppendPart, Chmod, RunRemote, CommandFails, Finish,
         Disturb, fileVars
<1>2. /\ upload' = upload /\ chunks' = chunks /\ Commands(c)' = Commands(c) /\ Binary' = Binary
      /\ chunks \in Nat \ {0} /\ Commands(c) \in Nat \ {0}
      /\ upload[c] => chunks < Commands(c)
  BY <1>1, UploadConstants
<1>3. Quiet(c)' => Quiet(c) /\ c \notin overlap
  BY <1>1 DEF Quiet
<1>4. \A m \in 1..Commands(c) :
         /\ Script(c)[m].do = "run" <=> m = Commands(c)
         /\ upload[c] =>
               /\ Script(c)[m].do \in {"create", "write_all"} <=> m = 1
               /\ Script(c)[m].do = "write_all" <=> m = 1 /\ chunks = 1
               /\ Script(c)[m].do = "append" <=> m \in 2..chunks
               /\ Script(c)[m].do = "chmod" <=> m = chunks + 1 /\ chunks > 1
               /\ m \in 1..chunks => Script(c)[m].part = m
  BY <1>2, ScriptShape
<1>5. ~upload[c] => Commands(c) = 1
  BY DEF Commands
<1>6. upload[c] => Commands(c) - 1 = IF chunks = 1 THEN 1 ELSE chunks + 1
  BY <1>2 DEF Commands
<1>7. InOrder(c) /\ Permitted(c) /\ Made(c) /\ Filled(c) /\ RunsWhole(c)
  BY DEF UploadInv
<1>8. ASSUME NEW s \in {"open", "done"}, command' = [command EXCEPT ![c][n] = s]
      PROVE  \A m \in 1..Commands(c) : command'[c][m] = IF m = n THEN s ELSE command[c][m]
  BY <1>8, CommandMoves DEF CommandState
<1>9. CASE OpenFile(c, n)
  <2>1. /\ command[c][n] = "started" /\ Script(c)[n].do \in {"create", "write_all", "append"}
        /\ file' = IF Script(c)[n].do = "append" THEN file ELSE <<>>
        /\ mode' = (IF mode = "none" THEN "plain" ELSE mode) /\ remote' = remote
        /\ command' = [command EXCEPT ![c][n] = "open"]
    BY <1>9 DEF OpenFile, Runs
  <2>2. upload[c] /\ n \in 1..chunks
    BY <1>2, <1>4, <1>5, <2>1
  <2>3. InOrder(c)'
    BY <1>1, <1>7, <2>1, <2>2, CommandKeepsOrder
  <2>4. \A m \in 1..Commands(c) : command'[c][m] = IF m = n THEN "open" ELSE command[c][m]
    BY <1>8, <2>1
  <2>5. Permitted(c)' /\ Made(c)'
    <3>1. mode' # "none" /\ (mode = "executable" => mode' = "executable")
      BY <2>1
    <3> QED
      BY <1>2, <1>3, <1>7, <2>4, <3>1 DEF Permitted, Made
  <2>6. Quiet(c)' => \A m \in 1..Commands(c) :
                        (m < n => command[c][m] = "done") /\ (m > n => command[c][m] = "none")
    BY <1>3, <1>7, <2>1, RunningIsLast
  <2>7. Filled(c)'
    <3>1. CASE n = 1
      <4>1. Quiet(c)' => \A k \in 1..chunks : command'[c][k] # "done"
        BY <1>2, <2>2, <2>4, <2>6, <3>1
      <4>2. file' = <<>>
        BY <1>4, <2>1, <2>2, <3>1
      <4> QED
        BY <1>2, <4>1, <4>2 DEF Filled
    <3>2. CASE n # 1
      <4>1. n \in 2..chunks /\ file' = file
        BY <1>4, <2>1, <2>2, <3>2
      <4>2. \A k \in 1..chunks : command'[c][k] = "done" <=> command[c][k] = "done"
        BY <1>2, <2>1, <2>4
      <4>3. \A k \in 1..chunks : k < chunks => k + 1 \in 1..chunks
        BY <1>2
      <4>4. Quiet(c)' => command'[c][1] # "open"
        BY <1>2, <2>4, <2>6, <4>1
      <4> QED
        BY <1>2, <1>3, <1>7, <2>1, <4>1, <4>2, <4>3, <4>4 DEF Filled
    <3> QED
      BY <3>1, <3>2
  <2>8. RunsWhole(c)'
    BY <1>2, <1>3, <1>7, <2>1 DEF RunsWhole
  <2> QED
    BY <2>3, <2>5, <2>7, <2>8 DEF UploadInv
<1>10. CASE WriteFirst(c, n)
  <2>1. /\ command[c][n] = "open" /\ remote' = remote
        /\ Script(c)[n].do \in {"create", "write_all"}
        /\ file' = <<Script(c)[n].part>> \o SubSeq(file, 2, Len(file))
        /\ command' = [command EXCEPT ![c][n] = "done"]
        /\ mode' = IF Script(c)[n].do = "write_all" THEN "executable" ELSE mode
    BY <1>10 DEF WriteFirst, Finish, Writes
  <2>2. upload[c] /\ n = 1
    BY <1>2, <1>4, <1>5, <2>1
  <2>3. InOrder(c)'
    BY <1>1, <1>7, <2>1, <2>2, CommandKeepsOrder
  <2>4. \A m \in 1..Commands(c) : command'[c][m] = IF m = 1 THEN "done" ELSE command[c][m]
    BY <1>8, <2>1, <2>2
  <2>5. Permitted(c)'
    <3>1. CASE chunks = 1
      BY <1>2, <1>4, <2>1, <2>2, <3>1 DEF Permitted
    <3>2. CASE chunks # 1
      <4>1. Script(c)[n].do # "write_all"
        BY <1>4, <2>2, <3>2
      <4>2. mode' = mode
        BY <2>1, <4>1
      <4>3. Commands(c) - 1 \in 1..Commands(c) /\ Commands(c) - 1 # 1
        BY <1>2, <1>6, <2>2, <3>2
      <4>4. command'[c][Commands(c) - 1] = command[c][Commands(c) - 1]
        BY <2>4, <4>3
      <4> QED
        BY <1>2, <1>3, <1>7, <4>2, <4>4 DEF Permitted
    <3> QED
      BY <3>1, <3>2
  <2>6. Quiet(c)' => \A m \in 1..Commands(c) : m > 1 => command[c][m] = "none"
    BY <1>3, <1>7, <2>1, <2>2, RunningIsLast
  <2>7. Quiet(c)' => \A k \in 1..chunks : command'[c][k] = "done" => k = 1
    BY <1>2, <2>2, <2>4, <2>6
  <2>8. Quiet(c)' /\ remote[c] = <<>> => file' = [m \in 1..1 |-> m]
    <3> SUFFICES ASSUME Quiet(c)', remote[c] = <<>> PROVE file' = [m \in 1..1 |-> m]
      OBVIOUS
    <3>1. file = <<>> /\ Script(c)[n].part = 1
      BY <1>2, <1>3, <1>4, <1>7, <2>1, <2>2 DEF Filled
    <3>2. SubSeq(file, 2, Len(file)) = <<>>
      BY <3>1
    <3>3. file' = <<1>> \o <<>>
      BY <2>1, <3>1, <3>2
    <3>4. file' = <<1>>
      BY <3>3
    <3> QED
      BY <3>4
  <2>9. Filled(c)'
    <3>1. command'[c][1] # "open"
      BY <1>2, <2>4
    <3> QED
      BY <1>2, <2>1, <2>7, <2>8, <3>1 DEF Filled
  <2>10. RunsWhole(c)'
    BY <1>2, <1>3, <1>7, <2>1 DEF RunsWhole
  <2>11. Made(c)'
    <3>1. mode # "none" => mode' # "none"
      BY <2>1
    <3> QED
      BY <1>2, <1>3, <1>7, <2>1, <2>2, <3>1 DEF Made
  <2> QED
    BY <2>3, <2>5, <2>9, <2>10, <2>11 DEF UploadInv
<1>11. CASE AppendPart(c, n)
  <2>1. /\ command[c][n] = "open" /\ Script(c)[n].do = "append" /\ remote' = remote
        /\ file' = Append(file, Script(c)[n].part) /\ mode' = mode
        /\ command' = [command EXCEPT ![c][n] = "done"]
    BY <1>11 DEF AppendPart, Finish, Writes
  <2>2. upload[c] /\ n \in 2..chunks
    BY <1>2, <1>4, <1>5, <2>1
  <2>3. InOrder(c)'
    BY <1>1, <1>7, <2>1, CommandKeepsOrder
  <2>4. \A m \in 1..Commands(c) : command'[c][m] = IF m = n THEN "done" ELSE command[c][m]
    BY <1>8, <2>1
  <2>5. Permitted(c)' /\ Made(c)'
    <3>1. command'[c][Commands(c) - 1] = command[c][Commands(c) - 1]
      BY <1>2, <1>6, <2>2, <2>4
    <3> QED
      BY <1>2, <1>3, <1>7, <2>1, <2>2, <2>4, <3>1 DEF Permitted, Made
  <2>6. Quiet(c)' => \A m \in 1..Commands(c) :
                        (m < n => command[c][m] = "done") /\ (m > n => command[c][m] = "none")
    BY <1>3, <1>7, <2>1, RunningIsLast
  <2>7. Quiet(c)' /\ remote[c] = <<>> => file' = [m \in 1..n |-> m]
    <3> SUFFICES ASSUME Quiet(c)', remote[c] = <<>> PROVE file' = [m \in 1..n |-> m]
      OBVIOUS
    <3>1. n - 1 \in 1..chunks /\ n - 1 < chunks /\ (n - 1) + 1 = n /\ n - 1 \in 1..Commands(c)
      BY <1>2, <2>2
    <3>2. command[c][n - 1] = "done" /\ command[c][(n - 1) + 1] # "done"
      BY <2>1, <2>6, <3>1
    <3>3. file = [m \in 1..(n - 1) |-> m]
      BY <1>3, <1>7, <2>2, <3>1, <3>2 DEF Filled
    <3>4. file' = Append(file, n)
      BY <1>4, <2>1, <2>2
    <3> QED
      BY <2>2, <3>3, <3>4
  <2>8. Quiet(c)' => \A k \in 1..chunks :
            command'[c][k] = "done" /\ (k < chunks => command'[c][k + 1] # "done") => k = n
    BY <1>2, <2>2, <2>4, <2>6
  <2>9. Quiet(c)' => command'[c][1] # "open"
    BY <1>2, <2>2, <2>4, <2>6
  <2>10. Filled(c)'
    BY <1>2, <2>1, <2>7, <2>8, <2>9 DEF Filled
  <2>11. RunsWhole(c)'
    BY <1>2, <1>3, <1>7, <2>1 DEF RunsWhole
  <2> QED
    BY <2>3, <2>5, <2>10, <2>11 DEF UploadInv
<1>12. CASE CommandFails(c, n)
  <2>1. /\ command[c][n] \in {"started", "open"} /\ c \in disturbed'
        /\ command' = [command EXCEPT ![c][n] = "done"]
        /\ remote' = IF Script(c)[n].do = "run" THEN [remote EXCEPT ![c] = << <<>> >>]
                     ELSE remote
    BY <1>12 DEF CommandFails, Finish
  <2>2. InOrder(c)'
    <3>1. remote' = remote \/ n = Commands(c)
      BY <1>4, <2>1
    <3> QED
      BY <1>1, <1>7, <2>1, <3>1, CommandKeepsOrder
  <2>3. ~Quiet(c)'
    BY <2>1 DEF Quiet
  <2> QED
    BY <2>2, <2>3 DEF UploadInv, Permitted, Made, Filled, RunsWhole
<1>13. CASE Chmod(c, n)
  <2>1. /\ command[c][n] = "started" /\ Script(c)[n].do = "chmod" /\ remote' = remote
        /\ file' = file /\ mode' = "executable"
        /\ command' = [command EXCEPT ![c][n] = "done"]
    BY <1>13 DEF Chmod, Finish, Runs
  <2>2. upload[c] /\ n = chunks + 1 /\ chunks > 1
    BY <1>2, <1>4, <1>5, <2>1
  <2>3. InOrder(c)'
    BY <1>1, <1>7, <2>1, CommandKeepsOrder
  <2>4. \A m \in 1..Commands(c) : command'[c][m] = IF m = n THEN "done" ELSE command[c][m]
    BY <1>8, <2>1
  <2>5. Permitted(c)' /\ Made(c)'
    BY <2>1 DEF Permitted, Made
  <2>6. \A k \in 1..chunks : command'[c][k] = command[c][k]
    BY <1>2, <2>2, <2>4
  <2>7. \A k \in 1..chunks : k < chunks => command'[c][k + 1] = command[c][k + 1]
    BY <1>2, <2>2, <2>4
  <2>8. Filled(c)'
    BY <1>2, <1>3, <1>7, <2>1, <2>6, <2>7 DEF Filled
  <2>9. RunsWhole(c)'
    BY <1>2, <1>3, <1>7, <2>1 DEF RunsWhole
  <2> QED
    BY <2>3, <2>5, <2>8, <2>9 DEF UploadInv
<1>14. CASE RunRemote(c, n)
  <2>1. /\ command[c][n] = "started" /\ Script(c)[n].do = "run"
        /\ remote' = [remote EXCEPT ![c] =
                        <<IF ~upload[c] THEN Binary ELSE IF mode = "executable" THEN file
                          ELSE <<>> >>]
        /\ file' = file /\ mode' = mode /\ disturbed' = disturbed
        /\ command' = [command EXCEPT ![c][n] = "done"]
    BY <1>14 DEF RunRemote, Finish, Runs, fileVars
  <2>2. n = Commands(c)
    BY <1>4, <2>1
  <2>3. remote'[c] = <<IF ~upload[c] THEN Binary ELSE IF mode = "executable" THEN file
                       ELSE <<>> >>
    <3>1. remote = [d \in Connection |-> remote[d]]
      BY DEF SshTypeOK
    <3> QED
      BY <2>1, <3>1
  <2>4. InOrder(c)'
    BY <1>1, <1>7, <2>1, <2>2, CommandKeepsOrder
  <2>5. Filled(c)'
    <3>1. PICK x : remote'[c] = <<x>>
      BY <2>3
    <3>2. remote'[c] # <<>>
      BY <3>1
    <3> QED
      BY <3>2 DEF Filled
  <2>6. Permitted(c)' /\ Made(c)'
    <3>1. upload[c] => command'[c][Commands(c) - 1] = command[c][Commands(c) - 1]
      BY <1>2, <1>8, <2>1, <2>2
    <3>2. upload[c] => command'[c][1] = command[c][1]
      BY <1>2, <1>8, <2>1, <2>2
    <3> QED
      BY <1>2, <1>3, <1>7, <2>1, <3>1, <3>2 DEF Permitted, Made
  <2>7. RunsWhole(c)'
    <3> SUFFICES ASSUME Quiet(c)' PROVE remote'[c] = <<Binary>>
      BY <1>2 DEF RunsWhole
    <3>1. CASE ~upload[c]
      BY <2>3, <3>1
    <3>2. CASE upload[c]
      <4>1. remote[c] = <<>>
        BY <1>7, <2>1, <2>2 DEF InOrder
      <4>2. \A m \in 1..Commands(c) : m < n => command[c][m] = "done"
        BY <1>3, <1>7, <2>1, RunningIsLast
      <4>3. command[c][chunks] = "done" /\ command[c][Commands(c) - 1] = "done"
        BY <1>2, <2>2, <3>2, <4>2
      <4>4. mode = "executable"
        BY <1>3, <1>7, <3>2, <4>3 DEF Permitted
      <4>5. file = [m \in 1..chunks |-> m]
        BY <1>2, <1>3, <1>7, <3>2, <4>1, <4>3 DEF Filled
      <4> QED
        BY <2>3, <3>2, <4>4, <4>5 DEF Binary
    <3> QED
      BY <3>1, <3>2
  <2> QED
    BY <2>4, <2>5, <2>6, <2>7 DEF UploadInv
<1> QED
  BY <1>9, <1>10, <1>11, <1>12, <1>13, <1>14 DEF ServerStep

\* Sending and running commands keeps the types.
LEMMA CommandsKeepTypes ==
    ASSUME SshTypeOK, NEW c \in Connection,
           SendCommand(c) \/ \E n \in 1..Commands(c) : ServerStep(c, n)
    PROVE  SshTypeOK'
<1>1. UNCHANGED connectVars
  BY DEF SendCommand, ServerStep, OpenFile, WriteFirst, AppendPart, Chmod, RunRemote, CommandFails,
         Finish
<1>2. /\ upload' = upload /\ chunks' = chunks
      /\ \A d \in Connection : Commands(d)' = Commands(d)
  BY <1>1, UploadConstants
<1>3. sent' \in [Connection -> Nat]
  <2>1. sent' = sent \/ sent' = [sent EXCEPT ![c] = @ + 1]
    BY DEF SendCommand, ServerStep, OpenFile, WriteFirst, AppendPart, CommandFails, Chmod,
           RunRemote, Finish
  <2>2. sent \in [Connection -> Nat]
    BY DEF SshTypeOK
  <2> QED
    BY <2>1, <2>2
<1>4. PICK n \in 1..Commands(c) : \E s \in CommandState : command' = [command EXCEPT ![c][n] = s]
  <2>1. CASE SendCommand(c)
    <3>1. sent[c] + 1 \in 1..Commands(c)
      BY <2>1, ScriptShape DEF SendCommand, SshTypeOK
    <3> QED
      BY <2>1, <3>1 DEF SendCommand, CommandState
  <2>2. CASE \E n \in 1..Commands(c) : ServerStep(c, n)
    BY <2>2 DEF ServerStep, OpenFile, WriteFirst, AppendPart, Chmod, RunRemote, CommandFails,
                Finish, CommandState
  <2> QED
    BY <2>1, <2>2
<1>5. PICK s \in CommandState : command' = [command EXCEPT ![c][n] = s]
  BY <1>4
<1>6. /\ command' = [d \in Connection |-> command'[d]]
      /\ \A d \in Connection : d # c => command'[d] = command[d]
      /\ command'[c] \in [1..Commands(c) -> CommandState]
  BY <1>5, CommandMoves
<1>7. \A d \in Connection : command'[d] \in [1..Commands(d) -> CommandState]
  BY <1>6 DEF SshTypeOK
<1>8. remote' = [d \in Connection |-> remote'[d]]
  <2>1. remote = [d \in Connection |-> remote[d]]
    BY DEF SshTypeOK
  <2>2. remote' = remote \/ \E r : remote' = [remote EXCEPT ![c] = r]
    BY DEF SendCommand, ServerStep, OpenFile, WriteFirst, AppendPart, Chmod, RunRemote, CommandFails
  <2> QED
    BY <2>1, <2>2
<1>9. mode' \in {"none", "plain", "executable"}
  <2>1. mode \in {"none", "plain", "executable"}
    BY DEF SshTypeOK
  <2> QED
    BY <2>1 DEF SshTypeOK, SendCommand, ServerStep, OpenFile, WriteFirst, AppendPart, CommandFails,
                Chmod, RunRemote, fileVars
<1> QED
  BY <1>2, <1>3, <1>6, <1>7, <1>8, <1>9 DEF SshTypeOK

\* Sending and running commands of one connection is a step elsewhere for the others.
LEMMA CommandsElsewhere ==
    ASSUME SshTypeOK, NEW c \in Connection, NEW d \in Connection, d # c, UploadInv(d),
           SendCommand(c) \/ \E n \in 1..Commands(c) : ServerStep(c, n)
    PROVE  UploadInv(d)'
<1>1. UNCHANGED connectVars
  BY DEF SendCommand, ServerStep, OpenFile, WriteFirst, AppendPart, Chmod, RunRemote, CommandFails,
         Finish
<1>2. sent'[d] = sent[d]
  BY DEF SshTypeOK, SendCommand, ServerStep, OpenFile, WriteFirst, AppendPart, CommandFails, Chmod,
         RunRemote, Finish
<1>3. command'[d] = command[d]
  <2>1. command = [e \in Connection |-> command[e]]
    BY DEF SshTypeOK
  <2>2. \E f : command' = [command EXCEPT ![c] = f]
    BY DEF SendCommand, ServerStep, OpenFile, WriteFirst, AppendPart, Chmod, RunRemote, CommandFails,
           Finish
  <2> QED
    BY <2>1, <2>2
<1>4. remote'[d] = remote[d]
  <2>1. remote = [e \in Connection |-> remote[e]]
    BY DEF SshTypeOK
  <2>2. remote' = remote \/ \E r : remote' = [remote EXCEPT ![c] = r]
    BY DEF SendCommand, ServerStep, OpenFile, WriteFirst, AppendPart, Chmod, RunRemote, CommandFails
  <2> QED
    BY <2>1, <2>2
<1>5. (d \in overlap => d \in overlap') /\ (d \in disturbed => d \in disturbed')
  BY DEF SendCommand, ServerStep, OpenFile, WriteFirst, AppendPart, Chmod, RunRemote, CommandFails,
         Finish, Disturb, fileVars
<1>6. (mode # "none" => mode' # "none") /\ (mode = "executable" => mode' = "executable")
  BY DEF SendCommand, ServerStep, OpenFile, WriteFirst, AppendPart, Chmod, RunRemote, CommandFails,
         fileVars
<1>7. file' = file \/ Disturb(c)
  BY DEF SendCommand, ServerStep, OpenFile, WriteFirst, AppendPart, Chmod, RunRemote, CommandFails,
         fileVars
<1>8. file' = file \/ ~upload[d] \/ sent[d] = 0 \/ remote[d] # <<>> \/ d \in disturbed'
  <2>1. sent[d] \in Nat
    BY DEF SshTypeOK
  <2>2. sent[d] = 0 \/ sent[d] > 0
    BY <2>1
  <2> QED
    BY <1>7, <2>2 DEF Disturb
<1> QED
  BY <1>1, <1>2, <1>3, <1>4, <1>5, <1>6, <1>8, StepElsewhere

\* SshInv is inductive.
LEMMA SshStepsKeepInv == SshInv /\ [SshNext]_sshVars => SshInv'
<1> SUFFICES ASSUME SshInv, [SshNext]_sshVars PROVE SshInv'
  OBVIOUS
<1>1. SshTypeOK /\ \A d \in Connection : UploadInv(d)
  BY DEF SshInv
<1>2. ASSUME NEW c \in Connection, SendCommand(c) \/ \E n \in 1..Commands(c) : ServerStep(c, n)
      PROVE  SshInv'
  <2>1. SshTypeOK'
    BY <1>1, <1>2, CommandsKeepTypes
  <2>2. ASSUME NEW d \in Connection PROVE UploadInv(d)'
    <3>1. CASE d # c
      BY <1>1, <1>2, <3>1, CommandsElsewhere
    <3>2. UploadInv(c)'
      BY <1>1, <1>2, SendKeepsInv, ShellKeepsInv
    <3> QED
      BY <3>1, <3>2
  <2> QED
    BY <2>1, <2>2 DEF SshInv
<1>3. ASSUME UNCHANGED uploadVars PROVE SshInv'
  <2>1. /\ upload' = upload /\ chunks' = chunks /\ sent' = sent /\ command' = command
        /\ remote' = remote /\ mode' = mode /\ file' = file
        /\ overlap' = overlap /\ disturbed' = disturbed
    BY <1>3 DEF uploadVars, connectVars, fileVars
  <2>2. SshTypeOK'
    BY <1>1, <2>1 DEF SshTypeOK, Commands
  <2>3. ASSUME NEW d \in Connection PROVE UploadInv(d)'
    BY <1>1, <2>1, StepElsewhere DEF connectVars
  <2> QED
    BY <2>2, <2>3 DEF SshInv
<1>4. ASSUME NEW c \in Connection, PollRead(c) \/ \E size \in 1..MaxMessage : RemoteOutput(c, size)
      PROVE  UNCHANGED uploadVars
  BY <1>4 DEF PollRead, ReadBuffered, ReadQueued, RemoteOutput
<1>5. CASE UNCHANGED sshVars
  BY <1>3, <1>5 DEF sshVars, uploadVars
<1>6. CASE SshNext
  <2>1. PICK c \in Connection :
           \/ SendCommand(c) \/ PollRead(c)
           \/ \E n \in DOMAIN Script(c) : ServerStep(c, n)
           \/ \E size \in 1..MaxMessage : RemoteOutput(c, size)
    BY <1>6 DEF SshNext
  <2>2. DOMAIN Script(c) = 1..Commands(c)
    BY <1>1, ScriptShape DEF SshTypeOK
  <2> QED
    BY <1>2, <1>3, <1>4, <2>1, <2>2
<1> QED
  BY <1>5, <1>6

\* For any number of connections and any size of the binary: a connection whose
\* commands do not overlap, and whose upload nobody else writes into, starts the
\* remote process from the whole binary.
THEOREM SerialUploadAlwaysRuns == SshSpec => []SerialUploadRuns
<1>1. SshInit => SshInv
  <2> SUFFICES ASSUME SshInit PROVE SshInv
    OBVIOUS
  <2>1. chunks \in Nat \ {0}
    BY SshAssumption DEF SshInit
  <2>2. \A c \in Connection : command[c] = [n \in 1..Commands(c) |-> "none"]
    BY <2>1, ScriptShape DEF SshInit
  <2>3. SshTypeOK
    <3>1. command = [c \in Connection |-> command[c]] /\ remote = [c \in Connection |-> remote[c]]
      BY DEF SshInit
    <3> QED
      BY <2>1, <2>2, <3>1 DEF SshInit, SshTypeOK, CommandState
  <2>4. ASSUME NEW c \in Connection PROVE UploadInv(c)
    <3>1. Commands(c) \in Nat \ {0} /\ (upload[c] => chunks < Commands(c))
      BY <2>1, ScriptShape
    <3>2. \A n \in 1..Commands(c) : command[c][n] = "none"
      BY <2>2
    <3>3. sent[c] = 0 /\ remote[c] = <<>>
      BY DEF SshInit
    <3>4. InOrder(c)
      BY <3>1, <3>2, <3>3 DEF InOrder
    <3>5. Permitted(c) /\ Made(c) /\ Filled(c)
      BY <2>1, <3>1, <3>2 DEF Permitted, Made, Filled
    <3>6. RunsWhole(c)
      BY <3>3 DEF RunsWhole
    <3> QED
      BY <3>4, <3>5, <3>6 DEF UploadInv
  <2> QED
    BY <2>3, <2>4 DEF SshInv
<1>2. SshInv => SerialUploadRuns
  BY DEF SshInv, UploadInv, RunsWhole, Quiet, SerialUploadRuns
<1> QED
  BY <1>1, <1>2, SshStepsKeepInv, PTL DEF SshSpec

-----------------------------------------------------------------------------
(* The data of the SSH stream                                              *)

\* What the remote side writes: which command wrote it, and its number.
Datum == [from : Nat, datum : Nat]

\* The types of what the commands write and the stream reads.
StreamTypeOK ==
    /\ chunks \in Nat \ {0}
    /\ written \in [Connection -> Seq(Seq(Datum))] /\ queue \in [Connection -> Seq(Seq(Datum))]
    /\ read_buf \in [Connection -> Seq(Datum)] /\ consumed \in [Connection -> Seq(Datum)]

\* consumed, read_buf and the queue together.
Output(k, r, q) == k \o r \o FlattenSeq(q)

\* What connection c read, has in its buffer and has in its queue is what the remote
\* program wrote, unless it uploads in the short form, which writes to the same stream.
RemotesOnly(c) ==
    \/ upload[c] /\ chunks = 1
    \/ Output(consumed[c], read_buf[c], queue[c]) = FlattenSeq(written[c])

\* A message that arrives comes last.
LEMMA OutputAppend ==
  ASSUME NEW R, NEW k \in Seq(R), NEW r \in Seq(R), NEW q \in Seq(Seq(R)), NEW m \in Seq(R)
  PROVE  Joins(Output(k, r, q), m, Output(k, r, Append(q, m)))
<1>1. PICK kr \in Seq(R), f \in Seq(R) : kr = k \o r /\ f = FlattenSeq(q)
  BY ConcatProperties, FlattenSeqType
<1>2. FlattenSeq(Append(q, m)) = f \o m
  BY <1>1, FlattenSeqAppend
<1>3. Associates(kr, f, m)
  BY ConcatAssociates
<1> QED
  BY <1>1, <1>2, <1>3 DEF Output, Associates, Joins

\* Reading from the buffer moves data and changes nothing of the whole.
LEMMA OutputRead ==
  ASSUME NEW R, NEW k \in Seq(R), NEW x \in Seq(R), NEW y \in Seq(R), NEW q \in Seq(Seq(R)),
         NEW r, Joins(x, y, r)
  PROVE  Output(k \o x, y, q) = Output(k, r, q)
<1>1. Associates(k, x, y)
  BY ConcatAssociates
<1>2. (k \o x) \o y = k \o r
  BY <1>1 DEF Associates, Joins
<1> QED
  BY <1>2 DEF Output

\* Nor does taking the first message of the queue into the empty buffer.
LEMMA OutputTake ==
  ASSUME NEW R, NEW k \in Seq(R), NEW q \in Seq(Seq(R)), q # <<>>
  PROVE  Output(k, Head(q), Tail(q)) = Output(k, <<>>, q)
<1>1. PICK h \in Seq(R), t \in Seq(Seq(R)) : h = Head(q) /\ t = Tail(q)
  BY HeadTailProperties
<1>2. PICK f \in Seq(R) : f = FlattenSeq(t)
  BY FlattenSeqType
<1>3. FlattenSeq(q) = h \o f
  BY <1>1, <1>2, FlattenSeqHead
<1>4. Associates(k, h, f)
  BY ConcatAssociates
<1>5. k \o <<>> = k
  BY ConcatEmptySeq
<1> QED
  BY <1>1, <1>2, <1>3, <1>4, <1>5 DEF Output, Associates

\* First and Rest cut a sequence in two.
LEMMA FirstAndRest ==
  ASSUME NEW R, NEW s \in Seq(R), NEW n \in Nat \ {0}
  PROVE  /\ First(s, n) \in Seq(R) /\ Rest(s, n) \in Seq(R)
         /\ Joins(First(s, n), Rest(s, n), s)
<1>1. Len(s) \in Nat
  BY LenProperties
<1>2. CASE n <= Len(s)
  <2>1. n \in 1..Len(s)
    BY <1>1, <1>2
  <2>2. First(s, n) = SubSeq(s, 1, n)
    BY <1>1, <1>2 DEF First
  <2> QED
    BY <2>1, <2>2, SplitAt DEF Rest
<1>3. CASE ~(n <= Len(s))
  <2>1. First(s, n) = s
    BY <1>1, <1>3, SubSeqFull DEF First
  <2>2. Rest(s, n) = <<>>
    BY <1>1, <1>3, SubSeqEmpty DEF Rest
  <2>3. s \o <<>> = s /\ <<>> \in Seq(R)
    BY ConcatEmptySeq, EmptySeq
  <2> QED
    BY <2>1, <2>2, <2>3 DEF Joins
<1> QED
  BY <1>2, <1>3

\* A step that appends m to what c wrote and to its queue.
Outputs(c, m) ==
    /\ written' = [written EXCEPT ![c] = Append(@, m)]
    /\ queue' = [queue EXCEPT ![c] = Append(@, m)]
    /\ UNCHANGED <<connectVars, read_buf, consumed>>

\* A step that only adds to the queue of a connection that sends the short form.
Reports(c, m) ==
    /\ upload[c] /\ chunks = 1
    /\ queue' = [queue EXCEPT ![c] = Append(@, m)]
    /\ UNCHANGED <<connectVars, written, read_buf, consumed>>

\* What a step of the transport is to the stream: nothing, a read, an output of the
\* remote program, or a report of the short form.
LEMMA StreamSteps ==
  ASSUME StreamTypeOK, [SshNext]_sshVars
  PROVE  \/ UNCHANGED <<connectVars, streamVars>>
         \/ \E c \in Connection, n \in 1..MaxRead : ReadBuffered(c, n) \/ ReadQueued(c, n)
         \/ \E c \in Connection, m \in Seq(Datum) : Outputs(c, m) \/ Reports(c, m)
<1> USE DEF StreamTypeOK
<1>1. CASE UNCHANGED sshVars
  BY <1>1 DEF sshVars, connectVars, streamVars
<1>2. ASSUME NEW c \in Connection, SendCommand(c) \/ PollRead(c)
      PROVE  \/ UNCHANGED <<connectVars, streamVars>>
             \/ \E n \in 1..MaxRead : ReadBuffered(c, n) \/ ReadQueued(c, n)
  BY <1>2 DEF SendCommand, PollRead, connectVars, streamVars
<1>3. ASSUME NEW c \in Connection, NEW n \in DOMAIN Script(c), ServerStep(c, n)
      PROVE  \/ UNCHANGED <<connectVars, streamVars>>
             \/ \E m \in Seq(Datum) : Reports(c, m)
  <2>1. CASE OpenFile(c, n) \/ AppendPart(c, n) \/ Chmod(c, n) \/ RunRemote(c, n)
              \/ CommandFails(c, n)
    BY <2>1 DEF OpenFile, AppendPart, Chmod, RunRemote, CommandFails, Finish, connectVars, streamVars
  <2>2. CASE WriteFirst(c, n)
    <3>1. CASE Script(c)[n].do = "write_all"
      <4>1. upload[c] /\ chunks = 1 /\ n \in Nat
        <5>1. n \in 1..Commands(c) /\ Commands(c) \in Nat
          BY ScriptShape
        <5>2. n # Commands(c)
          BY <3>1, <5>1, ScriptShape
        <5>3. upload[c]
          BY <5>1, <5>2 DEF Commands
        <5> QED
          BY <3>1, <5>1, <5>3, ScriptShape
      <4>2. PICK d \in Datum : d = [from |-> n, datum |-> 0]
        BY <4>1 DEF Datum
      <4>3. PICK m \in Seq(Datum) : m = <<d>>
        <5>1. <<>> \in Seq(Datum) /\ Append(<<>>, d) = <<d>>
          BY EmptySeq
        <5> QED
          BY <5>1, AppendProperties
      <4>4. Reports(c, m)
        BY <2>2, <3>1, <4>1, <4>2, <4>3 DEF WriteFirst, Finish, HandlerData, Reports
      <4> QED
        BY <4>4
    <3>2. CASE Script(c)[n].do # "write_all"
      BY <2>2, <3>2 DEF WriteFirst, Finish, connectVars, streamVars
    <3> QED
      BY <3>1, <3>2
  <2> QED
    BY <1>3, <2>1, <2>2 DEF ServerStep
<1>4. ASSUME NEW c \in Connection, NEW size \in 1..MaxMessage, RemoteOutput(c, size)
      PROVE  \E m \in Seq(Datum) : Outputs(c, m)
  <2>1. PICK d : d = [from |-> Len(Script(c)), datum |-> Len(written[c]) + 1]
    OBVIOUS
  <2>2. Len(Script(c)) \in Nat /\ Len(written[c]) \in Nat
    BY ScriptShape, LenProperties
  <2>3. d \in Datum
    BY <2>1, <2>2 DEF Datum
  <2>4. PICK m : m = [k \in 1..size |-> d]
    OBVIOUS
  <2>5. m \in Seq(Datum)
    BY <2>3, <2>4, SshAssumption
  <2>6. Outputs(c, m)
    BY <1>4, <2>1, <2>4 DEF RemoteOutput, HandlerData, Outputs, uploadVars, connectVars
  <2> QED
    BY <2>5, <2>6
<1> QED
  BY <1>1, <1>2, <1>3, <1>4 DEF SshNext

\* The types are kept.
LEMMA StreamTypeKept ==
  ASSUME StreamTypeOK, [SshNext]_sshVars
  PROVE  StreamTypeOK'
<1> USE DEF StreamTypeOK
<1>1. CASE UNCHANGED <<connectVars, streamVars>>
  BY <1>1 DEF connectVars, streamVars
<1>2. ASSUME NEW c \in Connection, NEW n \in 1..MaxRead, ReadBuffered(c, n)
      PROVE  StreamTypeOK'
  <2>1. PICK x \in Seq(Datum), y \in Seq(Datum) :
          x = First(read_buf[c], n) /\ y = Rest(read_buf[c], n)
    <3>1. n \in Nat \ {0}
      BY SshAssumption
    <3> QED
      BY <3>1, FirstAndRest
  <2>2. consumed[c] \o x \in Seq(Datum)
    BY ConcatProperties
  <2> QED
    BY <1>2, <2>1, <2>2 DEF ReadBuffered, uploadVars, connectVars
<1>3. ASSUME NEW c \in Connection, NEW n \in 1..MaxRead, ReadQueued(c, n)
      PROVE  StreamTypeOK'
  <2>0. queue[c] \in Seq(Seq(Datum)) /\ queue[c] # <<>>
    BY <1>3 DEF ReadQueued
  <2>1. PICK h \in Seq(Datum), t \in Seq(Seq(Datum)) : h = Head(queue[c]) /\ t = Tail(queue[c])
    BY <2>0, HeadTailProperties
  <2>2. PICK x \in Seq(Datum), y \in Seq(Datum) : x = First(h, n) /\ y = Rest(h, n)
    <3>1. n \in Nat \ {0}
      BY SshAssumption
    <3> QED
      BY <3>1, FirstAndRest
  <2>3. consumed[c] \o x \in Seq(Datum)
    BY ConcatProperties
  <2> QED
    BY <1>3, <2>1, <2>2, <2>3 DEF ReadQueued, uploadVars, connectVars
<1>4. ASSUME NEW c \in Connection, NEW m \in Seq(Datum), Outputs(c, m) \/ Reports(c, m)
      PROVE  StreamTypeOK'
  <2>1. Append(queue[c], m) \in Seq(Seq(Datum)) /\ Append(written[c], m) \in Seq(Seq(Datum))
    BY AppendProperties
  <2> QED
    BY <1>4, <2>1 DEF Outputs, Reports, connectVars
<1> QED
  BY <1>1, <1>2, <1>3, <1>4, StreamSteps

\* Every step keeps what a connection has read and may still read.
LEMMA RemotesOnlyKept ==
  ASSUME StreamTypeOK, [SshNext]_sshVars, NEW d \in Connection, RemotesOnly(d)
  PROVE  RemotesOnly(d)'
<1> USE DEF StreamTypeOK, RemotesOnly
<1>0. /\ written[d] \in Seq(Seq(Datum)) /\ queue[d] \in Seq(Seq(Datum))
      /\ read_buf[d] \in Seq(Datum) /\ consumed[d] \in Seq(Datum)
  OBVIOUS
<1>1. CASE UNCHANGED <<connectVars, streamVars>>
  BY <1>1 DEF connectVars, streamVars
<1>2. ASSUME NEW c \in Connection, NEW n \in 1..MaxRead, ReadBuffered(c, n)
      PROVE  RemotesOnly(d)'
  <2>1. UNCHANGED <<upload, chunks, written, queue>>
    BY <1>2 DEF ReadBuffered, uploadVars, connectVars
  <2>2. CASE c # d
    <3>1. consumed'[d] = consumed[d] /\ read_buf'[d] = read_buf[d]
      BY <1>2, <2>2 DEF ReadBuffered
    <3> QED
      BY <2>1, <3>1
  <2>3. CASE c = d
    <3>1. PICK x \in Seq(Datum), y \in Seq(Datum) :
            x = First(read_buf[d], n) /\ y = Rest(read_buf[d], n) /\ Joins(x, y, read_buf[d])
      <4>1. n \in Nat \ {0}
        BY SshAssumption
      <4> QED
        BY <1>0, <4>1, FirstAndRest
    <3>2. consumed'[d] = consumed[d] \o x /\ read_buf'[d] = y
      BY <1>2, <2>3, <3>1 DEF ReadBuffered
    <3>3. Output(consumed[d] \o x, y, queue[d]) = Output(consumed[d], read_buf[d], queue[d])
      BY <1>0, <3>1, OutputRead
    <3> QED
      BY <2>1, <3>2, <3>3
  <2> QED
    BY <2>2, <2>3
<1>3. ASSUME NEW c \in Connection, NEW n \in 1..MaxRead, ReadQueued(c, n)
      PROVE  RemotesOnly(d)'
  <2>1. UNCHANGED <<upload, chunks, written>>
    BY <1>3 DEF ReadQueued, uploadVars, connectVars
  <2>2. CASE c # d
    <3>1. consumed'[d] = consumed[d] /\ read_buf'[d] = read_buf[d] /\ queue'[d] = queue[d]
      BY <1>3, <2>2 DEF ReadQueued
    <3> QED
      BY <2>1, <3>1
  <2>3. CASE c = d
    <3>0. queue[d] # <<>> /\ read_buf[d] = <<>>
      BY <1>3, <2>3 DEF ReadQueued
    <3>1. PICK h \in Seq(Datum), t \in Seq(Seq(Datum)) : h = Head(queue[d]) /\ t = Tail(queue[d])
      BY <1>0, <3>0, HeadTailProperties
    <3>2. PICK x \in Seq(Datum), y \in Seq(Datum) :
            x = First(h, n) /\ y = Rest(h, n) /\ Joins(x, y, h)
      <4>1. n \in Nat \ {0}
        BY SshAssumption
      <4> QED
        BY <4>1, FirstAndRest
    <3>3. consumed'[d] = consumed[d] \o x /\ read_buf'[d] = y /\ queue'[d] = t
      BY <1>3, <2>3, <3>1, <3>2 DEF ReadQueued
    <3>4. Output(consumed[d] \o x, y, t) = Output(consumed[d], h, t)
      BY <1>0, <3>2, OutputRead
    <3>5. Output(consumed[d], h, t) = Output(consumed[d], <<>>, queue[d])
      BY <1>0, <3>0, <3>1, OutputTake
    <3> QED
      BY <2>1, <3>0, <3>3, <3>4, <3>5
  <2> QED
    BY <2>2, <2>3
<1>4. ASSUME NEW c \in Connection, NEW m \in Seq(Datum), Outputs(c, m)
      PROVE  RemotesOnly(d)'
  <2>1. UNCHANGED <<upload, chunks, read_buf, consumed>>
    BY <1>4 DEF Outputs, connectVars
  <2>2. CASE c # d
    <3>1. written'[d] = written[d] /\ queue'[d] = queue[d]
      BY <1>4, <2>2 DEF Outputs
    <3> QED
      BY <2>1, <3>1
  <2>3. CASE c = d
    <3>1. written'[d] = Append(written[d], m) /\ queue'[d] = Append(queue[d], m)
      BY <1>4, <2>3 DEF Outputs
    <3>2. Joins(Output(consumed[d], read_buf[d], queue[d]), m,
                Output(consumed[d], read_buf[d], Append(queue[d], m)))
      BY <1>0, OutputAppend
    <3>3. FlattenSeq(Append(written[d], m)) = FlattenSeq(written[d]) \o m
      BY <1>0, FlattenSeqAppend
    <3> QED
      BY <2>1, <3>1, <3>2, <3>3 DEF Joins
  <2> QED
    BY <2>2, <2>3
<1>5. ASSUME NEW c \in Connection, NEW m \in Seq(Datum), Reports(c, m)
      PROVE  RemotesOnly(d)'
  <2>1. UNCHANGED <<upload, chunks, read_buf, consumed, written>> /\ upload[c] /\ chunks = 1
    BY <1>5 DEF Reports, connectVars
  <2>2. CASE c # d
    <3>1. queue'[d] = queue[d]
      BY <1>5, <2>2 DEF Reports
    <3> QED
      BY <2>1, <3>1
  <2> QED
    BY <2>1, <2>2
<1> QED
  BY <1>1, <1>2, <1>3, <1>4, <1>5, StreamSteps

\* The program on the remote side and nobody else is read from, each datum once and in
\* order (SshChannelStream::poll_read), for any number of connections, chunks and data.
THEOREM StreamAlwaysRemotes == SshSpec => []StreamIsRemotes
<1> DEFINE Inv == StreamTypeOK /\ \A c \in Connection : RemotesOnly(c)
<1>1. SshInit => Inv
  <2> SUFFICES ASSUME SshInit PROVE Inv
    OBVIOUS
  <2>1. chunks \in Nat \ {0}
    BY SshAssumption DEF SshInit
  <2>2. StreamTypeOK
    BY <2>1, EmptySeq DEF SshInit, StreamTypeOK
  <2>3. Output(<<>>, <<>>, <<>>) = <<>>
    <3>1. <<>> \o <<>> = <<>>
      BY EmptySeq, ConcatEmptySeq
    <3> QED
      BY <3>1, FlattenSeqEmpty DEF Output
  <2>4. \A c \in Connection : RemotesOnly(c)
    BY <2>3, FlattenSeqEmpty DEF SshInit, RemotesOnly
  <2> QED
    BY <2>2, <2>4
<1>2. Inv /\ [SshNext]_sshVars => Inv'
  <2> SUFFICES ASSUME Inv, [SshNext]_sshVars PROVE Inv'
    OBVIOUS
  <2>1. StreamTypeOK'
    BY StreamTypeKept
  <2>2. ASSUME NEW c \in Connection PROVE RemotesOnly(c)'
    BY RemotesOnlyKept
  <2> QED
    BY <2>1, <2>2
<1>3. Inv => StreamIsRemotes
  BY DEF StreamIsRemotes, RemotesOnly, Output
<1> QED
  BY <1>1, <1>2, <1>3, PTL DEF SshSpec

-----------------------------------------------------------------------------
(* The metrics collector                                                   *)

\* g gives the sums of the first numbers of s, up to the first n.
Sums(g, s, n) == g[0] = 0 /\ \A i \in 0..(n - 1) : g[i + 1] = g[i] + s[i + 1]

\* The function inside Total.
TheSums(s) ==
    CHOOSE g : g = [k \in 0..Len(s) |-> IF k = 0 THEN 0 ELSE g[k - 1] + s[k]]

\* There is such a g.
LEMMA SumsExists ==
  ASSUME NEW s, NEW n \in Nat
  PROVE  \E g : Sums(g, s, n)
<1> DEFINE T == {k \in Nat : \E g : Sums(g, s, k)}
<1>1. 0 \in T
  <2>1. Sums([i \in {0} |-> 0], s, 0)
    BY DEF Sums
  <2> QED
    BY <2>1
<1>2. ASSUME NEW k \in Nat, k \in T PROVE k + 1 \in T
  <2>1. PICK g : Sums(g, s, k)
    BY <1>2
  <2> DEFINE h == [i \in 0..(k + 1) |-> IF i <= k THEN g[i] ELSE g[k] + s[k + 1]]
  <2>2. h[0] = 0
    BY <2>1 DEF Sums
  <2>3. ASSUME NEW i \in 0..k PROVE h[i + 1] = h[i] + s[i + 1]
    <3>1. CASE i = k
      <4>1. h[k + 1] = g[k] + s[k + 1] /\ h[k] = g[k]
        OBVIOUS
      <4> QED
        BY <3>1, <4>1
    <3>2. CASE i # k
      <4>1. i \in 0..(k - 1) /\ i + 1 \in 0..k
        BY <3>2
      <4>2. g[i + 1] = g[i] + s[i + 1]
        BY <4>1, <2>1 DEF Sums
      <4>3. h[i + 1] = g[i + 1] /\ h[i] = g[i]
        BY <4>1
      <4> QED
        BY <4>2, <4>3
    <3> QED
      BY <3>1, <3>2
  <2>4. (k + 1) - 1 = k
    OBVIOUS
  <2>5. Sums(h, s, k + 1)
    <3> HIDE DEF h
    <3> QED
      BY <2>2, <2>3, <2>4 DEF Sums
  <2> QED
    BY <2>5
<1>3. Nat \subseteq T
  <2> HIDE DEF T
  <2> QED BY <1>1, <1>2, SetInduction
<1> QED
  BY <1>3

\* Total is the last value of such a g: the recursive function in its definition exists.
LEMMA TotalIs ==
  ASSUME NEW s, NEW n \in Nat, Len(s) = n
  PROVE  \E g : Sums(g, s, n) /\ Total(s) = g[n]
<1>1. Total(s) = TheSums(s)[Len(s)]
  BY Zenon DEF Total, TheSums
<1>2. PICK h : Sums(h, s, n)
  BY SumsExists
<1> DEFINE g == [i \in 0..Len(s) |-> h[i]]
<1>3. g = [k \in 0..Len(s) |-> IF k = 0 THEN 0 ELSE g[k - 1] + s[k]]
  <2>1. ASSUME NEW k \in 0..n PROVE h[k] = IF k = 0 THEN 0 ELSE g[k - 1] + s[k]
    <3>1. CASE k = 0
      BY <3>1, <1>2 DEF Sums
    <3>2. CASE k # 0
      <4>1. PICK j : j = k - 1
        OBVIOUS
      <4>2. j \in 0..(n - 1) /\ j \in 0..Len(s) /\ k = j + 1
        BY <4>1, <3>2
      <4>3. h[j + 1] = h[j] + s[j + 1]
        BY <4>2, <1>2 DEF Sums
      <4> QED
        BY <4>1, <4>2, <4>3, <3>2
    <3> QED
      BY <3>1, <3>2
  <2> QED
    BY <2>1
<1>4. PICK f : f = TheSums(s)
  OBVIOUS
<1>5. f = [k \in 0..Len(s) |-> IF k = 0 THEN 0 ELSE f[k - 1] + s[k]]
  <2> HIDE DEF g
  <2> QED
    BY Zenon, <1>3, <1>4 DEF TheSums
<1>6. \A k \in 0..n : f[k] = IF k = 0 THEN 0 ELSE f[k - 1] + s[k]
  BY <1>5
<1>7. f[0] = 0
  BY <1>6
<1>8. ASSUME NEW i \in 0..(n - 1) PROVE f[i + 1] = f[i] + s[i + 1]
  <2>1. PICK j : j = i + 1
    OBVIOUS
  <2>2. j \in 0..n /\ j # 0 /\ j - 1 = i
    BY <2>1
  <2>3. f[j] = f[j - 1] + s[j]
    BY <2>2, <1>6
  <2> QED
    BY <2>1, <2>2, <2>3
<1> QED
  BY <1>1, <1>4, <1>7, <1>8 DEF Sums

\* The numbers of s and t are the same but for the j-th, which is larger by v in t.
Raised(s, t, n, j, v) ==
    \A i \in 1..n : s[i] \in Nat /\ t[i] = IF i = j THEN s[i] + v ELSE s[i]

\* The sums are the same before the j-th, and larger by v from there on.
Shifted(g, h, n, j, v) ==
    \A i \in 0..n : g[i] \in Nat /\ h[i] = IF j <= i THEN g[i] + v ELSE g[i]

\* Sums of numbers are numbers, and the same up to a place where the numbers differ by v.
LEMMA SumsDiffer ==
  ASSUME NEW s, NEW t, NEW n \in Nat, NEW g, NEW h, Sums(g, s, n), Sums(h, t, n),
         NEW j \in Nat \ {0}, NEW v \in Nat, Raised(s, t, n, j, v)
  PROVE  Shifted(g, h, n, j, v)
<1> USE DEF Raised, Shifted
<1> DEFINE T == {k \in Nat : k <= n => g[k] \in Nat /\ h[k] = IF j <= k THEN g[k] + v ELSE g[k]}
<1>1. 0 \in T
  BY DEF Sums
<1>2. ASSUME NEW k \in Nat, k \in T PROVE k + 1 \in T
  <2>1. CASE k + 1 <= n
    <3>1. k \in 0..(n - 1) /\ k + 1 \in 1..n /\ k <= n
      BY <2>1
    <3>2. g[k] \in Nat /\ h[k] = IF j <= k THEN g[k] + v ELSE g[k]
      BY <3>1, <1>2
    <3>3. g[k + 1] = g[k] + s[k + 1] /\ h[k + 1] = h[k] + t[k + 1]
      BY <3>1 DEF Sums
    <3>4. s[k + 1] \in Nat /\ t[k + 1] = IF k + 1 = j THEN s[k + 1] + v ELSE s[k + 1]
      BY <3>1
    <3>5. g[k + 1] \in Nat
      BY <3>2, <3>3, <3>4
    <3>6. CASE j <= k
      BY <3>2, <3>3, <3>4, <3>5, <3>6
    <3>7. CASE j = k + 1
      BY <3>2, <3>3, <3>4, <3>5, <3>7
    <3>8. CASE j > k + 1
      BY <3>2, <3>3, <3>4, <3>5, <3>8
    <3> QED
      BY <3>6, <3>7, <3>8
  <2>2. CASE ~(k + 1 <= n)
    BY <2>2
  <2> QED
    BY <2>1, <2>2
<1>3. Nat \subseteq T
  <2> HIDE DEF T
  <2> QED BY <1>1, <1>2, SetInduction
<1> QED
  BY <1>3

\* The sum of natural numbers is one.
LEMMA TotalType ==
  ASSUME NEW s \in Seq(Nat)
  PROVE  Total(s) \in Nat
<1>1. PICK n \in Nat : n = Len(s)
  BY LenProperties
<1>2. PICK g : Sums(g, s, n) /\ Total(s) = g[n]
  BY <1>1, TotalIs
<1>3. Raised(s, s, n, n + 1, 0)
  BY <1>1, ElementOfSeq DEF Raised
<1>4. Shifted(g, g, n, n + 1, 0)
  BY <1>2, <1>3, SumsDiffer
<1>5. n \in 0..n
  OBVIOUS
<1> QED
  BY <1>2, <1>4, <1>5 DEF Shifted

\* A zero at the end adds nothing.
LEMMA TotalAppendZero ==
  ASSUME NEW s \in Seq(Nat)
  PROVE  Total(Append(s, 0)) = Total(s)
<1>1. PICK n \in Nat : n = Len(s)
  BY LenProperties
<1>2. PICK t \in Seq(Nat) : t = Append(s, 0)
  BY AppendProperties
<1>3. Len(t) = n + 1 /\ t[n + 1] = 0 /\ \A i \in 1..n : t[i] = s[i]
  BY <1>1, <1>2, AppendProperties
<1>4. PICK g : Sums(g, s, n) /\ Total(s) = g[n]
  BY <1>1, TotalIs
<1>5. PICK h : Sums(h, t, n + 1) /\ Total(t) = h[n + 1]
  BY <1>3, TotalIs
<1>6. Sums(h, t, n) /\ h[n + 1] = h[n] + 0
  <2>1. (n + 1) - 1 = n /\ n \in 0..n
    OBVIOUS
  <2>2. h[0] = 0 /\ \A i \in 0..n : h[i + 1] = h[i] + t[i + 1]
    BY <1>5, <2>1 DEF Sums
  <2>3. \A i \in 0..(n - 1) : h[i + 1] = h[i] + t[i + 1]
    BY <2>2
  <2>4. h[n + 1] = h[n] + t[n + 1]
    BY <2>1, <2>2
  <2> QED
    BY <1>3, <2>2, <2>3, <2>4 DEF Sums
<1>7. Raised(s, t, n, n + 1, 0)
  BY <1>1, <1>3, ElementOfSeq DEF Raised
<1>8. g[n] \in Nat /\ h[n] = g[n]
  <2>1. Shifted(g, h, n, n + 1, 0)
    BY <1>4, <1>6, <1>7, SumsDiffer
  <2>2. n \in 0..n /\ ~(n + 1 <= n)
    OBVIOUS
  <2> QED
    BY <2>1, <2>2 DEF Shifted
<1> QED
  BY <1>2, <1>4, <1>5, <1>6, <1>8

\* A zero replaced by v adds v, wherever it is.
LEMMA TotalGrows ==
  ASSUME NEW s \in Seq(Nat), NEW t \in Seq(Nat), NEW j \in 1..Len(s), NEW v \in Nat,
         Len(t) = Len(s), s[j] = 0, t[j] = v,
         \A i \in 1..Len(s) : i # j => t[i] = s[i]
  PROVE  Total(t) = Total(s) + v
<1>1. PICK n \in Nat : n = Len(s)
  BY LenProperties
<1>2. PICK g : Sums(g, s, n) /\ Total(s) = g[n]
  BY <1>1, TotalIs
<1>3. PICK h : Sums(h, t, n) /\ Total(t) = h[n]
  BY <1>1, TotalIs
<1>4. Raised(s, t, n, j, v)
  <2> USE DEF Raised
  <2> TAKE i \in 1..n
  <2>1. s[i] \in Nat
    BY <1>1, ElementOfSeq
  <2>2. CASE i = j
    BY <2>1, <2>2
  <2>3. CASE i # j
    BY <2>1, <2>3, <1>1
  <2> QED
    BY <2>2, <2>3
<1>5. j \in Nat \ {0} /\ j <= n /\ n \in 0..n
  BY <1>1
<1>6. Shifted(g, h, n, j, v)
  BY <1>2, <1>3, <1>4, <1>5, SumsDiffer
<1>7. h[n] = g[n] + v
  BY <1>5, <1>6 DEF Shifted
<1> QED
  BY <1>2, <1>3, <1>7

\* A metric.
MetricRecord == [metric_type : Kinds, current_value : Nat, samples : Seq(Value)]
\* A call that records.
CallRecord == [name : MetricName, kind : Kinds, value : Value]
\* The values max_samples may have.
Limit == SampleLimits \cup {0, Max(SampleLimits)}
\* The task of a call.
RecorderState == [at : {"spawned", "enabled", "skipped", "added"}, limit : Limit]

\* The types of the collector's variables.
CollectorTypeOK ==
    /\ config \in [enabled : BOOLEAN, max_samples : Limit]
    /\ records \in Seq(CallRecord) /\ recorder \in Seq(RecorderState)
    /\ Len(recorder) = Len(records)
    /\ metrics \in [MetricName -> MetricRecord \cup {None}]

\* The inductive invariant of one name: nothing was added before there is a metric, and a
\* counter is the sum of what was added since.
SumOf(n) ==
    IF metrics[n] = None THEN Total(AddedValues(n)) = 0
    ELSE metrics[n].metric_type = "Counter" => metrics[n].current_value = Total(AddedValues(n))

\* The r-th of the calls rs has added its value to metric n, by the states ws of the tasks.
IsAdded(rs, ws, n, r) == rs[r].name = n /\ ws[r].at = "added"

\* AddedValues with the state as arguments,
ValuesAdded(rs, ws, n) ==
    [r \in DOMAIN rs |-> IF IsAdded(rs, ws, n, r) THEN rs[r].value ELSE 0]

\* before and after a step.
LEMMA AddedValuesIs ==
  ASSUME NEW n
  PROVE  /\ AddedValues(n) = ValuesAdded(records, recorder, n)
         /\ AddedValues(n)' = ValuesAdded(records', recorder', n)
  BY DEF AddedValues, ValuesAdded, Added, IsAdded

\* It has the value of every call that has added, and zeros.
LEMMA ValuesAddedIs ==
  ASSUME NEW rs \in Seq(CallRecord), NEW ws, NEW n
  PROVE  /\ ValuesAdded(rs, ws, n) \in Seq(Nat) /\ Len(ValuesAdded(rs, ws, n)) = Len(rs)
         /\ \A r \in 1..Len(rs) :
               ValuesAdded(rs, ws, n)[r] = IF IsAdded(rs, ws, n, r) THEN rs[r].value ELSE 0
<1>1. PICK k \in Nat : k = Len(rs) /\ DOMAIN rs = 1..k
  BY LenProperties
<1>2. ASSUME NEW r \in 1..k PROVE rs[r].value \in Nat
  <2>1. rs[r] \in CallRecord
    BY <1>1, ElementOfSeq
  <2> QED
    BY <2>1, CollectorAssumption DEF CallRecord
<1>3. PICK f : f = ValuesAdded(rs, ws, n)
  OBVIOUS
<1>4. f = [r \in 1..k |-> IF IsAdded(rs, ws, n, r) THEN rs[r].value ELSE 0]
  BY <1>1, <1>3 DEF ValuesAdded
<1>5. f \in [1..k -> Nat]
  BY <1>2, <1>4
<1>6. f \in Seq(Nat) /\ Len(f) = k
  BY <1>5
<1> QED
  BY <1>1, <1>3, <1>4, <1>6

\* add_sample keeps the kind of a metric and adds to a counter.
LEMMA SamplesType ==
  ASSUME NEW m \in MetricRecord, NEW value \in Value, NEW limit
  PROVE  /\ AddSample(m, value, limit) \in MetricRecord
         /\ AddSample(m, value, limit).metric_type = m.metric_type
         /\ m.metric_type = "Counter"
               => AddSample(m, value, limit).current_value = m.current_value + value
<1>1. m.samples \in Seq(Value) /\ m.current_value \in Nat /\ m.metric_type \in Kinds
  BY DEF MetricRecord
<1>2. PICK s \in Seq(Value) : s = Append(m.samples, value)
  BY <1>1, AppendProperties
<1>3. s # <<>>
  BY <1>1, <1>2, AppendProperties
<1>4. PICK u \in Seq(Value) : u = IF Len(s) > limit THEN Tail(s) ELSE s
  BY <1>3, HeadTailProperties
<1>5. PICK v \in Nat : v = IF m.metric_type = "Counter" THEN m.current_value + value ELSE value
  BY <1>1, CollectorAssumption
<1>6. AddSample(m, value, limit) = [m EXCEPT !.current_value = v, !.samples = u]
  BY <1>2, <1>4, <1>5 DEF AddSample
<1>7. AddSample(m, value, limit) = [metric_type |-> m.metric_type, current_value |-> v, samples |-> u]
  BY <1>6 DEF MetricRecord
<1> QED
  BY <1>1, <1>5, <1>7 DEF MetricRecord

\* A call that records has added nothing yet.
LEMMA RecordKeepsSum ==
  ASSUME CollectorTypeOK, NEW name \in MetricName, NEW kind \in Kinds, NEW value \in Value,
         Record(name, kind, value)
  PROVE  CollectorTypeOK' /\ \A n \in MetricName : SumOf(n) => SumOf(n)'
<1>1. PICK c \in CallRecord : c = [name |-> name, kind |-> kind, value |-> value]
  BY DEF CallRecord
<1>2. PICK w \in RecorderState : w = [at |-> "spawned", limit |-> 0]
  BY DEF RecorderState, Limit
<1>3. PICK k \in Nat : k = Len(records)
  BY LenProperties DEF CollectorTypeOK
<1>4. /\ records' = Append(records, c) /\ recorder' = Append(recorder, w)
      /\ UNCHANGED <<config, metrics>>
  BY <1>1, <1>2 DEF Record
<1>5. /\ records' \in Seq(CallRecord) /\ recorder' \in Seq(RecorderState)
      /\ Len(records') = k + 1 /\ Len(recorder') = k + 1
      /\ records'[k + 1] = c /\ recorder'[k + 1] = w
      /\ \A r \in 1..k : records'[r] = records[r] /\ recorder'[r] = recorder[r]
  BY <1>3, <1>4, AppendProperties DEF CollectorTypeOK
<1>6. CollectorTypeOK'
  BY <1>4, <1>5 DEF CollectorTypeOK
<1>7. ASSUME NEW n \in MetricName PROVE Total(AddedValues(n))' = Total(AddedValues(n))
  <2>1. PICK f \in Seq(Nat) : f = ValuesAdded(records, recorder, n)
    BY ValuesAddedIs DEF CollectorTypeOK
  <2>2. Len(f) = k /\ \A r \in 1..k : f[r] = IF IsAdded(records, recorder, n, r) THEN records[r].value ELSE 0
    BY <1>3, <2>1, ValuesAddedIs DEF CollectorTypeOK
  <2>3. PICK rs \in Seq(CallRecord), ws \in Seq(RecorderState) : rs = records' /\ ws = recorder'
    BY <1>5
  <2>4. PICK g \in Seq(Nat) : g = ValuesAdded(rs, ws, n)
    BY ValuesAddedIs
  <2>5. Len(g) = k + 1 /\ \A r \in 1..(k + 1) : g[r] = IF IsAdded(rs, ws, n, r) THEN rs[r].value ELSE 0
    BY <1>5, <2>3, <2>4, ValuesAddedIs
  <2>6. PICK h \in Seq(Nat) : h = Append(f, 0)
    BY AppendProperties
  <2>7. Len(h) = k + 1 /\ h[k + 1] = 0 /\ \A r \in 1..k : h[r] = f[r]
    BY <2>2, <2>6, AppendProperties
  <2>8. \A r \in 1..(k + 1) : g[r] = h[r]
    <3> TAKE r \in 1..(k + 1)
    <3>1. g[r] = IF IsAdded(rs, ws, n, r) THEN rs[r].value ELSE 0
      BY <2>5
    <3>2. CASE r \in 1..k
      <4>1. rs[r] = records[r] /\ ws[r] = recorder[r]
        BY <1>5, <2>3, <3>2
      <4>2. h[r] = IF IsAdded(records, recorder, n, r) THEN records[r].value ELSE 0
        BY <2>2, <2>7, <3>2
      <4> QED
        BY <3>1, <4>1, <4>2 DEF IsAdded
    <3>3. CASE r = k + 1
      <4>1. ~IsAdded(rs, ws, n, r)
        BY <1>2, <1>5, <2>3, <3>3 DEF IsAdded
      <4> QED
        BY <2>7, <3>1, <3>3, <4>1
    <3> QED
      BY <3>2, <3>3
  <2>9. g = h
    BY <2>7, <2>8, <2>5, SeqEqual
  <2>10. Total(h) = Total(f)
    BY <2>6, TotalAppendZero
  <2>11. Total(AddedValues(n))' = Total(g) /\ Total(AddedValues(n)) = Total(f)
    BY <2>1, <2>3, <2>4, AddedValuesIs
  <2> QED
    BY <2>9, <2>10, <2>11
<1> QED
  BY <1>4, <1>6, <1>7 DEF SumOf

\* Nor has a task that has read the configuration, whatever it found there.
LEMMA ReadConfigKeepsSum ==
  ASSUME CollectorTypeOK, NEW q \in DOMAIN records, ReadConfig(q)
  PROVE  CollectorTypeOK' /\ \A n \in MetricName : SumOf(n) => SumOf(n)'
<1>1. PICK k \in Nat : k = Len(records) /\ k = Len(recorder) /\ DOMAIN records = 1..k /\ DOMAIN recorder = 1..k
  BY LenProperties DEF CollectorTypeOK
<1>2. PICK w \in RecorderState : /\ w.at \in {"enabled", "skipped"}
                                 /\ recorder' = [recorder EXCEPT ![q] = w]
  <2>1. config.max_samples \in Limit /\ 0 \in Limit
    BY DEF CollectorTypeOK, Limit
  <2>2. CASE config.enabled
    <3>1. PICK w : w = [at |-> "enabled", limit |-> config.max_samples]
      OBVIOUS
    <3>2. w \in RecorderState /\ w.at = "enabled"
      BY <2>1, <3>1 DEF RecorderState
    <3>3. recorder' = [recorder EXCEPT ![q] = w]
      BY <2>2, <3>1 DEF ReadConfig
    <3> QED
      BY <3>2, <3>3
  <2>3. CASE ~config.enabled
    <3>1. PICK w : w = [at |-> "skipped", limit |-> 0]
      OBVIOUS
    <3>2. w \in RecorderState /\ w.at = "skipped"
      BY <2>1, <3>1 DEF RecorderState
    <3>3. recorder' = [recorder EXCEPT ![q] = w]
      BY <2>3, <3>1 DEF ReadConfig
    <3> QED
      BY <3>2, <3>3
  <2> QED
    BY <2>2, <2>3
<1>3. recorder[q].at = "spawned" /\ UNCHANGED <<config, metrics, records>>
  BY DEF ReadConfig
<1>4. /\ recorder' \in Seq(RecorderState) /\ Len(recorder') = k
      /\ \A r \in 1..k : recorder'[r] = IF r = q THEN w ELSE recorder[r]
  <2>1. recorder \in [1..k -> RecorderState]
    BY <1>1, ElementOfSeq DEF CollectorTypeOK
  <2>2. recorder' \in [1..k -> RecorderState] /\ \A r \in 1..k : recorder'[r] = IF r = q THEN w ELSE recorder[r]
    BY <1>2, <2>1
  <2> QED
    BY <2>2
<1>5. CollectorTypeOK'
  BY <1>1, <1>3, <1>4 DEF CollectorTypeOK
<1>6. ASSUME NEW n \in MetricName PROVE AddedValues(n)' = AddedValues(n)
  <2>1. \A r \in 1..k : IsAdded(records, recorder', n, r) <=> IsAdded(records, recorder, n, r)
    <3> TAKE r \in 1..k
    <3>1. CASE r = q
      BY <1>2, <1>3, <1>4, <3>1 DEF IsAdded
    <3>2. CASE r # q
      BY <1>4, <3>2 DEF IsAdded
    <3> QED
      BY <3>1, <3>2
  <2> QED
    BY <1>1, <1>3, <2>1, AddedValuesIs DEF ValuesAdded
<1> QED
  BY <1>3, <1>5, <1>6 DEF SumOf

\* A task that adds its sample adds its value, to its metric only.
LEMMA RecordSampleKeepsSum ==
  ASSUME CollectorTypeOK, NEW q \in DOMAIN records, RecordSample(q)
  PROVE  CollectorTypeOK' /\ \A n \in MetricName : SumOf(n) => SumOf(n)'
<1>1. PICK k \in Nat : k = Len(records) /\ k = Len(recorder) /\ DOMAIN records = 1..k /\ DOMAIN recorder = 1..k
  BY LenProperties DEF CollectorTypeOK
<1>2. PICK c \in CallRecord : c = records[q]
  BY <1>1, ElementOfSeq DEF CollectorTypeOK
<1>3. c.name \in MetricName /\ c.value \in Value /\ c.value \in Nat /\ c.kind \in Kinds
  BY <1>2, CollectorAssumption DEF CallRecord
<1>4. PICK m \in MetricRecord : m = IF metrics[c.name] = None THEN NewMetric(c.kind) ELSE metrics[c.name]
  <2>1. NewMetric(c.kind) \in MetricRecord
    <3>1. <<>> \in Seq(Value)
      BY EmptySeq
    <3> QED
      BY <1>3, <3>1 DEF NewMetric, MetricRecord
  <2> QED
    BY <1>3, <2>1 DEF CollectorTypeOK
<1>5. PICK new \in MetricRecord :
        /\ new = AddSample(m, c.value, recorder[q].limit)
        /\ new.metric_type = m.metric_type
        /\ m.metric_type = "Counter" => new.current_value = m.current_value + c.value
  BY <1>3, SamplesType
<1>6. /\ recorder[q].at = "enabled" /\ UNCHANGED <<config, records>>
      /\ metrics' = [metrics EXCEPT ![c.name] = new]
      /\ recorder' = [recorder EXCEPT ![q].at = "added"]
  BY <1>2, <1>4, <1>5 DEF RecordSample
<1>7. new # None
  BY NoneIsNoMetric DEF MetricRecord
<1>8. recorder[q] \in RecorderState
  BY <1>1, ElementOfSeq DEF CollectorTypeOK
<1>9. PICK w \in RecorderState : w = [recorder[q] EXCEPT !.at = "added"] /\ w.at = "added"
  <2>1. PICK x \in RecorderState : x = recorder[q]
    BY <1>8
  <2>2. [x EXCEPT !.at = "added"] = [at |-> "added", limit |-> x.limit]
    BY DEF RecorderState
  <2> QED
    BY <2>1, <2>2 DEF RecorderState
<1>10. /\ recorder' \in Seq(RecorderState) /\ Len(recorder') = k
       /\ \A r \in 1..k : recorder'[r] = IF r = q THEN w ELSE recorder[r]
  <2>1. recorder \in [1..k -> RecorderState]
    BY <1>1, ElementOfSeq DEF CollectorTypeOK
  <2>2. recorder' = [recorder EXCEPT ![q] = w]
    BY <1>6, <1>9
  <2>3. recorder' \in [1..k -> RecorderState] /\ \A r \in 1..k : recorder'[r] = IF r = q THEN w ELSE recorder[r]
    BY <2>1, <2>2
  <2> QED
    BY <2>3
<1>11. metrics' \in [MetricName -> MetricRecord \cup {None}]
  BY <1>6 DEF CollectorTypeOK
<1>12. CollectorTypeOK'
  BY <1>1, <1>6, <1>10, <1>11 DEF CollectorTypeOK
<1>13. ASSUME NEW n \in MetricName, n # c.name PROVE AddedValues(n)' = AddedValues(n)
  <2>1. \A r \in 1..k : IsAdded(records, recorder', n, r) <=> IsAdded(records, recorder, n, r)
    <3> TAKE r \in 1..k
    <3>1. CASE r = q
      BY <1>2, <1>13, <3>1 DEF IsAdded
    <3>2. CASE r # q
      BY <1>10, <3>2 DEF IsAdded
    <3> QED
      BY <3>1, <3>2
  <2>2. ValuesAdded(records, recorder', n) = ValuesAdded(records, recorder, n)
    BY <1>1, <2>1 DEF ValuesAdded
  <2> QED
    BY <1>6, <2>2, AddedValuesIs
<1>14. Total(AddedValues(c.name))' = Total(AddedValues(c.name)) + c.value
  <2>1. PICK f \in Seq(Nat) : f = ValuesAdded(records, recorder, c.name)
    BY ValuesAddedIs DEF CollectorTypeOK
  <2>2. /\ Len(f) = k
        /\ \A r \in 1..k :
             f[r] = IF IsAdded(records, recorder, c.name, r) THEN records[r].value ELSE 0
    BY <1>1, <2>1, ValuesAddedIs DEF CollectorTypeOK
  <2>3. PICK rs \in Seq(CallRecord), ws \in Seq(RecorderState) : rs = records /\ ws = recorder'
    BY <1>10 DEF CollectorTypeOK
  <2>4. PICK g \in Seq(Nat) : g = ValuesAdded(rs, ws, c.name)
    BY ValuesAddedIs
  <2>5. /\ Len(g) = k
        /\ \A r \in 1..k : g[r] = IF IsAdded(rs, ws, c.name, r) THEN rs[r].value ELSE 0
    BY <1>1, <2>3, <2>4, ValuesAddedIs
  <2>6. f[q] = 0 /\ g[q] = c.value
    <3>1. ~IsAdded(records, recorder, c.name, q) /\ q \in 1..k
      BY <1>1, <1>6 DEF IsAdded
    <3>2. IsAdded(rs, ws, c.name, q)
      BY <1>2, <1>9, <1>10, <2>3, <3>1 DEF IsAdded
    <3> QED
      BY <1>2, <2>2, <2>3, <2>5, <3>1, <3>2
  <2>7. ASSUME NEW r \in 1..k, r # q PROVE g[r] = f[r]
    <3>1. ws[r] = recorder[r]
      BY <1>10, <2>3, <2>7
    <3>2. IsAdded(rs, ws, c.name, r) <=> IsAdded(records, recorder, c.name, r)
      BY <2>3, <3>1 DEF IsAdded
    <3> QED
      BY <2>2, <2>3, <2>5, <3>2
  <2>8. Total(g) = Total(f) + c.value
    BY <1>1, <1>3, <2>2, <2>5, <2>6, <2>7, TotalGrows
  <2> QED
    BY <1>6, <2>1, <2>3, <2>4, <2>8, AddedValuesIs
<1>15. ASSUME NEW n \in MetricName, n # c.name, SumOf(n) PROVE SumOf(n)'
  <2>1. metrics'[n] = metrics[n]
    BY <1>6, <1>15 DEF CollectorTypeOK
  <2> QED
    BY <1>13, <1>15, <2>1 DEF SumOf
<1>16. ASSUME SumOf(c.name) PROVE SumOf(c.name)'
  <2>1. metrics'[c.name] = new
    BY <1>3, <1>6 DEF CollectorTypeOK
  <2>2. m.metric_type = "Counter" => m.current_value = Total(AddedValues(c.name))
    <3>1. CASE metrics[c.name] = None
      BY <1>4, <1>16, <3>1 DEF SumOf, NewMetric
    <3>2. CASE metrics[c.name] # None
      BY <1>4, <1>16, <3>2 DEF SumOf
    <3> QED
      BY <3>1, <3>2
  <2>3. new.metric_type = "Counter" => new.current_value = Total(AddedValues(c.name))'
    BY <1>5, <1>14, <2>2
  <2> QED
    BY <1>7, <2>1, <2>3 DEF SumOf
<1> QED
  BY <1>12, <1>15, <1>16

\* A counter is the sum of all values that were added to it, for any number of metrics,
\* calls and values, in whatever order the tasks run and whatever init does meanwhile.
THEOREM CounterAlwaysSum == CollectorSpec => []CounterIsSum
<1> DEFINE Inv == CollectorTypeOK /\ \A n \in MetricName : SumOf(n)
<1>1. CollectorInit => Inv
  <2> SUFFICES ASSUME CollectorInit PROVE Inv
    OBVIOUS
  <2>1. records = <<>> /\ recorder = <<>> /\ metrics = [n \in MetricName |-> None]
    BY DEF CollectorInit
  <2>2. config \in [enabled : BOOLEAN, max_samples : Limit]
    BY DEF CollectorInit, Limit
  <2>3. CollectorTypeOK
    BY <2>1, <2>2, EmptySeq DEF CollectorTypeOK
  <2>4. ASSUME NEW n \in MetricName PROVE SumOf(n)
    <3>1. PICK f \in Seq(Nat) : f = ValuesAdded(records, recorder, n) /\ Len(f) = 0
      <4>1. records \in Seq(CallRecord) /\ Len(records) = 0
        BY <2>1, EmptySeq
      <4>2. /\ ValuesAdded(records, recorder, n) \in Seq(Nat)
            /\ Len(ValuesAdded(records, recorder, n)) = Len(records)
        BY <4>1, ValuesAddedIs
      <4> QED
        BY <4>1, <4>2, Zenon
    <3>2. PICK g : Sums(g, f, 0) /\ Total(f) = g[0]
      BY <3>1, TotalIs
    <3>3. Total(f) = 0
      BY <3>2 DEF Sums
    <3> QED
      BY <2>1, <3>1, <3>3, AddedValuesIs DEF SumOf
  <2> QED
    BY <2>3, <2>4
<1>2. Inv /\ [CollectorNext]_collectorVars => Inv'
  <2> SUFFICES ASSUME Inv, [CollectorNext]_collectorVars PROVE Inv'
    OBVIOUS
  <2>1. ASSUME NEW name \in MetricName, NEW kind \in Kinds, NEW value \in Value,
               Record(name, kind, value)
        PROVE  Inv'
    BY <2>1, RecordKeepsSum
  <2>2. ASSUME NEW r \in DOMAIN records, ReadConfig(r) PROVE Inv'
    BY <2>2, ReadConfigKeepsSum
  <2>3. ASSUME NEW r \in DOMAIN records, RecordSample(r) PROVE Inv'
    BY <2>3, RecordSampleKeepsSum
  <2>4. ASSUME UNCHANGED <<metrics, records, recorder>>,
               config' \in [enabled : BOOLEAN, max_samples : Limit]
        PROVE  Inv'
    <3>1. CollectorTypeOK'
      BY <2>4 DEF CollectorTypeOK
    <3>2. ASSUME NEW n \in MetricName PROVE SumOf(n)'
      <4>1. AddedValues(n)' = AddedValues(n)
        BY <2>4 DEF AddedValues, Added
      <4> QED
        BY <2>4, <4>1 DEF SumOf
    <3> QED
      BY <3>1, <3>2
  <2>5. ASSUME NEW enabled \in BOOLEAN, NEW limit \in SampleLimits, SetConfig(enabled, limit)
        PROVE  Inv'
    <3>1. UNCHANGED <<metrics, records, recorder>> /\ config' \in [enabled : BOOLEAN, max_samples : Limit]
      BY <2>5 DEF SetConfig, Limit
    <3> QED
      BY <2>4, <3>1
  <2>6. ASSUME UNCHANGED collectorVars PROVE Inv'
    BY <2>4, <2>6 DEF collectorVars, CollectorTypeOK
  <2> HIDE DEF Inv
  <2> QED
    BY <2>1, <2>2, <2>3, <2>5, <2>6 DEF CollectorNext
<1>3. Inv => CounterIsSum
  BY DEF SumOf, CounterIsSum
<1> HIDE DEF Inv
<1> QED
  BY <1>1, <1>2, <1>3, PTL DEF CollectorSpec

-----------------------------------------------------------------------------
(* The transport configurations                                            *)

\* What a builder of each type holds.
SshConfig == [host : Host \cup {<<>>}, port : Port \cup {22}, username : Account \cup {<<>>},
              auth : BOOLEAN, auto_upload_binary : BOOLEAN]
LocalConfig == [binary_path : Path \cup {<<"yuha-remote">>}]
TcpConfig == [host : Host \cup {<<>>}, port : Port \cup {0}, tls : BOOLEAN]
WslConfig == [distribution : Distribution \cup {Unset}, user : Account \cup {Unset},
              binary_path : Path \cup {Unset}]

SshTransportConfig == [type : {"ssh"}, config : SshConfig]
LocalTransportConfig == [type : {"local"}, config : LocalConfig]
TcpTransportConfig == [type : {"tcp"}, config : TcpConfig]
WslTransportConfig == [type : {"wsl"}, config : WslConfig]

Configuration ==
    SshTransportConfig \cup LocalTransportConfig \cup TcpTransportConfig \cup WslTransportConfig

\* The builder for TLS holds a TCP configuration that is not built.
TlsBuilder == [type : {"tls"}, config : TcpConfig]

BuildersTyped ==
    /\ builder # Unset => builder \in Configuration \cup TlsBuilder
    /\ built \subseteq Configuration

\* The setters of each type set fields of it, to values of the right kind.
LEMMA SetterType ==
    ASSUME NEW b \in Configuration \cup TlsBuilder,
           NEW field \in DOMAIN Setters[b.type], NEW value \in Setters[b.type][field]
    PROVE  [b EXCEPT !.config[field] = value] \in Configuration \cup TlsBuilder
<1> USE DEF SshTransportConfig, LocalTransportConfig, TcpTransportConfig, WslTransportConfig
<1>1. CASE b \in SshTransportConfig
  <2>1. Setters[b.type] = SshSetters
    BY <1>1 DEF Setters
  <2>2. field \in {"host", "port", "username", "auth", "auto_upload_binary"}
    BY <2>1 DEF SshSetters
  <2>3. [b.config EXCEPT ![field] = value] \in SshConfig
    <3>1. field = "host" => [b.config EXCEPT ![field] = value] \in SshConfig
      BY <1>1, <2>1 DEF SshSetters, SshConfig
    <3>2. field = "port" => [b.config EXCEPT ![field] = value] \in SshConfig
      BY <1>1, <2>1 DEF SshSetters, SshConfig
    <3>3. field = "username" => [b.config EXCEPT ![field] = value] \in SshConfig
      BY <1>1, <2>1 DEF SshSetters, SshConfig
    <3>4. field = "auth" => [b.config EXCEPT ![field] = value] \in SshConfig
      <4>1. CASE field = "auth"
        <5>1. SshSetters["auth"] = {TRUE}
          BY DEF SshSetters
        <5>2. value \in BOOLEAN
          BY <4>1, <5>1, <2>1
        <5> QED
          BY <1>1, <4>1, <5>2 DEF SshConfig
      <4> QED
        BY <4>1
    <3>5. field = "auto_upload_binary" => [b.config EXCEPT ![field] = value] \in SshConfig
      <4>1. CASE field = "auto_upload_binary"
        <5>1. SshSetters["auto_upload_binary"] = {TRUE}
          BY DEF SshSetters
        <5>2. value \in BOOLEAN
          BY <4>1, <5>1, <2>1
        <5> QED
          BY <1>1, <4>1, <5>2 DEF SshConfig
      <4> QED
        BY <4>1
    <3> QED
      BY <2>2, <3>1, <3>2, <3>3, <3>4, <3>5
  <2>4. [b EXCEPT !.config[field] = value] \in SshTransportConfig
    BY <1>1, <2>3
  <2> QED
    BY <2>4 DEF Configuration
<1>2. CASE b \in LocalTransportConfig
  <2>1. Setters[b.type] = LocalSetters
    BY <1>2 DEF Setters
  <2>2. field = "binary_path"
    BY <2>1 DEF LocalSetters
  <2>3. [b.config EXCEPT ![field] = value] \in LocalConfig
    BY <1>2, <2>1, <2>2 DEF LocalSetters, LocalConfig
  <2>4. [b EXCEPT !.config[field] = value] \in LocalTransportConfig
    BY <1>2, <2>3
  <2> QED
    BY <2>4 DEF Configuration
<1>3. CASE b \in TcpTransportConfig
  <2>1. Setters[b.type] = TcpSetters
    BY <1>3 DEF Setters
  <2>2. field \in {"host", "port"}
    BY <2>1 DEF TcpSetters
  <2>3. [b.config EXCEPT ![field] = value] \in TcpConfig
    BY <1>3, <2>1, <2>2 DEF TcpSetters, TcpConfig
  <2>4. [b EXCEPT !.config[field] = value] \in TcpTransportConfig
    BY <1>3, <2>3
  <2> QED
    BY <2>4 DEF Configuration
<1>4. CASE b \in WslTransportConfig
  <2>1. Setters[b.type] = WslSetters
    BY <1>4 DEF Setters
  <2>2. field \in {"distribution", "user", "binary_path"}
    BY <2>1 DEF WslSetters
  <2>3. [b.config EXCEPT ![field] = value] \in WslConfig
    BY <1>4, <2>1, <2>2 DEF WslSetters, WslConfig
  <2>4. [b EXCEPT !.config[field] = value] \in WslTransportConfig
    BY <1>4, <2>3
  <2> QED
    BY <2>4 DEF Configuration
<1>5. CASE b \in TlsBuilder
  <2>1. Setters[b.type] = <<>>
    BY <1>5 DEF Setters, TlsBuilder
  <2> QED
    BY <2>1
<1> QED
  BY <1>1, <1>2, <1>3, <1>4, <1>5 DEF Configuration

\* A builder starts with a configuration of its type.
LEMMA DefaultType ==
    ASSUME NEW type \in TransportType
    PROVE  [type |-> type, config |-> Default[type]] \in Configuration
<1> USE DEF SshTransportConfig, LocalTransportConfig, TcpTransportConfig, WslTransportConfig
<1>1. type \in {"ssh", "local", "tcp", "wsl"}
  BY DEF TransportType, Default
<1>2. SshDefault \in SshConfig /\ LocalDefault \in LocalConfig /\ TcpDefault \in TcpConfig
      /\ WslDefault \in WslConfig
  BY DEF SshDefault, SshConfig, LocalDefault, LocalConfig, TcpDefault, TcpConfig, WslDefault,
         WslConfig
<1> QED
  BY <1>1, <1>2 DEF Default, Configuration

\* What a builder holds, and what was built, has the fields of its type.
THEOREM BuildersAlwaysTyped == TransportSpec => []BuildersTyped
<1> USE DEF SshTransportConfig, LocalTransportConfig, TcpTransportConfig, WslTransportConfig
<1>1. TransportInit => BuildersTyped
  BY DEF TransportInit, BuildersTyped
<1>2. BuildersTyped /\ [TransportNext]_transportVars => BuildersTyped'
  <2> SUFFICES ASSUME BuildersTyped, [TransportNext]_transportVars PROVE BuildersTyped'
    OBVIOUS
  <2>1. CASE NewBuilder
    BY <2>1, DefaultType DEF NewBuilder, BuildersTyped
  <2>2. CASE SetField
    BY <2>2, SetterType DEF SetField, BuildersTyped
  <2>3. CASE WithTls
    <3>1. builder \in TcpTransportConfig
      BY <2>3 DEF WithTls, BuildersTyped, Configuration, TlsBuilder
    <3>2. builder' \in TlsBuilder
      BY <2>3, <3>1 DEF WithTls, TlsBuilder
    <3> QED
      BY <2>3, <3>2 DEF WithTls, BuildersTyped
  <2>4. CASE TlsDone
    <3>1. builder \in TlsBuilder
      BY <2>4 DEF TlsDone, BuildersTyped, Configuration
    <3>2. [builder.config EXCEPT !.tls = TRUE] \in TcpConfig
      BY <3>1 DEF TlsBuilder, TcpConfig
    <3>3. builder' \in TcpTransportConfig
      BY <2>4, <3>1, <3>2 DEF TlsDone, TlsBuilder
    <3> QED
      BY <2>4, <3>3 DEF TlsDone, BuildersTyped, Configuration
  <2>5. CASE Build
    <3>1. builder \in Configuration
      BY <2>5 DEF Build, BuildersTyped, TlsBuilder, TransportType, Default
    <3> QED
      BY <2>5, <3>1 DEF Build, BuildersTyped
  <2>6. CASE FileChanges
    BY <2>6 DEF FileChanges, BuildersTyped
  <2>7. CASE UNCHANGED transportVars
    BY <2>7 DEF transportVars, BuildersTyped
  <2> QED
    BY <2>1, <2>2, <2>3, <2>4, <2>5, <2>6, <2>7 DEF TransportNext
<1> QED
  BY <1>1, <1>2, PTL DEF TransportSpec

-----------------------------------------------------------------------------
\* What keys and names are made of.  The provers do not know that a literal is a
\* STRING, so the ones that are used are named.
Token == STRING \cup {"@", ":", "ssh://", "ssh-", "local://", "local", "tcp://", "tcps://", "wsl://",
                      "default", "yuha-remote"}

\* One token and two tokens in a row.
LEMMA ShortSequences ==
    ASSUME NEW S, NEW x \in S, NEW y \in S
    PROVE  <<x>> \in Seq(S) /\ <<x, y>> \in Seq(S) /\ <<>> \in Seq(S)
OBVIOUS

\* What is followed by a separator and a port can be told from the whole.
LEMMA BeforePort ==
    ASSUME NEW a \in Seq(Token), NEW b \in Seq(Token), NEW x \in Token, NEW y \in Token,
           a \o <<":", x>> = b \o <<":", y>>
    PROVE  a = b /\ x = y
<1>1. Len(a) = Len(b)
  BY ConcatProperties, Len(a \o <<":", x>>) = Len(b \o <<":", y>>)
<1>2. ASSUME NEW i \in 1..Len(a) PROVE a[i] = b[i]
  BY <1>1, <1>2, (a \o <<":", x>>)[i] = (b \o <<":", y>>)[i]
<1>3. a = b
  BY <1>1, <1>2, SeqEqual
<1>4. (a \o <<":", x>>)[Len(a) + 2] = x /\ (b \o <<":", y>>)[Len(b) + 2] = y
  OBVIOUS
<1> QED
  BY <1>1, <1>3, <1>4

\* The user and the host of a name: the last "@" stands between them, whether the
\* user has one or not.
Named(u, h) == u \o <<"@">> \o h

\* Where the parts are in a name.
LEMMA NamedParts ==
    ASSUME NEW u \in Seq(Token), NEW h \in Seq(Token)
    PROVE  /\ Named(u, h) \in Seq(Token)
           /\ Len(Named(u, h)) = Len(u) + 1 + Len(h)
           /\ \A i \in 1..Len(u) : Named(u, h)[i] = u[i]
           /\ Named(u, h)[Len(u) + 1] = "@"
           /\ \A i \in 1..Len(h) : Named(u, h)[Len(u) + 1 + i] = h[i]
<1> DEFINE w == u \o <<"@">>
<1>1. w \in Seq(Token) /\ Len(w) = Len(u) + 1
  <2>1. <<"@">> \in Seq(Token) /\ Len(<<"@">>) = 1
    BY ShortSequences, "@" \in Token DEF Token
  <2> QED
    BY <2>1, ConcatProperties
<1>2. (\A i \in 1..Len(u) : w[i] = u[i]) /\ w[Len(u) + 1] = "@"
  OBVIOUS
<1>3. Named(u, h) = w \o h
  BY DEF Named
<1> HIDE DEF w
<1>4. /\ w \o h \in Seq(Token)
      /\ Len(w \o h) = Len(w) + Len(h)
      /\ \A i \in 1..Len(w) : (w \o h)[i] = w[i]
      /\ \A i \in 1..Len(h) : (w \o h)[Len(w) + i] = h[i]
  BY <1>1
<1> QED
  BY <1>1, <1>2, <1>3, <1>4

\* A name can be taken apart in one way only.
LEMMA LastSeparator ==
    ASSUME NEW u \in Seq(Token), NEW v \in Seq(Token),
           NEW h \in Seq(Token), NEW g \in Seq(Token),
           ~HasToken(h, "@"), ~HasToken(g, "@"), Named(u, h) = Named(v, g)
    PROVE  u = v /\ h = g
<1>1. ASSUME NEW a \in Seq(Token), NEW b \in Seq(Token),
             NEW k \in Seq(Token), NEW l \in Seq(Token),
             ~HasToken(k, "@"), Named(a, k) = Named(b, l)
      PROVE  ~(Len(a) < Len(b))
  <2> SUFFICES ASSUME Len(a) < Len(b) PROVE FALSE
    OBVIOUS
  <2> DEFINE i == Len(b) - Len(a)
  <2>1. /\ Len(Named(a, k)) = Len(a) + 1 + Len(k)
        /\ \A j \in 1..Len(k) : Named(a, k)[Len(a) + 1 + j] = k[j]
        /\ Len(Named(b, l)) = Len(b) + 1 + Len(l)
    BY NamedParts
  <2>2. i \in 1..Len(k) /\ Len(a) + 1 + i = Len(b) + 1
    BY <1>1, <2>1
  <2>3. Named(a, k)[Len(a) + 1 + i] = k[i]
    BY <2>1, <2>2
  <2>4. Named(b, l)[Len(b) + 1] = "@"
    BY NamedParts
  <2>5. k[i] = "@"
    BY <1>1, <2>2, <2>3, <2>4
  <2> QED
    BY <1>1, <2>2, <2>5 DEF HasToken
<1>2. Len(u) = Len(v)
  <2>1. ~(Len(u) < Len(v)) /\ ~(Len(v) < Len(u))
    BY <1>1
  <2> QED
    BY <2>1
<1>a. /\ Len(Named(u, h)) = Len(u) + 1 + Len(h)
      /\ \A i \in 1..Len(u) : Named(u, h)[i] = u[i]
      /\ \A i \in 1..Len(h) : Named(u, h)[Len(u) + 1 + i] = h[i]
  BY NamedParts
<1>b. /\ Len(Named(v, g)) = Len(v) + 1 + Len(g)
      /\ \A i \in 1..Len(v) : Named(v, g)[i] = v[i]
      /\ \A i \in 1..Len(g) : Named(v, g)[Len(v) + 1 + i] = g[i]
  BY NamedParts
<1>3. Len(h) = Len(g)
  BY <1>2, <1>a, <1>b
<1>4. ASSUME NEW i \in 1..Len(u) PROVE u[i] = v[i]
  BY <1>2, <1>a, <1>b
<1>5. ASSUME NEW i \in 1..Len(h) PROVE h[i] = g[i]
  BY <1>2, <1>3, <1>a, <1>b
<1>6. u = v
  BY <1>2, <1>4, SeqEqual
<1>7. h = g
  BY <1>3, <1>5, SeqEqual
<1> QED
  BY <1>6, <1>7

-----------------------------------------------------------------------------
\* A first token can be told from the whole.
LEMMA FirstToken ==
    ASSUME NEW p \in Token, NEW q \in Token, NEW a \in Seq(Token), NEW b \in Seq(Token),
           <<p>> \o a = <<q>> \o b
    PROVE  p = q /\ a = b
<1>1. (<<p>> \o a)[1] = p /\ (<<q>> \o b)[1] = q
  OBVIOUS
<1>2. p = q
  BY <1>1
<1>3. <<p>> \in Seq(Token)
  BY ShortSequences
<1>4. <<p>> \o a = <<p>> \o b
  BY <1>2
<1> QED
  BY <1>2, <1>3, <1>4, ConcatCancelLeft

\* A key or a name: a first token, and what follows it.
Prefixed(p, rest) == <<p>> \o rest

\* The same for a key or a name.
LEMMA SamePrefixed ==
    ASSUME NEW p \in Token, NEW q \in Token, NEW a \in Seq(Token), NEW b \in Seq(Token),
           Prefixed(p, a) = Prefixed(q, b)
    PROVE  p = q /\ a = b
<1>1. <<p>> \o a = <<q>> \o b
  BY DEF Prefixed
<1> QED
  BY <1>1, FirstToken

\* A place and a port.
AtPort(place, port) == place \o <<":", ToString(port)>>

\* A place and a port can be told from the two together.
LEMMA SameAtPort ==
    ASSUME NEW a \in Seq(Token), NEW b \in Seq(Token),
           NEW p \in Port \cup {0, 22}, NEW q \in Port \cup {0, 22}, AtPort(a, p) = AtPort(b, q)
    PROVE  a = b /\ p = q
<1>1. ToString(p) \in Token /\ ToString(q) \in Token
  BY TokenAssumption DEF Token
<1>2. a = b /\ ToString(p) = ToString(q)
  BY <1>1, BeforePort DEF AtPort
<1> QED
  BY <1>2, TokenAssumption

\* A place and a port together are tokens in a row.
LEMMA AtPortType ==
    ASSUME NEW a \in Seq(Token), NEW p \in Port \cup {0, 22}
    PROVE  AtPort(a, p) \in Seq(Token)
<1>1. ToString(p) \in Token /\ ":" \in Token
  BY TokenAssumption DEF Token
<1>2. <<":", ToString(p)>> \in Seq(Token)
  BY <1>1, ShortSequences
<1> QED
  BY <1>2, ConcatProperties DEF AtPort

\* The fields of a configuration are tokens in a row, and no host has an "@".
LEMMA FieldTypes ==
    /\ \A h \in Host \cup {<<>>} : h \in Seq(Token) /\ ~HasToken(h, "@")
    /\ \A u \in Account \cup {<<>>} : u \in Seq(Token)
    /\ \A p \in Path \cup {<<"yuha-remote">>} : p \in Seq(Token)
    /\ \A d \in Distribution \cup {Unset} :
          OrDefault(d) \in Seq(Token) /\ ~HasToken(OrDefault(d), "@")
    /\ \A u \in Account \cup {Unset} : OrDefault(u) \in Seq(Token)
<1>1. <<>> \in Seq(Token) /\ <<"yuha-remote">> \in Seq(Token) /\ <<"default">> \in Seq(Token)
  BY ShortSequences, {"default", "yuha-remote"} \subseteq Token DEF Token
<1>2. ~HasToken(<<>>, "@") /\ ~HasToken(<<"default">>, "@")
  BY DEF HasToken
<1>5. \A s \in Seq(STRING) : s \in Seq(Token)
  BY DEF Token
<1>3. \A h \in Host \cup Distribution : h \in Seq(Token) /\ ~HasToken(h, "@")
  BY <1>5, TransportAssumption, TokenAssumption
<1>4. \A u \in Account \cup Path : u \in Seq(Token)
  BY <1>5, TokenAssumption
<1> QED
  BY <1>1, <1>2, <1>3, <1>4 DEF OrDefault

\* A path in UTF-8 is displayed as it is.
LEMMA DisplayedPath ==
    ASSUME NEW path \in Seq(Token), \A token \in Lossy : ~HasToken(path, token)
    PROVE  Display(path) = path
<1>1. \A n \in DOMAIN path : path[n] \notin Lossy
  BY DEF HasToken
<1>2. Display(path) = [n \in DOMAIN path |-> path[n]]
  BY <1>1 DEF Display
<1>3. path = [n \in DOMAIN path |-> path[n]]
  OBVIOUS
<1> QED
  BY <1>2, <1>3

\* A first token and what follows it are tokens in a row.
LEMMA PrefixedParts ==
    ASSUME NEW p \in Token, NEW a \in Seq(Token)
    PROVE  Prefixed(p, a) \in Seq(Token) /\ Len(Prefixed(p, a)) >= 1 /\ Prefixed(p, a)[1] = p
<1>1. <<p>> \in Seq(Token)
  BY ShortSequences
<1>2. Prefixed(p, a) \in Seq(Token) /\ Len(Prefixed(p, a)) = 1 + Len(a)
  BY <1>1, ConcatProperties DEF Prefixed
<1>3. Prefixed(p, a)[1] = p
  BY DEF Prefixed
<1> QED
  BY <1>2, <1>3

\* What the port is put after begins the whole.
LEMMA AtPortBegins ==
    ASSUME NEW a \in Seq(Token), Len(a) >= 1, NEW p \in Port \cup {0, 22}
    PROVE  AtPort(a, p)[1] = a[1]
<1>1. ToString(p) \in Token /\ ":" \in Token
  BY TokenAssumption DEF Token
<1>2. <<":", ToString(p)>> \in Seq(Token)
  BY <1>1, ShortSequences
<1> QED
  BY <1>2, ConcatProperties DEF AtPort

\* What connection_key and session_name put together for a user, a host and a port.
UserAtHost(first, user, host) == Named(Prefixed(first, user), host)

\* A text of this form begins with its first token, and says the user and the host.
LEMMA UserAtHostParts ==
    ASSUME NEW p \in Token, NEW u \in Seq(Token), NEW h \in Seq(Token)
    PROVE  /\ UserAtHost(p, u, h) \in Seq(Token)
           /\ Len(UserAtHost(p, u, h)) >= 1
           /\ UserAtHost(p, u, h)[1] = p
<1> DEFINE w == Prefixed(p, u)
<1>1. w \in Seq(Token) /\ Len(w) >= 1 /\ w[1] = p
  BY PrefixedParts
<1> HIDE DEF w
<1>2. /\ Named(w, h) \in Seq(Token)
      /\ Len(Named(w, h)) = Len(w) + 1 + Len(h)
      /\ \A i \in 1..Len(w) : Named(w, h)[i] = w[i]
  BY <1>1, NamedParts
<1>3. UserAtHost(p, u, h) = Named(w, h)
  BY DEF UserAtHost, w
<1> QED
  BY <1>1, <1>2, <1>3

\* A user and a host can be told from the text made of them.
LEMMA SameUserAtHost ==
    ASSUME NEW p \in Token, NEW u \in Seq(Token), NEW h \in Seq(Token),
           NEW v \in Seq(Token), NEW g \in Seq(Token),
           ~HasToken(h, "@"), ~HasToken(g, "@"), UserAtHost(p, u, h) = UserAtHost(p, v, g)
    PROVE  u = v /\ h = g
<1>1. Prefixed(p, u) \in Seq(Token) /\ Prefixed(p, v) \in Seq(Token)
  BY PrefixedParts
<1>2. Prefixed(p, u) = Prefixed(p, v) /\ h = g
  BY <1>1, LastSeparator DEF UserAtHost
<1> QED
  BY <1>2, SamePrefixed

-----------------------------------------------------------------------------
(* The keys of each type                                                   *)

\* How a TCP key begins.
TcpFirst(c) == IF c.tls THEN "tcps://" ELSE "tcp://"

\* The first tokens are tokens.
LEMMA FirstTokens ==
    {"ssh://", "ssh-", "local://", "tcp://", "tcps://", "wsl://"} \subseteq Token
BY DEF Token

\* An SSH key: the user, the host and the port.
LEMMA SshKey ==
    ASSUME NEW t \in SshTransportConfig
    PROVE  /\ ConnectionKeyOf(t)
                = AtPort(UserAtHost("ssh://", t.config.username, t.config.host), t.config.port)
           /\ SessionName(t)
                = AtPort(UserAtHost("ssh-", t.config.username, t.config.host), t.config.port)
           /\ CreateTransport(t).place = <<"ssh", t.config.host, t.config.port, t.config.username>>
           /\ ConnectionKeyOf(t)[1] = "ssh://"
           /\ t.config.username \in Seq(Token) /\ t.config.host \in Seq(Token)
           /\ ~HasToken(t.config.host, "@") /\ t.config.port \in Port \cup {0, 22}
<1>1. t.type = "ssh" /\ t.config \in SshConfig
  BY DEF SshTransportConfig
<1>2. t.config.username \in Account \cup {<<>>} /\ t.config.host \in Host \cup {<<>>}
      /\ t.config.port \in Port \cup {0, 22}
  BY <1>1 DEF SshConfig
<1>3. t.config.username \in Seq(Token) /\ t.config.host \in Seq(Token)
      /\ ~HasToken(t.config.host, "@")
  BY <1>2, FieldTypes
<1>4. ConnectionKeyOf(t)
        = AtPort(UserAtHost("ssh://", t.config.username, t.config.host), t.config.port)
  BY <1>1 DEF ConnectionKeyOf, AtPort, UserAtHost, Named, Prefixed
<1>5. SessionName(t)
        = AtPort(UserAtHost("ssh-", t.config.username, t.config.host), t.config.port)
  BY <1>1 DEF SessionName, AtPort, UserAtHost, Named, Prefixed
<1>6. CreateTransport(t).place = <<"ssh", t.config.host, t.config.port, t.config.username>>
  BY <1>1 DEF CreateTransport
<1> DEFINE w == UserAtHost("ssh://", t.config.username, t.config.host)
<1>7. w \in Seq(Token) /\ Len(w) >= 1 /\ w[1] = "ssh://"
  BY <1>3, FirstTokens, UserAtHostParts
<1>8. ConnectionKeyOf(t) = AtPort(w, t.config.port)
  BY <1>4
<1> HIDE DEF w
<1>9. ConnectionKeyOf(t)[1] = "ssh://"
  BY <1>2, <1>7, <1>8, AtPortBegins
<1> QED
  BY <1>2, <1>3, <1>4, <1>5, <1>6, <1>9

\* The key of a local configuration: the path of the binary as it is displayed.
LEMMA LocalKey ==
    ASSUME NEW t \in LocalTransportConfig, Telling(t)
    PROVE  /\ ConnectionKeyOf(t) = Prefixed("local://", t.config.binary_path)
           /\ CreateTransport(t) = [place |-> <<"local">>, binary |-> t.config.binary_path]
           /\ ConnectionKeyOf(t)[1] = "local://"
           /\ t.config.binary_path \in Seq(Token)
<1>1. t.type = "local" /\ t.config \in LocalConfig
  BY DEF LocalTransportConfig
<1>2. t.config.binary_path \in Path \cup {<<"yuha-remote">>}
  BY <1>1 DEF LocalConfig
<1>3. t.config.binary_path \in Seq(Token)
  BY <1>2, FieldTypes
<1>4. \A token \in Lossy : ~HasToken(t.config.binary_path, token)
  BY <1>1 DEF Telling
<1>5. Display(t.config.binary_path) = t.config.binary_path
  BY <1>3, <1>4, DisplayedPath
<1>6. ConnectionKeyOf(t) = Prefixed("local://", t.config.binary_path)
  BY <1>1, <1>5 DEF ConnectionKeyOf, Prefixed
<1>7. ConnectionKeyOf(t)[1] = "local://"
  BY <1>3, <1>6, FirstTokens, PrefixedParts
<1>8. CreateTransport(t) = [place |-> <<"local">>, binary |-> t.config.binary_path]
  BY <1>1 DEF CreateTransport
<1> QED
  BY <1>3, <1>6, <1>7, <1>8

\* A TCP key: whether there is TLS, the host and the port.
LEMMA TcpKey ==
    ASSUME NEW t \in TcpTransportConfig
    PROVE  /\ ConnectionKeyOf(t)
                = AtPort(Prefixed(TcpFirst(t.config), t.config.host), t.config.port)
           /\ CreateTransport(t).place = <<"tcp", t.config.host, t.config.port>>
           /\ ConnectionKeyOf(t)[1] = TcpFirst(t.config)
           /\ t.config.host \in Seq(Token) /\ t.config.port \in Port \cup {0, 22}
           /\ TcpFirst(t.config) \in {"tcp://", "tcps://"}
<1>1. t.type = "tcp" /\ t.config \in TcpConfig
  BY DEF TcpTransportConfig
<1>2. t.config.host \in Host \cup {<<>>} /\ t.config.port \in Port \cup {0, 22}
  BY <1>1 DEF TcpConfig
<1>3. t.config.host \in Seq(Token)
  BY <1>2, FieldTypes
<1>4. TcpFirst(t.config) \in {"tcp://", "tcps://"}
  BY DEF TcpFirst
<1> DEFINE w == Prefixed(TcpFirst(t.config), t.config.host)
<1>5. ConnectionKeyOf(t) = AtPort(w, t.config.port)
  BY <1>1 DEF ConnectionKeyOf, AtPort, Prefixed, TcpFirst
<1>6. CreateTransport(t).place = <<"tcp", t.config.host, t.config.port>>
  BY <1>1 DEF CreateTransport
<1>7. w \in Seq(Token) /\ Len(w) >= 1 /\ w[1] = TcpFirst(t.config)
  BY <1>3, <1>4, FirstTokens, PrefixedParts
<1> HIDE DEF w
<1>8. ConnectionKeyOf(t)[1] = TcpFirst(t.config)
  BY <1>2, <1>5, <1>7, AtPortBegins
<1> QED
  BY <1>2, <1>3, <1>4, <1>5, <1>6, <1>8 DEF w

\* A WSL key: the user and the distribution, or the word default for one not set.
LEMMA WslKey ==
    ASSUME NEW t \in WslTransportConfig
    PROVE  /\ ConnectionKeyOf(t)
                = UserAtHost("wsl://", OrDefault(t.config.user), OrDefault(t.config.distribution))
           /\ CreateTransport(t).place = <<"wsl", t.config.distribution, t.config.user>>
           /\ ConnectionKeyOf(t)[1] = "wsl://"
           /\ OrDefault(t.config.user) \in Seq(Token)
           /\ OrDefault(t.config.distribution) \in Seq(Token)
           /\ ~HasToken(OrDefault(t.config.distribution), "@")
           /\ Telling(t) => /\ t.config.user # <<"default">>
                            /\ t.config.distribution # <<"default">>
<1>1. t.type = "wsl" /\ t.config \in WslConfig
  BY DEF WslTransportConfig
<1>2. t.config.user \in Account \cup {Unset} /\ t.config.distribution \in Distribution \cup {Unset}
  BY <1>1 DEF WslConfig
<1>3. /\ OrDefault(t.config.user) \in Seq(Token)
      /\ OrDefault(t.config.distribution) \in Seq(Token)
      /\ ~HasToken(OrDefault(t.config.distribution), "@")
  BY <1>2, FieldTypes
<1>4. ConnectionKeyOf(t)
        = UserAtHost("wsl://", OrDefault(t.config.user), OrDefault(t.config.distribution))
  BY <1>1 DEF ConnectionKeyOf, UserAtHost, Named, Prefixed
<1>5. CreateTransport(t).place = <<"wsl", t.config.distribution, t.config.user>>
  BY <1>1 DEF CreateTransport
<1>6. ConnectionKeyOf(t)[1] = "wsl://"
  BY <1>3, <1>4, FirstTokens, UserAtHostParts
<1>7. Telling(t) => t.config.user # <<"default">> /\ t.config.distribution # <<"default">>
  BY <1>1 DEF Telling
<1> QED
  BY <1>3, <1>4, <1>5, <1>6, <1>7

\* Two SSH configurations with the same key, or the same name, lead to the same user
\* of the same host and port.
LEMMA SameSsh ==
    ASSUME NEW s \in SshTransportConfig, NEW t \in SshTransportConfig,
           NEW first \in {"ssh://", "ssh-"},
           AtPort(UserAtHost(first, s.config.username, s.config.host), s.config.port)
             = AtPort(UserAtHost(first, t.config.username, t.config.host), t.config.port)
    PROVE  CreateTransport(s).place = CreateTransport(t).place
<1>1. /\ s.config.username \in Seq(Token) /\ s.config.host \in Seq(Token)
      /\ ~HasToken(s.config.host, "@") /\ s.config.port \in Port \cup {0, 22}
      /\ t.config.username \in Seq(Token) /\ t.config.host \in Seq(Token)
      /\ ~HasToken(t.config.host, "@") /\ t.config.port \in Port \cup {0, 22}
  BY SshKey
<1>2. first \in Token
  BY FirstTokens
<1>3. /\ UserAtHost(first, s.config.username, s.config.host) \in Seq(Token)
      /\ UserAtHost(first, t.config.username, t.config.host) \in Seq(Token)
  BY <1>1, <1>2, UserAtHostParts
<1>4. /\ UserAtHost(first, s.config.username, s.config.host)
           = UserAtHost(first, t.config.username, t.config.host)
      /\ s.config.port = t.config.port
  BY <1>1, <1>3, SameAtPort
<1>5. s.config.username = t.config.username /\ s.config.host = t.config.host
  BY <1>1, <1>2, <1>4, SameUserAtHost
<1> QED
  BY <1>4, <1>5, SshKey

\* Two local configurations with the same key, both in UTF-8, start the same binary.
LEMMA SameLocal ==
    ASSUME NEW s \in LocalTransportConfig, NEW t \in LocalTransportConfig,
           Telling(s), Telling(t), ConnectionKeyOf(s) = ConnectionKeyOf(t)
    PROVE  CreateTransport(s) = CreateTransport(t)
<1>1. Prefixed("local://", s.config.binary_path) = Prefixed("local://", t.config.binary_path)
      /\ s.config.binary_path \in Seq(Token) /\ t.config.binary_path \in Seq(Token)
  BY LocalKey
<1>2. s.config.binary_path = t.config.binary_path
  BY <1>1, FirstTokens, SamePrefixed
<1> QED
  BY <1>2, LocalKey

\* Two TCP configurations with the same key lead to the same host and port.
LEMMA SameTcp ==
    ASSUME NEW s \in TcpTransportConfig, NEW t \in TcpTransportConfig,
           ConnectionKeyOf(s) = ConnectionKeyOf(t)
    PROVE  CreateTransport(s).place = CreateTransport(t).place
<1> DEFINE p == TcpFirst(s.config)
           q == TcpFirst(t.config)
<1>1. /\ AtPort(Prefixed(p, s.config.host), s.config.port)
           = AtPort(Prefixed(q, t.config.host), t.config.port)
      /\ s.config.host \in Seq(Token) /\ t.config.host \in Seq(Token)
      /\ s.config.port \in Port \cup {0, 22} /\ t.config.port \in Port \cup {0, 22}
      /\ p \in {"tcp://", "tcps://"} /\ q \in {"tcp://", "tcps://"}
  BY TcpKey
<1> HIDE DEF p, q
<1>2. p \in Token /\ q \in Token
  BY <1>1, FirstTokens
<1>3. Prefixed(p, s.config.host) \in Seq(Token) /\ Prefixed(q, t.config.host) \in Seq(Token)
  BY <1>1, <1>2, PrefixedParts
<1>4. Prefixed(p, s.config.host) = Prefixed(q, t.config.host) /\ s.config.port = t.config.port
  BY <1>1, <1>3, SameAtPort
<1>5. s.config.host = t.config.host
  BY <1>1, <1>2, <1>4, SamePrefixed
<1> QED
  BY <1>4, <1>5, TcpKey

\* Two WSL configurations with the same key, in which nothing is called default, lead
\* to the same user of the same distribution.
LEMMA SameWsl ==
    ASSUME NEW s \in WslTransportConfig, NEW t \in WslTransportConfig,
           Telling(s), Telling(t), ConnectionKeyOf(s) = ConnectionKeyOf(t)
    PROVE  CreateTransport(s).place = CreateTransport(t).place
<1>1. /\ UserAtHost("wsl://", OrDefault(s.config.user), OrDefault(s.config.distribution))
           = UserAtHost("wsl://", OrDefault(t.config.user), OrDefault(t.config.distribution))
      /\ OrDefault(s.config.user) \in Seq(Token) /\ OrDefault(t.config.user) \in Seq(Token)
      /\ OrDefault(s.config.distribution) \in Seq(Token)
      /\ OrDefault(t.config.distribution) \in Seq(Token)
      /\ ~HasToken(OrDefault(s.config.distribution), "@")
      /\ ~HasToken(OrDefault(t.config.distribution), "@")
  BY WslKey
<1>2. /\ OrDefault(s.config.user) = OrDefault(t.config.user)
      /\ OrDefault(s.config.distribution) = OrDefault(t.config.distribution)
  BY <1>1, FirstTokens, SameUserAtHost
<1>3. s.config.user = t.config.user /\ s.config.distribution = t.config.distribution
  BY <1>2, WslKey DEF OrDefault
<1> QED
  BY <1>3, WslKey

\* The keys of two types begin differently.
LEMMA SameType ==
    ASSUME NEW s \in Configuration, NEW t \in Configuration,
           Telling(s), Telling(t), ConnectionKeyOf(s) = ConnectionKeyOf(t)
    PROVE  \/ s \in SshTransportConfig /\ t \in SshTransportConfig
           \/ s \in LocalTransportConfig /\ t \in LocalTransportConfig
           \/ s \in TcpTransportConfig /\ t \in TcpTransportConfig
           \/ s \in WslTransportConfig /\ t \in WslTransportConfig
<1>1. ASSUME NEW u \in Configuration, Telling(u)
      PROVE  \/ u \in SshTransportConfig /\ ConnectionKeyOf(u)[1] = "ssh://"
             \/ u \in LocalTransportConfig /\ ConnectionKeyOf(u)[1] = "local://"
             \/ u \in TcpTransportConfig /\ ConnectionKeyOf(u)[1] \in {"tcp://", "tcps://"}
             \/ u \in WslTransportConfig /\ ConnectionKeyOf(u)[1] = "wsl://"
  <2>1. CASE u \in SshTransportConfig
    BY <2>1, SshKey
  <2>2. CASE u \in LocalTransportConfig
    BY <1>1, <2>2, LocalKey
  <2>3. CASE u \in TcpTransportConfig
    BY <2>3, TcpKey
  <2>4. CASE u \in WslTransportConfig
    BY <2>4, WslKey
  <2> QED
    BY <1>1, <2>1, <2>2, <2>3, <2>4 DEF Configuration
<1> DEFINE first == ConnectionKeyOf(s)[1]
<1>2. \/ s \in SshTransportConfig /\ first = "ssh://"
      \/ s \in LocalTransportConfig /\ first = "local://"
      \/ s \in TcpTransportConfig /\ first \in {"tcp://", "tcps://"}
      \/ s \in WslTransportConfig /\ first = "wsl://"
  BY <1>1
<1>3. \/ t \in SshTransportConfig /\ first = "ssh://"
      \/ t \in LocalTransportConfig /\ first = "local://"
      \/ t \in TcpTransportConfig /\ first \in {"tcp://", "tcps://"}
      \/ t \in WslTransportConfig /\ first = "wsl://"
  BY <1>1
<1> HIDE DEF first
<1> QED
  BY <1>2, <1>3

\* Whoever shares a session wants to reach the same place, for all hosts, users,
\* paths and ports: a key or a name can be taken apart in one way only, and what
\* it is made of decides what create_transport connects to.
THEOREM SharedAlwaysReachesTarget == TransportSpec => []SharedReachesTarget
<1>1. BuildersTyped => SharedReachesTarget
  <2> SUFFICES ASSUME BuildersTyped, NEW s \in built, NEW t \in built, Telling(s), Telling(t),
                      \/ ConnectionKeyOf(s) = ConnectionKeyOf(t)
                      \/ s.type = "ssh" /\ t.type = "ssh" /\ SessionName(s) = SessionName(t)
               PROVE  /\ CreateTransport(s).place = CreateTransport(t).place
                      /\ s.type = "local" => CreateTransport(s).binary = CreateTransport(t).binary
    BY DEF SharedReachesTarget
  <2>1. s \in Configuration /\ t \in Configuration
    BY DEF BuildersTyped
  <2>2. CASE s.type = "ssh" /\ t.type = "ssh" /\ SessionName(s) = SessionName(t)
    <3>1. s \in SshTransportConfig /\ t \in SshTransportConfig
      BY <2>1, <2>2 DEF Configuration, SshTransportConfig, LocalTransportConfig,
                        TcpTransportConfig, WslTransportConfig
    <3>2. SessionName(s) = AtPort(UserAtHost("ssh-", s.config.username, s.config.host), s.config.port)
          /\ SessionName(t) = AtPort(UserAtHost("ssh-", t.config.username, t.config.host), t.config.port)
      BY <3>1, SshKey
    <3> QED
      BY <2>2, <3>1, <3>2, SameSsh
  <2>3. CASE ConnectionKeyOf(s) = ConnectionKeyOf(t)
    <3>1. CASE s \in SshTransportConfig /\ t \in SshTransportConfig
      <4>1. s.type # "local"
        BY <3>1 DEF SshTransportConfig
      <4>2. CreateTransport(s).place = CreateTransport(t).place
        BY <2>3, <3>1, SshKey, SameSsh
      <4> QED
        BY <4>1, <4>2
    <3>2. CASE s \in LocalTransportConfig /\ t \in LocalTransportConfig
      BY <2>3, <3>2, SameLocal
    <3>3. CASE s \in TcpTransportConfig /\ t \in TcpTransportConfig
      BY <2>3, <3>3, SameTcp DEF TcpTransportConfig
    <3>4. CASE s \in WslTransportConfig /\ t \in WslTransportConfig
      BY <2>3, <3>4, SameWsl DEF WslTransportConfig
    <3> QED
      BY <2>1, <2>3, <3>1, <3>2, <3>3, <3>4, SameType
  <2> QED
    BY <2>2, <2>3
<1> QED
  BY <1>1, BuildersAlwaysTyped, PTL
=============================================================================
