--------------------------- MODULE SessionMetrics ---------------------------
(***************************************************************************)
(* The session metrics (core/src/session/metrics.rs) and the calls of the  *)
(* session manager that feed them (core/src/session/manager.rs).  A call   *)
(* first changes the registry and records the change later, under other    *)
(* locks; the cleanup task expires sessions and drops old history; the     *)
(* metrics may be reset at any time.                                       *)
(*                                                                         *)
(* Of the registry there is only the status of each session.  A time is    *)
(* the age of a closed history entry: recent or old.  The averages are     *)
(* derived from the samples and left out; a sample is the session it is    *)
(* about.  What transports are used is left out too.                       *)
(***************************************************************************)
EXTENDS Naturals, Sequences, FiniteSets

CONSTANTS
    Session,       \* session ids, each used once
    Worker,        \* tasks that call the session manager
    Changes,       \* the statuses that are asked for
    MaxSamples,    \* max_samples
    MaxChanges,    \* bound on the status changes asked for
    MaxUse,        \* bound on the uses of all sessions
    MaxResets,     \* bound on the calls of reset
    Nil

Status == {"Creating", "Connecting", "Active", "Idle", "Reconnecting", "Failed", "Closing", "Closed"}
Counted == {"Active", "Idle", "Failed"}

\* The steps of the manager's calls, with what they remember.
CallStates ==
    [at : {"created", "used", "recorded", "idle"}, id : Session]
    \cup [at : {"counted"}, id : Session, count : Nat]
    \cup [at : {"read", "updated", "connection", "closing"}, id : Session, old : Status, new : Status]
    \cup [at : {"removed"}, id : Session, last : Status]

ASSUME MetricsAssumption ==
    /\ IsFiniteSet(Session) /\ Changes \subseteq Status
    /\ MaxSamples \in Nat /\ MaxChanges \in Nat /\ MaxUse \in Nat /\ MaxResets \in Nat
    /\ Nil \notin Status \cup CallStates

VARIABLES
    status,            \* the registry: session -> status, or "new" or "gone"
    use_count,         \* the registry: session -> number of uses
    call,              \* worker -> the manager's call it is in, or Nil
    overlapped,        \* sessions on which two calls have overlapped
    gauges,            \* active_sessions, idle_sessions, failed_sessions
    peak,              \* peak_concurrent_sessions
    connections,       \* successful_connections and failed_connections
    usage,             \* total_usage_count
    session_history,   \* session -> its SessionHistoryEntry, or Nil
    lifetime_samples,
    reuse_rate,        \* session_reuse_rate, as a pair of counts
    changes, resets    \* number of calls so far

registryVars == <<status, use_count>>
collected == <<gauges, peak, connections, usage, session_history, lifetime_samples, reuse_rate>>
metricsVars == <<registryVars, call, overlapped, collected, changes, resets>>

NoGauges == [s \in Counted |-> 0]
NoConnections == [successful |-> 0, failed |-> 0]
NoHistory == [i \in Session |-> Nil]

MetricsInit ==
    /\ status = [i \in Session |-> "new"] /\ use_count = [i \in Session |-> 0]
    /\ call = [w \in Worker |-> Nil] /\ overlapped = {}
    /\ gauges = NoGauges /\ peak = 0 /\ connections = NoConnections /\ usage = 0
    /\ session_history = NoHistory /\ lifetime_samples = <<>> /\ reuse_rate = <<0, 0>>
    /\ changes = 0 /\ resets = 0

\* Sessions in the registry, and the workers that are in a call on a session.
Known == {i \in Session : status[i] \in Status}
InCall(i) == {w \in Worker : call[w] # Nil /\ call[w].id = i}

\* Worker w enters its next step; a call that starts on a session in use overlaps.
Begin(w, c) ==
    /\ call[w] = Nil
    /\ call' = [call EXCEPT ![w] = c]
    /\ overlapped' = IF InCall(c.id) = {} THEN overlapped ELSE overlapped \cup {c.id}

Proceed(w, c) == call' = [call EXCEPT ![w] = c] /\ UNCHANGED overlapped

At(w, step) == call[w] # Nil /\ call[w].at = step

-----------------------------------------------------------------------------
(* SessionMetricsCollector                                                 *)
LeaveStatus(g, s) ==
    IF s \in Counted THEN [g EXCEPT ![s] = IF @ = 0 THEN 0 ELSE @ - 1] ELSE g

EnterStatus(g, s) == IF s \in Counted THEN [g EXCEPT ![s] = @ + 1] ELSE g

\* record_session_created
RecordCreated(i) ==
    /\ session_history' = [session_history EXCEPT ![i] = [closed |-> "no", was_reused |-> FALSE]]
    /\ UNCHANGED <<gauges, peak, connections, usage, lifetime_samples, reuse_rate>>

\* record_status_change.  The peak follows only the sessions that become active.
RecordStatus(old, new) ==
    /\ gauges' = EnterStatus(LeaveStatus(gauges, old), new)
    /\ peak' = IF new = "Active" /\ gauges'["Active"] + gauges'["Idle"] > peak
               THEN gauges'["Active"] + gauges'["Idle"] ELSE peak
    /\ UNCHANGED <<connections, usage, session_history, lifetime_samples, reuse_rate>>

\* record_connection_success and record_connection_failure
RecordConnection(new) ==
    /\ connections' = IF new = "Active" THEN [connections EXCEPT !.successful = @ + 1]
                                        ELSE [connections EXCEPT !.failed = @ + 1]
    /\ UNCHANGED <<gauges, peak, usage, session_history, lifetime_samples, reuse_rate>>

\* record_session_usage
RecordUsage(i, count) ==
    /\ usage' = usage + 1
    /\ session_history' = IF session_history[i] = Nil \/ count <= 1 THEN session_history
                          ELSE [session_history EXCEPT ![i].was_reused = TRUE]
    /\ UNCHANGED <<gauges, peak, connections, lifetime_samples, reuse_rate>>

\* add_sample
AddLifetime(i) ==
    LET samples == Append(lifetime_samples, i) IN
    IF Len(samples) > MaxSamples THEN Tail(samples) ELSE samples

\* Mutation: the gauge of the session's status is not lowered.
RecordClosedOnly(i, last) ==
    /\ UNCHANGED gauges
    /\ IF session_history[i] = Nil THEN UNCHANGED <<session_history, lifetime_samples>>
       ELSE /\ session_history' = [session_history EXCEPT ![i].closed = "recently"]
            /\ lifetime_samples' = AddLifetime(i)
    /\ UNCHANGED <<peak, connections, usage, reuse_rate>>

\* Mutation: closed_at is not set.
RecordClosedUndated(i, last) ==
    /\ gauges' = LeaveStatus(gauges, last)
    /\ IF session_history[i] = Nil THEN UNCHANGED lifetime_samples
       ELSE lifetime_samples' = AddLifetime(i)
    /\ UNCHANGED <<peak, connections, usage, session_history, reuse_rate>>

\* update_reuse_rate: the old rate stays when the history is empty.
ReuseRate ==
    LET entries == {j \in Session : session_history'[j] # Nil} IN
    IF entries = {} THEN reuse_rate
    ELSE <<Cardinality({j \in entries : session_history'[j].was_reused}), Cardinality(entries)>>

\* record_session_closed
RecordClosed(i, last) ==
    /\ gauges' = LeaveStatus(gauges, last)
    /\ IF session_history[i] = Nil THEN UNCHANGED <<session_history, lifetime_samples>>
       ELSE /\ session_history' = [session_history EXCEPT ![i].closed = "recently"]
            /\ lifetime_samples' = AddLifetime(i)
    /\ reuse_rate' = ReuseRate
    /\ UNCHANGED <<peak, connections, usage>>

Reset ==
    /\ resets < MaxResets /\ resets' = resets + 1
    /\ gauges' = NoGauges /\ peak' = 0 /\ connections' = NoConnections /\ usage' = 0
    /\ session_history' = NoHistory /\ lifetime_samples' = <<>> /\ reuse_rate' = <<0, 0>>
    /\ UNCHANGED <<registryVars, call, overlapped, changes>>

\* cleanup_old_history, at the end of each round of the cleanup task.
CleanupOldHistory ==
    /\ \E i \in Session : session_history[i] # Nil /\ session_history[i].closed = "long ago"
    /\ session_history' = [i \in Session |->
          IF session_history[i] # Nil /\ session_history[i].closed = "long ago"
          THEN Nil ELSE session_history[i]]
    /\ UNCHANGED <<registryVars, call, overlapped, gauges, peak, connections, usage,
                   lifetime_samples, reuse_rate, changes, resets>>

\* The maximum age of the history passes.
TimePasses ==
    /\ \E i \in Session : session_history[i] # Nil /\ session_history[i].closed = "recently"
    /\ session_history' = [i \in Session |->
          IF session_history[i] # Nil /\ session_history[i].closed = "recently"
          THEN [session_history[i] EXCEPT !.closed = "long ago"] ELSE session_history[i]]
    /\ UNCHANGED <<registryVars, call, overlapped, gauges, peak, connections, usage,
                   lifetime_samples, reuse_rate, changes, resets>>

-----------------------------------------------------------------------------
(* The calls of SessionManager.                                            *)

\* create_session: registered, then recorded.
CreateSession(w, i) ==
    /\ status[i] = "new"
    /\ status' = [status EXCEPT ![i] = "Creating"]
    /\ Begin(w, [at |-> "created", id |-> i])
    /\ UNCHANGED <<use_count, collected, changes, resets>>

CreateRecord(w) ==
    /\ At(w, "created")
    /\ RecordCreated(call[w].id)
    /\ Proceed(w, Nil)
    /\ UNCHANGED <<registryVars, changes, resets>>

\* update_session_status reads the old status; close_session is that with "Closing".
UpdateStatus(w, i, new) ==
    /\ i \in Known /\ changes < MaxChanges
    /\ Begin(w, [at |-> "read", id |-> i, old |-> status[i], new |-> new])
    /\ changes' = changes + 1
    /\ UNCHANGED <<registryVars, collected, resets>>

UpdateRegistry(w) ==
    LET c == call[w] IN
    /\ At(w, "read")
    /\ \/ /\ c.id \in Known
          /\ status' = [status EXCEPT ![c.id] = c.new]
          /\ Proceed(w, [c EXCEPT !.at = "updated"])
       \/ c.id \notin Known /\ Proceed(w, Nil) /\ UNCHANGED status
    /\ UNCHANGED <<use_count, collected, changes, resets>>

\* Whether the change is the end of an attempt to connect.
Attempted(c) == c.old \in {"Connecting", "Reconnecting"} /\ c.new \in {"Active", "Failed"}

UpdateRecord(w) ==
    LET c == call[w] IN
    /\ At(w, "updated")
    /\ RecordStatus(c.old, c.new)
    /\ Proceed(w, IF Attempted(c) THEN [c EXCEPT !.at = "connection"]
                  ELSE IF c.new = "Closing" THEN [c EXCEPT !.at = "closing"]
                  ELSE Nil)
    /\ UNCHANGED <<registryVars, changes, resets>>

UpdateConnection(w) ==
    /\ At(w, "connection")
    /\ RecordConnection(call[w].new)
    /\ Proceed(w, Nil)
    /\ UNCHANGED <<registryVars, changes, resets>>

\* use_session: counted in the registry, recorded with the count found there, and
\* an idle session is made active.
UseSession(w, i) ==
    /\ i \in Known /\ usage < MaxUse
    /\ use_count' = [use_count EXCEPT ![i] = @ + 1]
    /\ Begin(w, [at |-> "used", id |-> i])
    /\ UNCHANGED <<status, collected, changes, resets>>

UseCount(w) ==
    LET i == call[w].id IN
    /\ At(w, "used")
    /\ Proceed(w, IF i \in Known THEN [at |-> "counted", id |-> i, count |-> use_count[i]] ELSE Nil)
    /\ UNCHANGED <<registryVars, collected, changes, resets>>

UseRecord(w) ==
    /\ At(w, "counted")
    /\ RecordUsage(call[w].id, call[w].count)
    /\ Proceed(w, [at |-> "recorded", id |-> call[w].id])
    /\ UNCHANGED <<registryVars, changes, resets>>

UseTest(w) ==
    LET i == call[w].id IN
    /\ At(w, "recorded")
    /\ Proceed(w, IF status[i] = "Idle" THEN [at |-> "idle", id |-> i] ELSE Nil)
    /\ UNCHANGED <<registryVars, collected, changes, resets>>

\* update_session_status reads the status again.
UseActivate(w) ==
    LET i == call[w].id IN
    /\ At(w, "idle")
    /\ Proceed(w, IF i \in Known THEN [at |-> "read", id |-> i, old |-> status[i], new |-> "Active"]
                  ELSE Nil)
    /\ UNCHANGED <<registryVars, collected, changes, resets>>

\* The end of close_session: whoever finds the session in the registry records it.
Unregister(w) ==
    LET i == call[w].id IN
    /\ At(w, "closing")
    /\ \/ /\ i \in Known
          /\ status' = [status EXCEPT ![i] = "gone"]
          /\ Proceed(w, [at |-> "removed", id |-> i, last |-> status[i]])
       \/ i \notin Known /\ Proceed(w, Nil) /\ UNCHANGED status
    /\ UNCHANGED <<use_count, collected, changes, resets>>

\* The cleanup task expires a session in whatever status it is.
ExpireSession(w, i) ==
    /\ i \in Known
    /\ status' = [status EXCEPT ![i] = "gone"]
    /\ Begin(w, [at |-> "removed", id |-> i, last |-> status[i]])
    /\ UNCHANGED <<use_count, collected, changes, resets>>

CloseRecord(w) ==
    /\ At(w, "removed")
    /\ RecordClosed(call[w].id, call[w].last)
    /\ Proceed(w, Nil)
    /\ UNCHANGED <<registryVars, changes, resets>>

UseStep(w) == UseCount(w) \/ UseRecord(w) \/ UseTest(w) \/ UseActivate(w)

CallStep(w) ==
    \/ CreateRecord(w) \/ UpdateRegistry(w) \/ UpdateRecord(w) \/ UpdateConnection(w)
    \/ UseStep(w) \/ Unregister(w) \/ CloseRecord(w)

MetricsNext ==
    \/ \E w \in Worker :
          \/ CallStep(w)
          \/ \E i \in Session :
                \/ CreateSession(w, i) \/ UseSession(w, i) \/ ExpireSession(w, i)
                \/ \E new \in Changes : UpdateStatus(w, i, new)
    \/ Reset \/ CleanupOldHistory \/ TimePasses

\* Calls are scheduled, the cleanup task makes its rounds and time passes.
MetricsFairness ==
    /\ \A w \in Worker : WF_metricsVars(CallStep(w))
    /\ WF_metricsVars(CleanupOldHistory) /\ WF_metricsVars(TimePasses)

MetricsSpec == MetricsInit /\ [][MetricsNext]_metricsVars /\ MetricsFairness

-----------------------------------------------------------------------------
(* Properties.                                                             *)

\* The status in which a session is by what has been recorded of it: a call that
\* is under way has changed the registry and not yet the gauges.
RecordedStatus(i) ==
    IF \E w \in InCall(i) : call[w].at \in {"read", "updated"}
    THEN call[CHOOSE w \in InCall(i) : call[w].at \in {"read", "updated"}].old
    ELSE IF \E w \in InCall(i) : At(w, "removed")
    THEN call[CHOOSE w \in InCall(i) : At(w, "removed")].last
    ELSE status[i]

\* As long as no two calls overlap on a session, a gauge never shows more sessions
\* than there are, through resets of the metrics in the middle of calls too: the
\* decrements that follow a reset stop at zero.
GaugeWithinReal ==
    overlapped = {} =>
        \A s \in Counted : gauges[s] <= Cardinality({i \in Session : RecordedStatus(i) = s})

\* The history does not grow for ever: the entry of every session that left the
\* registry is dropped in the end, unless two calls overlapped on the session.
HistoryForgets ==
    \A i \in Session : status[i] = "gone" ~> session_history[i] = Nil \/ i \in overlapped

-----------------------------------------------------------------------------
(* What comments of the repository say and this code does not keep: see    *)
(* "Disagreements" in the README.                                          *)

\* The peak is the largest number of sessions there were at a time.
PeakCoversConcurrent == overlapped = {} => peak >= gauges["Active"] + gauges["Idle"]

\* Old history is cleaned up, whatever calls overlap.
HistoryAlwaysForgets == \A i \in Session : status[i] = "gone" ~> session_history[i] = Nil
=============================================================================
