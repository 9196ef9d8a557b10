--------------------------- MODULE SessionManager ---------------------------
(***************************************************************************)
(* The session manager (core/src/session/manager.rs) on top of the         *)
(* registry's map and the pool, with the expiry rules of lifecycle.rs and  *)
(* the gauges of metrics.rs.                                               *)
(*                                                                         *)
(* Every method is a sequence of awaits on other components; each of them  *)
(* is one step.  A task keeps the methods it is in as a stack of frames,   *)
(* the innermost first: a frame says where the method is (at) and holds    *)
(* its local variables.  ret[t] is what the last method that returned gave *)
(* back.  The registry appears as SessionTable: the manager never looks at *)
(* the registry's indexes.  Of the metrics only the gauges and the totals  *)
(* of created and closed sessions are kept; averages, rates, peaks and the *)
(* history are computed from them and from durations and never read back.  *)
(***************************************************************************)
EXTENDS SessionPool, SessionTable, Sequences

CONSTANTS
    MaxSessionLifetime,  \* SessionLifecycleConfig
    EnableAutoReconnect, \* SessionLifecycleConfig
    Client,              \* tasks that call the manager
    Cleaner,             \* tasks that run the cleanup callback
    MaxCalls             \* bound on the calls the clients make

ASSUME ManagerAssumption ==
    /\ MaxSessionLifetime \in Nat /\ MaxCalls \in Nat /\ EnableAutoReconnect \in BOOLEAN
    /\ Client \subseteq Task /\ Cleaner \subseteq Task

VARIABLES
    stack,    \* task -> frames of the methods it is executing
    ret,      \* task -> [ok, id] of the last method that returned
    calls,    \* number of calls made so far
    disturbed, \* history: whether a method was called while another was under
               \* way, or update_session_metadata was called
    metrics   \* SessionMetrics: the gauges and the totals

tableState == <<sessions, issued, registering>>
poolState == <<pools, pool_metadata, adding, expiring>>
managerVars == <<sessions, issued, registering, pools, pool_metadata, adding, expiring,
                 clock, stack, ret, calls, disturbed, metrics>>

ManagerInit ==
    /\ TableInit /\ PoolInit
    /\ stack = [t \in Task |-> <<>>]
    /\ ret = [t \in Task |-> [ok |-> TRUE, id |-> None]]
    /\ calls = 0 /\ disturbed = FALSE
    /\ metrics = [active_sessions |-> 0, idle_sessions |-> 0, failed_sessions |-> 0,
                  total_sessions_created |-> 0, sessions_closed |-> 0]

-----------------------------------------------------------------------------
(* Control: the frame on top, and how it moves on.                         *)
Top(t) == Head(stack[t])
At(t, label) == stack[t] # <<>> /\ Top(t).at = label

Goto(t, frame) ==
    /\ stack' = [stack EXCEPT ![t] = <<frame>> \o Tail(@)]
    /\ UNCHANGED <<ret, calls, disturbed>>

\* Call a method and continue with frame when it returns.
CallThen(t, callee, frame) ==
    /\ stack' = [stack EXCEPT ![t] = <<callee, frame>> \o Tail(@)]
    /\ UNCHANGED <<ret, calls, disturbed>>

Return(t, ok, id) ==
    /\ stack' = [stack EXCEPT ![t] = Tail(@)]
    /\ ret' = [ret EXCEPT ![t] = [ok |-> ok, id |-> id]]
    /\ UNCHANGED <<calls, disturbed>>

\* A method called from outside begins.
Enters(t, frame) ==
    /\ stack[t] = <<>>
    /\ stack' = [stack EXCEPT ![t] = <<frame>>]
    /\ disturbed' = (\/ disturbed
                     \/ frame.at = "update_metadata"
                     \/ \E u \in Task : stack[u] # <<>>)
    /\ UNCHANGED ret

-----------------------------------------------------------------------------
(* Metrics.                                                                *)
GaugeOf(status) == CASE status = "Active" -> "active_sessions"
                     [] status = "Idle" -> "idle_sessions"
                     [] status = "Failed" -> "failed_sessions"
                     [] OTHER -> "none"

SaturatingSub(n) == IF n > 0 THEN n - 1 ELSE 0

Leave(m, status) == [g \in DOMAIN m |-> IF g = GaugeOf(status) THEN SaturatingSub(m[g]) ELSE m[g]]
Enter(m, status) == [g \in DOMAIN m |-> IF g = GaugeOf(status) THEN m[g] + 1 ELSE m[g]]

\* Mutation: the gauge of the old status is not lowered.
RecordEnterOnly(old, new) == metrics' = Enter(metrics, new)

RecordStatusChange(old, new) == metrics' = Enter(Leave(metrics, old), new)

RecordSessionCreated == metrics' = [metrics EXCEPT !.total_sessions_created = @ + 1]

RecordSessionClosed(m) ==
    metrics' = [Leave(metrics, m.status) EXCEPT !.sessions_closed = @ + 1]

-----------------------------------------------------------------------------
(* update_session_status                                                   *)
UpdateStatusFrame(i, status) == [at |-> "status_get", id |-> i, status |-> status]

StatusGet(t) ==
    LET f == Top(t) IN
    /\ At(t, "status_get")
    /\ IF f.id \in Registered
       THEN Goto(t, [at |-> "status_update", id |-> f.id, status |-> f.status,
                     old |-> sessions[f.id].status])
       ELSE Return(t, FALSE, f.id)
    /\ UNCHANGED <<tableState, poolState, clock, metrics>>

StatusUpdate(t) ==
    LET f == Top(t)
        next == CASE f.status = "Idle" -> "status_pool_get"
                  [] f.status \in {"Active", "Failed", "Closed"} -> "status_pool_remove"
                  [] OTHER -> "status_record"
    IN
    /\ At(t, "status_update")
    /\ \/ SetSessionStatus(f.id, f.status) /\ Goto(t, [f EXCEPT !.at = next])
       \/ f.id \notin Registered /\ Return(t, FALSE, f.id) /\ UNCHANGED <<tableState, clock>>
    /\ UNCHANGED <<poolState, metrics>>

\* The metadata that goes into the pool is a copy taken here.
StatusPoolGet(t) ==
    LET f == Top(t) IN
    /\ At(t, "status_pool_get")
    /\ Goto(t, IF f.id \in Registered
               THEN [at |-> "status_pool_check", id |-> f.id, status |-> f.status,
                     old |-> f.old, copy |-> sessions[f.id]]
               ELSE [f EXCEPT !.at = "status_record"])
    /\ UNCHANGED <<tableState, poolState, clock, metrics>>

StatusPoolCheck(t) ==
    LET f == Top(t)
        done == [at |-> "status_record", id |-> f.id, status |-> f.status, old |-> f.old]
    IN
    /\ At(t, "status_pool_check")
    /\ \/ AddCheck(t, f.copy) /\ Goto(t, [done EXCEPT !.at = "status_pool_insert"])
       \/ ~CanAdd(f.copy) /\ Goto(t, done) /\ UNCHANGED <<poolState, clock>>
    /\ UNCHANGED <<tableState, metrics>>

StatusPoolInsert(t) ==
    /\ At(t, "status_pool_insert")
    /\ AddInsert(t)
    /\ Goto(t, [Top(t) EXCEPT !.at = "status_record"])
    /\ UNCHANGED <<tableState, metrics>>

\* Mutation: the session stays in the pool.
StatusPoolKeep(t) ==
    /\ At(t, "status_pool_remove")
    /\ Goto(t, [Top(t) EXCEPT !.at = "status_record"])
    /\ UNCHANGED <<tableState, poolState, clock, metrics>>

StatusPoolRemove(t) ==
    /\ At(t, "status_pool_remove")
    /\ RemoveSession(Top(t).id)
    /\ Goto(t, [Top(t) EXCEPT !.at = "status_record"])
    /\ UNCHANGED <<tableState, metrics>>

StatusRecord(t) ==
    /\ At(t, "status_record")
    /\ RecordStatusChange(Top(t).old, Top(t).status)
    /\ Return(t, TRUE, Top(t).id)
    /\ UNCHANGED <<tableState, poolState, clock>>

UpdateSessionStatus(t) ==
    \/ StatusGet(t) \/ StatusUpdate(t) \/ StatusPoolGet(t) \/ StatusPoolCheck(t)
    \/ StatusPoolInsert(t) \/ StatusPoolRemove(t) \/ StatusRecord(t)

-----------------------------------------------------------------------------
(* use_session: mark it used, then look again whether it is idle.          *)
UseFrame(i) == [at |-> "use_mark", id |-> i]

UseMark(t) ==
    LET i == Top(t).id IN
    /\ At(t, "use_mark")
    /\ \/ MarkSessionUsed(i) /\ Goto(t, [at |-> "use_get", id |-> i])
       \/ i \notin Registered /\ Return(t, FALSE, i) /\ UNCHANGED <<tableState, clock>>
    /\ UNCHANGED <<poolState, metrics>>

UseGet(t) ==
    LET i == Top(t).id IN
    /\ At(t, "use_get")
    /\ IF i \in Registered /\ sessions[i].status = "Idle"
       THEN Goto(t, UpdateStatusFrame(i, "Active"))
       ELSE Return(t, TRUE, i)
    /\ UNCHANGED <<tableState, poolState, clock, metrics>>

UseSession(t) == UseMark(t) \/ UseGet(t)

-----------------------------------------------------------------------------
(* close_session                                                           *)
CloseFrame(i) == [at |-> "close", id |-> i]

CloseStart(t) ==
    LET i == Top(t).id IN
    /\ At(t, "close")
    /\ CallThen(t, UpdateStatusFrame(i, "Closing"), [at |-> "close_pool_remove", id |-> i])
    /\ UNCHANGED <<tableState, poolState, clock, metrics>>

ClosePoolRemove(t) ==
    LET i == Top(t).id IN
    /\ At(t, "close_pool_remove")
    /\ \/ ret[t].ok /\ RemoveSession(i) /\ Goto(t, [at |-> "close_unregister", id |-> i])
       \/ ~ret[t].ok /\ Return(t, FALSE, i) /\ UNCHANGED <<poolState, clock>>
    /\ UNCHANGED <<tableState, metrics>>

\* Mutation: the closure is not recorded.
CloseUnrecorded(t) ==
    LET i == Top(t).id IN
    /\ At(t, "close_unregister")
    /\ DropSession(i) \/ (i \notin Registered /\ UNCHANGED <<tableState, clock>>)
    /\ Return(t, TRUE, i)
    /\ UNCHANGED <<poolState, metrics>>

CloseUnregister(t) ==
    LET i == Top(t).id IN
    /\ At(t, "close_unregister")
    /\ \/ DropSession(i) /\ Goto(t, [at |-> "close_record", removed |-> sessions[i]])
       \/ i \notin Registered /\ Return(t, TRUE, i) /\ UNCHANGED <<tableState, clock>>
    /\ UNCHANGED <<poolState, metrics>>

CloseRecord(t) ==
    /\ At(t, "close_record")
    /\ RecordSessionClosed(Top(t).removed)
    /\ Return(t, TRUE, Top(t).removed.id)
    /\ UNCHANGED <<tableState, poolState, clock>>

CloseSession(t) == CloseStart(t) \/ ClosePoolRemove(t) \/ CloseUnregister(t) \/ CloseRecord(t)

-----------------------------------------------------------------------------
(* create_session                                                          *)
CreateFrame(n, k) == [at |-> "create_check", name |-> n, key |-> k]

CreateCheck(t) ==
    /\ At(t, "create_check")
    /\ \/ \E i \in SessionId : AdmitSession(t, i, Top(t).name, Top(t).key)
                               /\ Goto(t, [at |-> "create_insert", id |-> i])
       \/ /\ Cardinality(Registered) >= MaxSessions
          /\ Return(t, FALSE, None)
          /\ UNCHANGED <<tableState, clock>>
    /\ UNCHANGED <<poolState, metrics>>

CreateInsert(t) ==
    /\ At(t, "create_insert")
    /\ InsertSession(t)
    /\ Goto(t, [Top(t) EXCEPT !.at = "create_record"])
    /\ UNCHANGED <<poolState, metrics>>

CreateRecord(t) ==
    /\ At(t, "create_record")
    /\ RecordSessionCreated
    /\ Return(t, TRUE, Top(t).id)
    /\ UNCHANGED <<tableState, poolState, clock>>

CreateSession(t) == CreateCheck(t) \/ CreateInsert(t) \/ CreateRecord(t)

(* connect_or_create_session: its last call gives its result.              *)
ConnectOrCreate(t) ==
    LET f == Top(t) IN
    /\ At(t, "connect_or_create")
    /\ \/ \E i \in FindSession(f.key) : Goto(t, UseFrame(i))
       \/ FindSession(f.key) = {} /\ Goto(t, CreateFrame(f.name, f.key))
    /\ UNCHANGED <<tableState, poolState, clock, metrics>>

\* update_session_metadata hands the caller's copy to the registry; the pool and
\* the metrics are not told.
UpdateMetadata(t) ==
    LET m == Top(t).metadata IN
    /\ At(t, "update_metadata")
    /\ \/ ReplaceSession(m) /\ Return(t, TRUE, m.id)
       \/ m.id \notin Registered /\ Return(t, FALSE, m.id) /\ UNCHANGED <<tableState, clock>>
    /\ UNCHANGED <<poolState, metrics>>

-----------------------------------------------------------------------------
\* Mutation: a failed session waits for its lifetime to end.
ExpireByTimeOnly(m) ==
    \/ m.status = "Idle" /\ IdleTime(m, clock) > MaxIdleTime
    \/ Age(m, clock) > MaxSessionLifetime

(* The cleanup callback: a snapshot of all sessions, one unregistration    *)
(* for each that should expire, then the sweep of the pool.                *)
ShouldExpireSession(m) ==
    \/ m.status = "Idle" /\ IdleTime(m, clock) > MaxIdleTime
    \/ Age(m, clock) > MaxSessionLifetime
    \/ m.status = "Failed"

\* Nothing calls this one: no code reconnects a session.
ShouldReconnectSession(m) ==
    /\ EnableAutoReconnect
    /\ m.status = "Failed"
    /\ Age(m, clock) <= MaxSessionLifetime
    /\ IdleTime(m, clock) <= MaxIdleTime

CleanupStart(t) ==
    /\ t \in Cleaner
    /\ Enters(t, [at |-> "cleanup", snapshot |-> {sessions[i] : i \in Registered}])
    /\ UNCHANGED <<tableState, poolState, clock, metrics, calls>>

CleanupExpire(t) ==
    LET f == Top(t) IN
    /\ At(t, "cleanup")
    /\ \E m \in f.snapshot :
          LET rest == f.snapshot \ {m} IN
          \/ /\ ShouldExpireSession(m)
             /\ DropSession(m.id)
             /\ Goto(t, [at |-> "cleanup_pool_remove", snapshot |-> rest,
                         removed |-> sessions[m.id]])
          \/ /\ ~ShouldExpireSession(m) \/ m.id \notin Registered
             /\ Goto(t, [f EXCEPT !.snapshot = rest])
             /\ UNCHANGED <<tableState, clock>>
    /\ UNCHANGED <<poolState, metrics>>

CleanupPoolRemove(t) ==
    /\ At(t, "cleanup_pool_remove")
    /\ RemoveSession(Top(t).removed.id)
    /\ Goto(t, [Top(t) EXCEPT !.at = "cleanup_record"])
    /\ UNCHANGED <<tableState, metrics>>

CleanupRecord(t) ==
    /\ At(t, "cleanup_record")
    /\ RecordSessionClosed(Top(t).removed)
    /\ Goto(t, [at |-> "cleanup", snapshot |-> Top(t).snapshot])
    /\ UNCHANGED <<tableState, poolState, clock>>

CleanupSweep(t) ==
    /\ At(t, "cleanup") /\ Top(t).snapshot = {}
    /\ CleanupScan(t)
    /\ Goto(t, [at |-> "cleanup_sweep"])
    /\ UNCHANGED <<tableState, metrics>>

CleanupSweepStep(t) ==
    /\ At(t, "cleanup_sweep")
    /\ \/ CleanupRemove(t) /\ UNCHANGED <<stack, ret, calls, disturbed>>
       \/ expiring[t] = {} /\ Return(t, TRUE, None) /\ UNCHANGED <<poolState, clock>>
    /\ UNCHANGED <<tableState, metrics>>

Cleanup(t) ==
    \/ CleanupStart(t) \/ CleanupExpire(t) \/ CleanupPoolRemove(t)
    \/ CleanupRecord(t) \/ CleanupSweep(t) \/ CleanupSweepStep(t)

-----------------------------------------------------------------------------
(* Callers.                                                                *)
Begin(t, frame) ==
    /\ t \in Client /\ calls < MaxCalls
    /\ Enters(t, frame)
    /\ calls' = calls + 1
    /\ UNCHANGED <<tableState, poolState, clock, metrics>>

Creating == {t \in Task : At(t, "create_check") \/ At(t, "connect_or_create")}

\* Bound: SessionId holds an id for every session a caller may still create.
IdsLeft == Cardinality(issued) + Cardinality(Creating) < Cardinality(SessionId)

CallManager(t) ==
    \/ \E n \in Name, k \in ConnectionKey :
       /\ IdsLeft
       /\ \/ Begin(t, CreateFrame(n, k))
          \/ Begin(t, [at |-> "connect_or_create", name |-> n, key |-> k])
    \/ \E i \in issued : \/ \E status \in Statuses : Begin(t, UpdateStatusFrame(i, status))
                         \/ Begin(t, UseFrame(i))
                         \/ Begin(t, CloseFrame(i))
    \/ \E m \in Snapshots : m.id \in issued /\ Begin(t, [at |-> "update_metadata", metadata |-> m])

ManagerClockStep ==
    /\ clock' \in ClockValues \ {clock}
    /\ UNCHANGED <<tableState, poolState, stack, ret, calls, disturbed, metrics>>

ManagerStep(t) ==
    \/ UpdateSessionStatus(t) \/ UseSession(t) \/ CloseSession(t)
    \/ CreateSession(t) \/ ConnectOrCreate(t) \/ UpdateMetadata(t)

ManagerNext ==
    \/ \E t \in Task : CallManager(t) \/ ManagerStep(t) \/ Cleanup(t)
    \/ ManagerClockStep

\* Every spawned task that can go on is polled again.
ManagerSpec ==
    /\ ManagerInit /\ [][ManagerNext]_managerVars
    /\ \A t \in Task : WF_managerVars(ManagerStep(t)) /\ WF_managerVars(Cleanup(t))

-----------------------------------------------------------------------------
(* Properties.                                                             *)

Tasks(label) == {t \in Task : At(t, label)}

\* Every session is counted as created once and as closed once, whoever closes
\* or expires it: the totals and the registry always balance, up to the
\* sessions whose creation or removal a task is about to record.
SessionsAccountedFor ==
    metrics.total_sessions_created + Cardinality(Tasks("create_record")) =
    metrics.sessions_closed + Cardinality(Registered)
    + Cardinality(Tasks("close_record")) + Cardinality(Tasks("cleanup_pool_remove"))
    + Cardinality(Tasks("cleanup_record"))

\* A session that failed leaves the registry, unless a caller revives it: the
\* cleanup task gets to it in some round, whatever else it is busy with.
FailedExpires ==
    \A i \in SessionId :
        (i \in Registered /\ sessions[i].status = "Failed")
            ~> (i \notin Registered \/ sessions[i].status # "Failed")

Quiescent == \A t \in Task : stack[t] = <<>>

InStatus(status) == {i \in Registered : sessions[i].status = status}

\* As long as calls do not overlap and nobody replaces metadata, the gauges are the
\* numbers of active, idle and failed sessions after each call.  (Overlapping updates of one session make
\* them wrong: record_status_change is given a status that was read before.)
GaugesMatch ==
    Quiescent /\ ~disturbed =>
        /\ metrics.active_sessions = Cardinality(InStatus("Active"))
        /\ metrics.idle_sessions = Cardinality(InStatus("Idle"))
        /\ metrics.failed_sessions = Cardinality(InStatus("Failed"))

\* As long as calls do not overlap and nobody replaces metadata, a pooled session is
\* registered and idle after each call, so it can be reused.  (The pool's part of an update to idle may
\* come after that of an overlapping update to active, or after a close.)
PooledIsIdle == Quiescent /\ ~disturbed => Pooled \subseteq InStatus("Idle")

-----------------------------------------------------------------------------
(* What comments of the repository say and this code does not keep: see    *)
(* "Disagreements" in the README.                                          *)

\* With automatic reconnection enabled, the cleanup task leaves a failed session
\* alone as long as the lifecycle rules say that it should be reconnected.
ReconnectableKept ==
    [][\A t \in Cleaner, i \in SessionId :
          CleanupExpire(t) /\ i \in Registered /\ ShouldReconnectSession(sessions[i])
          => i \in Registered']_managerVars
=============================================================================
