------------------------------ MODULE Session ------------------------------
(***************************************************************************)
(* The session metadata that the registry, the pool, the manager and the   *)
(* daemon pass around (core/src/session/mod.rs).  Times are readings of    *)
(* the wall clock (SystemTime), which an administrator may set backwards:  *)
(* every duration is therefore the saturating difference the code computes *)
(* with elapsed().unwrap_or_default().                                     *)
(***************************************************************************)
EXTENDS Naturals, FiniteSets

CONSTANTS
    SessionId,      \* UUIDs handed out by SessionMetadata::new
    ConnectionKey,  \* values of TransportConfig::connection_key()
    Name,           \* session names chosen by the callers
    Task,           \* the concurrent tasks that call the session services
    ClockValues,    \* the readings the wall clock can have
    Snapshots,      \* metadata that callers may pass in; they hold copies
    None            \* absence of a value (Option::None)

VARIABLE clock      \* SystemTime::now()

SessionStatus == {"Creating", "Connecting", "Active", "Idle",
                  "Reconnecting", "Failed", "Closing", "Closed"}

SessionPriority == {"Low", "Normal", "High", "Critical"}

SessionMetadata ==
    [id : SessionId, name : Name, connection_key : ConnectionKey,
     status : SessionStatus, priority : SessionPriority, use_count : Nat,
     created_at : ClockValues, last_used : ClockValues]

ASSUME SessionAssumption ==
    /\ IsFiniteSet(SessionId) /\ IsFiniteSet(Task) /\ Task # {}
    /\ ClockValues \subseteq Nat /\ ClockValues # {}
    /\ Snapshots \subseteq SessionMetadata

ASSUME NoneAssumption ==
    /\ None \notin SessionMetadata
    /\ None \notin SessionId

\* SystemTime::elapsed().unwrap_or_default(): zero when the clock went back.
Elapsed(now, then) == IF now >= then THEN now - then ELSE 0

\* SessionMetadata::new
NewMetadata(id, name, key, now) ==
    [id |-> id, name |-> name, connection_key |-> key, status |-> "Creating",
     priority |-> "Normal", use_count |-> 0,
     created_at |-> now, last_used |-> now]

MarkUsed(m, now) == [m EXCEPT !.last_used = now, !.use_count = @ + 1]

\* Becoming Active or Idle also refreshes last_used.
SetStatus(m, status, now) ==
    [m EXCEPT !.status = status,
              !.last_used = IF status \in {"Active", "Idle"} THEN now ELSE @]

Age(m, now) == Elapsed(now, m.created_at)

IdleTime(m, now) == Elapsed(now, m.last_used)
=============================================================================
