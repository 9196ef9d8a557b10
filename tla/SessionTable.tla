---------------------------- MODULE SessionTable ----------------------------
(***************************************************************************)
(* What the session registry promises about its main map, without its      *)
(* indexes (core/src/session/registry.rs,  sessions ).  Everything the     *)
(* session manager does with the registry goes through these operations;   *)
(* SessionRegistry refines them.                                           *)
(*                                                                         *)
(* register releases the map between the limit check and the insertion:    *)
(* registering[t] is the metadata a task carries across that gap.          *)
(***************************************************************************)
EXTENDS Session

CONSTANTS
    MaxSessions,    \* SessionRegistryConfig::max_sessions
    Statuses,       \* the statuses that callers set
    MaxUses         \* bound on use_count, a u64 in the code

ASSUME TableAssumption ==
    MaxSessions \in Nat /\ MaxUses \in Nat /\ Statuses \subseteq SessionStatus

VARIABLES
    sessions,       \* id -> SessionMetadata, or None
    issued,         \* ids given to some SessionMetadata::new
    registering     \* task -> metadata it is about to insert, or None

tableVars == <<sessions, issued, registering, clock>>

TableTypeOK ==
    /\ sessions \in [SessionId -> SessionMetadata \cup {None}]
    /\ issued \subseteq SessionId
    /\ registering \in [Task -> SessionMetadata \cup {None}]
    /\ clock \in ClockValues

TableInit ==
    /\ sessions = [i \in SessionId |-> None]
    /\ issued = {}
    /\ registering = [t \in Task |-> None]
    /\ clock \in ClockValues

Registered == {i \in SessionId : sessions[i] # None}

-----------------------------------------------------------------------------
\* Mutation: the limit is not checked.
AdmitSessionAlways(t, i, n, k) ==
    /\ registering[t] = None
    /\ i \notin issued
    /\ issued' = issued \cup {i}
    /\ registering' = [registering EXCEPT ![t] =
                          [NewMetadata(i, n, k, clock) EXCEPT !.status = "Connecting"]]
    /\ UNCHANGED <<sessions, clock>>

(* register: the limit is checked on new metadata under a read lock, which *)
(* is dropped before the write lock is taken.                              *)
AdmitSession(t, i, n, k) ==
    /\ registering[t] = None
    /\ i \notin issued
    /\ Cardinality(Registered) < MaxSessions
    /\ issued' = issued \cup {i}
    /\ registering' = [registering EXCEPT ![t] =
                          [NewMetadata(i, n, k, clock) EXCEPT !.status = "Connecting"]]
    /\ UNCHANGED <<sessions, clock>>

InsertSession(t) ==
    /\ registering[t] # None
    /\ sessions' = [sessions EXCEPT ![registering[t].id] = registering[t]]
    /\ registering' = [registering EXCEPT ![t] = None]
    /\ UNCHANGED <<issued, clock>>

\* unregister
DropSession(i) ==
    /\ i \in Registered
    /\ sessions' = [sessions EXCEPT ![i] = None]
    /\ UNCHANGED <<issued, registering, clock>>

\* update: the caller's copy replaces the whole entry.
ReplaceSession(m) ==
    /\ m.id \in Registered
    /\ sessions' = [sessions EXCEPT ![m.id] = m]
    /\ UNCHANGED <<issued, registering, clock>>

\* Mutation: a status update enters the session again when it is gone.
SetSessionStatusUpsert(i, status) ==
    /\ i \in issued
    /\ sessions' = [sessions EXCEPT ![i] =
          IF @ # None THEN SetStatus(@, status, clock)
          ELSE NewMetadata(i, CHOOSE n \in Name : TRUE, CHOOSE k \in ConnectionKey : TRUE, clock)]
    /\ UNCHANGED <<issued, registering, clock>>

\* update_status
SetSessionStatus(i, status) ==
    /\ i \in Registered
    /\ sessions' = [sessions EXCEPT ![i] = SetStatus(@, status, clock)]
    /\ UNCHANGED <<issued, registering, clock>>

\* mark_used
MarkSessionUsed(i) ==
    /\ i \in Registered
    /\ sessions[i].use_count < MaxUses
    /\ sessions' = [sessions EXCEPT ![i] = MarkUsed(@, clock)]
    /\ UNCHANGED <<issued, registering, clock>>

ClearSessions ==
    /\ sessions' = [i \in SessionId |-> None]
    /\ UNCHANGED <<issued, registering, clock>>

TableClockStep ==
    /\ clock' \in ClockValues \ {clock}
    /\ UNCHANGED <<sessions, issued, registering>>

TableNext ==
    \/ \E t \in Task, i \in SessionId, n \in Name, k \in ConnectionKey : AdmitSession(t, i, n, k)
    \/ \E t \in Task : InsertSession(t)
    \/ \E i \in SessionId : DropSession(i) \/ MarkSessionUsed(i)
    \/ \E i \in SessionId, status \in SessionStatus : SetSessionStatus(i, status)
    \/ \E m \in Snapshots : ReplaceSession(m)
    \/ ClearSessions
    \/ TableClockStep

TableSpec == TableInit /\ [][TableNext]_tableVars

-----------------------------------------------------------------------------
(* Properties.                                                             *)

\* register checks the limit and inserts later: with n concurrent callers the
\* registry exceeds max_sessions by at most n - 1.
SessionOvershootBounded ==
    Cardinality(Registered) < MaxSessions + Cardinality(Task)

\* An id that was issued, is not registered and is not about to be.
Gone == {i \in issued : i \notin Registered
                        /\ \A t \in Task : registering[t] # None => registering[t].id # i}

\* A session that was unregistered, expired or cleared never comes back:
\* update, update_status and mark_used racing with its removal only report
\* NotFound.
GoneForever == [][Gone \subseteq Gone']_tableVars

-----------------------------------------------------------------------------
(* What comments of the repository say and this code does not keep: see    *)
(* "Disagreements" in the README.                                          *)

\* The session limit as its configuration comment states it.
SessionLimit == Cardinality(Registered) <= MaxSessions
=============================================================================
