---------------------------- MODULE SessionPool ----------------------------
(***************************************************************************)
(* The pool of reusable sessions (core/src/session/pool.rs).               *)
(*                                                                         *)
(* Two maps, each behind its own lock but always locked together and in    *)
(* the same order, so one critical section is one action.  add_session     *)
(* and cleanup_expired release both locks between their check and their    *)
(* effect: these are two actions, and the state carried across the gap is  *)
(* kept per task in  adding  and  expiring .                               *)
(*                                                                         *)
(* A Vec<SessionId> is represented by the number of times each id occurs   *)
(* in it.  Its order is visible only as the choice between sessions with   *)
(* equal reuse scores, which find_session's model leaves open.             *)
(***************************************************************************)
EXTENDS Session, FiniteSetsExt

CONSTANTS
    PoolEnabled, PreferReuse,    \* SessionPoolConfig
    MaxSessionsPerConnection, MaxTotalSessions, MinIdleTime,
    MaxIdleTime                  \* the argument of cleanup_expired

ASSUME PoolAssumption ==
    /\ PoolEnabled \in BOOLEAN /\ PreferReuse \in BOOLEAN
    /\ MaxSessionsPerConnection \in Nat /\ MaxTotalSessions \in Nat
    /\ MinIdleTime \in Nat /\ MaxIdleTime \in Nat

VARIABLES
    pools,          \* connection key -> how often each id is in its Vec
    pool_metadata,  \* id -> PooledSessionMetadata, or None
    adding,         \* task -> session that passed add_session's limit checks
    expiring        \* task -> ids cleanup_expired still has to remove

poolVars == <<pools, pool_metadata, clock, adding, expiring>>

PooledSessionMetadata ==
    [connection_key : ConnectionKey, pooled_at : ClockValues,
     priority : SessionPriority, use_count : Nat]

ASSUME NotPooledAssumption == None \notin PooledSessionMetadata

PoolTypeOK ==
    /\ pools \in [ConnectionKey -> [SessionId -> Nat]]
    /\ pool_metadata \in [SessionId -> PooledSessionMetadata \cup {None}]
    /\ clock \in ClockValues
    /\ adding \in [Task -> Snapshots \cup {None}]
    /\ expiring \in [Task -> SUBSET SessionId]

PoolInit ==
    /\ pools = [k \in ConnectionKey |-> [i \in SessionId |-> 0]]
    /\ pool_metadata = [i \in SessionId |-> None]
    /\ clock \in ClockValues
    /\ adding = [t \in Task |-> None]
    /\ expiring = [t \in Task |-> {}]

Pooled == {i \in SessionId : pool_metadata[i] # None}

\* The length of the Vec of a connection key.
PoolLen(k) == MapThenSumSet(LAMBDA i : pools[k][i], SessionId)

PooledFor(i) == Elapsed(clock, pool_metadata[i].pooled_at)

-----------------------------------------------------------------------------
\* Mutation: the total limit is not checked.
CanAddIgnoringTotal(s) ==
    /\ PoolEnabled
    /\ s.status \in {"Idle", "Active"}
    /\ PoolLen(s.connection_key) > 0 => PoolLen(s.connection_key) < MaxSessionsPerConnection

(* add_session: what is decided under the read locks.  The limit of a key  *)
(* is looked at once the key has a Vec, which it has while ids are in it.  *)
CanAdd(s) ==
    /\ PoolEnabled
    /\ s.status \in {"Idle", "Active"}
    /\ PoolLen(s.connection_key) > 0 => PoolLen(s.connection_key) < MaxSessionsPerConnection
    /\ Cardinality(Pooled) < MaxTotalSessions

AddCheck(t, s) ==
    /\ adding[t] = None
    /\ CanAdd(s)
    /\ adding' = [adding EXCEPT ![t] = s]
    /\ UNCHANGED <<pools, pool_metadata, clock, expiring>>

(* The insertion under the write locks does not look again.                *)
AddInsert(t) ==
    LET s == adding[t] IN
    /\ s # None
    /\ pools' = [pools EXCEPT ![s.connection_key][s.id] = @ + 1]
    /\ pool_metadata' = [pool_metadata EXCEPT ![s.id] =
                            [connection_key |-> s.connection_key,
                             pooled_at |-> clock,
                             priority |-> s.priority,
                             use_count |-> s.use_count]]
    /\ adding' = [adding EXCEPT ![t] = None]
    /\ UNCHANGED <<clock, expiring>>

\* Mutation: the id stays in its Vec.
RemovalNoRetain(i) ==
    pool_metadata' = [pool_metadata EXCEPT ![i] = None] /\ UNCHANGED pools

\* What remove_session does to the two maps; nothing for an id not pooled.
Removal(i) ==
    /\ pool_metadata' = [pool_metadata EXCEPT ![i] = None]
    /\ pools' = IF pool_metadata[i] = None THEN pools
                ELSE [pools EXCEPT ![pool_metadata[i].connection_key][i] = 0]

RemoveSession(i) ==
    /\ Removal(i)
    /\ UNCHANGED <<clock, adding, expiring>>

(* cleanup_expired: the scan under the read locks, then one remove_session *)
(* for each id found.                                                      *)
Expired == {i \in Pooled : PooledFor(i) > MaxIdleTime}

CleanupScan(t) ==
    /\ expiring[t] = {}
    /\ expiring' = [expiring EXCEPT ![t] = Expired]
    /\ UNCHANGED <<pools, pool_metadata, clock, adding>>

CleanupRemove(t) ==
    \E i \in expiring[t] :
        /\ Removal(i)
        /\ expiring' = [expiring EXCEPT ![t] = @ \ {i}]
        /\ UNCHANGED <<clock, adding>>

Clear ==
    /\ pools' = [k \in ConnectionKey |-> [i \in SessionId |-> 0]]
    /\ pool_metadata' = [i \in SessionId |-> None]
    /\ UNCHANGED <<clock, adding, expiring>>

(* Time passes, or the wall clock is set, also backwards.                  *)
ClockStep ==
    /\ clock' \in ClockValues \ {clock}
    /\ UNCHANGED <<pools, pool_metadata, adding, expiring>>

PoolNext ==
    \/ \E t \in Task, s \in Snapshots : AddCheck(t, s)
    \/ \E t \in Task : AddInsert(t) \/ CleanupScan(t) \/ CleanupRemove(t)
    \/ \E i \in SessionId : RemoveSession(i)
    \/ Clear
    \/ ClockStep

PoolSpec == PoolInit /\ [][PoolNext]_poolVars

-----------------------------------------------------------------------------
(* find_session reads both maps under their locks and changes nothing: it  *)
(* is the set of ids it may return in the current state, empty for None.   *)
CalculateReuseScore(i) ==
    LET m == pool_metadata[i] IN
    (CASE m.priority = "Critical" -> 100
       [] m.priority = "High" -> 75
       [] m.priority = "Normal" -> 50
       [] m.priority = "Low" -> 25)
    + (IF m.use_count < 10 THEN 20 ELSE IF m.use_count < 50 THEN 10 ELSE 0)
    + (IF PooledFor(i) < 60 THEN 15 ELSE IF PooledFor(i) < 300 THEN 10 ELSE 0)

Eligible(k) ==
    {i \in Pooled : pools[k][i] > 0 /\ PooledFor(i) >= MinIdleTime}

FindSession(k) ==
    {i \in Eligible(k) :
        /\ PoolEnabled /\ PreferReuse
        /\ CalculateReuseScore(i) > 0
        /\ \A j \in Eligible(k) : CalculateReuseScore(j) <= CalculateReuseScore(i)}

-----------------------------------------------------------------------------
(* Properties.                                                             *)

\* Callers never change the connection key of a session (update_session_metadata
\* could).
FixedKeys == \A s, u \in Snapshots : s.id = u.id => s.connection_key = u.connection_key

\* A session with pool metadata is in the Vec of the key its metadata names,
\* whatever adds, removals, sweeps and clears interleave: find_session and
\* remove_session look for it there and nowhere else.
MetadataIndexed ==
    \A i \in Pooled : pools[pool_metadata[i].connection_key][i] > 0

\* The two maps describe the same pool: an id is in a Vec exactly when its
\* metadata names that key, so nothing find_session may return is dangling and
\* nothing pooled is unreachable.  Needs FixedKeys.
PoolIndexExact ==
    \A k \in ConnectionKey, i \in SessionId :
        (pools[k][i] > 0) <=> (i \in Pooled /\ pool_metadata[i].connection_key = k)

\* add_session checks the total limit and inserts later: with n concurrent
\* adders the pool exceeds max_total_sessions by at most n - 1.
TotalOvershootBounded ==
    Cardinality(Pooled) < MaxTotalSessions + Cardinality(Task)

-----------------------------------------------------------------------------
(* What comments of the repository say and this code does not keep: see    *)
(* "Disagreements" in the README.                                          *)

\* A session is handed out only to callers with its own connection key.
FoundMatchesKey ==
    \A k \in ConnectionKey : \A i \in FindSession(k) : pool_metadata[i].connection_key = k

\* The per-connection limit as its configuration comment states it.
ConnectionLimit ==
    \A k \in ConnectionKey : PoolLen(k) <= MaxSessionsPerConnection

\* A sweep drops only sessions whose idle time has expired: an entry leaves
\* while some sweep is running down its list only if it is expired then.
SweepDropsOnlyExpired ==
    [][\A t \in Task : \A i \in expiring[t] \ expiring'[t] :
          i \in Pooled => i \in Expired]_poolVars
=============================================================================
