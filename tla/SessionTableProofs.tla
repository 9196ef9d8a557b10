--------------------------- MODULE SessionTableProofs ---------------------------
(* Proofs about SessionTable, the map of sessions, for every set of sessions,   *)
(* names, keys, tasks and snapshots and every limit.  The registry and the      *)
(* manager implement the map, and get their results about it from here.         *)
EXTENDS SessionTable, FiniteSetTheorems, TLAPS

USE NoneAssumption

\* The operations on metadata keep it well typed and keep its identity.
LEMMA MetadataOperations ==
    ASSUME NEW m \in SessionMetadata, NEW now \in ClockValues, NEW status \in SessionStatus
    PROVE  /\ SetStatus(m, status, now) \in SessionMetadata
           /\ MarkUsed(m, now) \in SessionMetadata
           /\ SetStatus(m, status, now).name = m.name
           /\ SetStatus(m, status, now).connection_key = m.connection_key
           /\ MarkUsed(m, now).name = m.name
           /\ MarkUsed(m, now).connection_key = m.connection_key
           /\ SetStatus(m, status, now).id = m.id
           /\ MarkUsed(m, now).id = m.id
           /\ SetStatus(m, status, now).status = status
           /\ MarkUsed(m, now).status = m.status
<1>1. m.use_count + 1 \in Nat
  BY DEF SessionMetadata
<1>2. MarkUsed(m, now) \in SessionMetadata
  BY <1>1 DEF MarkUsed, SessionMetadata
<1>3. SetStatus(m, status, now) \in SessionMetadata
  <2>1. CASE status \in {"Active", "Idle"}
    BY <2>1 DEF SetStatus, SessionMetadata
  <2>2. CASE status \notin {"Active", "Idle"}
    BY <2>2 DEF SetStatus, SessionMetadata
  <2>3. QED
    BY <2>1, <2>2
<1>4. QED
  BY <1>2, <1>3 DEF SetStatus, MarkUsed, SessionMetadata

\* The metadata that register inserts.
LEMMA AdmittedMetadata ==
    ASSUME NEW i \in SessionId, NEW n \in Name, NEW k \in ConnectionKey, NEW now \in ClockValues
    PROVE  LET m == [NewMetadata(i, n, k, now) EXCEPT !.status = "Connecting"]
           IN m \in SessionMetadata /\ m.id = i
BY DEF NewMetadata, SessionMetadata, SessionStatus, SessionPriority

-----------------------------------------------------------------------------
(* The abstract map.                                                        *)

\* Every operation keeps the map and what callers carry towards it well typed.
LEMMA TableStepTypes ==
    ASSUME TableTypeOK, [TableNext]_tableVars
    PROVE  TableTypeOK'
<1>1. ASSUME NEW t \in Task, NEW i \in SessionId, NEW n \in Name, NEW k \in ConnectionKey,
             AdmitSession(t, i, n, k)
      PROVE  TableTypeOK'
  BY <1>1, AdmittedMetadata DEF AdmitSession, TableTypeOK
<1>2. ASSUME NEW t \in Task, InsertSession(t)
      PROVE  TableTypeOK'
  <2>1. registering[t] \in SessionMetadata /\ registering[t].id \in SessionId
    BY <1>2 DEF InsertSession, TableTypeOK, SessionMetadata
  <2>2. QED
    BY <1>2, <2>1 DEF InsertSession, TableTypeOK
<1>3. ASSUME NEW i \in SessionId, DropSession(i)
      PROVE  TableTypeOK'
  BY <1>3 DEF DropSession, TableTypeOK
<1>4. ASSUME NEW i \in SessionId, MarkSessionUsed(i)
      PROVE  TableTypeOK'
  <2>1. sessions[i] \in SessionMetadata
    BY <1>4 DEF MarkSessionUsed, Registered, TableTypeOK
  <2>2. MarkUsed(sessions[i], clock) \in SessionMetadata
    BY <2>1, MetadataOperations DEF TableTypeOK, SessionStatus
  <2>3. QED
    BY <1>4, <2>2 DEF MarkSessionUsed, TableTypeOK
<1>5. ASSUME NEW i \in SessionId, NEW status \in SessionStatus, SetSessionStatus(i, status)
      PROVE  TableTypeOK'
  <2>1. sessions[i] \in SessionMetadata /\ status \in SessionStatus
    BY <1>5, TableAssumption DEF SetSessionStatus, Registered, TableTypeOK
  <2>2. SetStatus(sessions[i], status, clock) \in SessionMetadata
    BY <2>1, MetadataOperations DEF TableTypeOK
  <2>3. QED
    BY <1>5, <2>2 DEF SetSessionStatus, TableTypeOK
<1>6. ASSUME NEW m \in Snapshots, ReplaceSession(m)
      PROVE  TableTypeOK'
  <2>1. m \in SessionMetadata
    BY SessionAssumption
  <2>2. QED
    BY <1>6, <2>1 DEF ReplaceSession, TableTypeOK
<1>7. CASE ClearSessions
  BY <1>7 DEF ClearSessions, TableTypeOK
<1>8. CASE TableClockStep
  BY <1>8 DEF TableClockStep, TableTypeOK
<1>9. CASE UNCHANGED tableVars
  BY <1>9 DEF tableVars, TableTypeOK
<1>10. QED
  BY <1>1, <1>2, <1>3, <1>4, <1>5, <1>6, <1>7, <1>8, <1>9 DEF TableNext

\* The map of sessions and what callers carry towards it stay well typed.
THEOREM TableTypeCorrect == TableSpec => []TableTypeOK
<1>1. TableInit => TableTypeOK
  BY DEF TableInit, TableTypeOK
<1>2. TableTypeOK /\ [TableNext]_tableVars => TableTypeOK'
  BY TableStepTypes
<1>3. QED
  BY <1>1, <1>2, PTL DEF TableSpec

\* Which ids are where: a task that is about to insert has an id of its own that
\* is issued and not in the map yet.
IdsDistinct ==
    /\ Registered \subseteq issued
    /\ \A t \in Task : registering[t] # None =>
          /\ registering[t].id \in issued
          /\ registering[t].id \notin Registered
    /\ \A t, u \in Task : registering[t] # None /\ registering[u] # None /\ t # u
                          => registering[t].id # registering[u].id

\* Ids are never shared between two sessions.
THEOREM TableIdsDistinct == TableSpec => []IdsDistinct
<1>1. TableInit => IdsDistinct
  BY DEF TableInit, IdsDistinct, Registered
<1>2. TableTypeOK /\ IdsDistinct /\ [TableNext]_tableVars => IdsDistinct'
  <2> SUFFICES ASSUME TableTypeOK, IdsDistinct, [TableNext]_tableVars
               PROVE  IdsDistinct'
    OBVIOUS
  <2>1. ASSUME NEW t \in Task, NEW i \in SessionId, NEW n \in Name, NEW k \in ConnectionKey,
               AdmitSession(t, i, n, k)
        PROVE  IdsDistinct'
    <3>1. /\ registering'[t].id = i
          /\ \A u \in Task : u # t => registering'[u] = registering[u]
          /\ Registered' = Registered
      BY <2>1, AdmittedMetadata DEF AdmitSession, TableTypeOK, Registered
    <3>2. issued' = issued \cup {i} /\ i \notin issued
      BY <2>1 DEF AdmitSession
    <3>3. QED
      BY <3>1, <3>2 DEF IdsDistinct
  <2>2. ASSUME NEW t \in Task, InsertSession(t)
        PROVE  IdsDistinct'
    <3>1. registering[t] \in SessionMetadata /\ registering[t].id \in SessionId
      BY <2>2 DEF InsertSession, TableTypeOK, SessionMetadata
    <3>2. Registered' = Registered \cup {registering[t].id}
      BY <2>2, <3>1 DEF InsertSession, TableTypeOK, Registered
    <3>3. /\ registering'[t] = None
          /\ \A u \in Task : u # t => registering'[u] = registering[u]
          /\ issued' = issued
      BY <2>2 DEF InsertSession, TableTypeOK
    <3>4. QED
      BY <2>2, <3>2, <3>3 DEF IdsDistinct, InsertSession
  <2>3. ASSUME Registered' \subseteq Registered, UNCHANGED <<issued, registering>>
        PROVE  IdsDistinct'
    BY <2>3 DEF IdsDistinct
  <2>4. ASSUME NEW i \in SessionId, NEW v, sessions' = [sessions EXCEPT ![i] = v],
               i \in Registered
        PROVE  Registered' \subseteq Registered
    BY <2>4 DEF Registered, TableTypeOK
  <2>5. ASSUME NEW i \in SessionId, DropSession(i) \/ MarkSessionUsed(i)
        PROVE  IdsDistinct'
    BY <2>3, <2>4, <2>5 DEF DropSession, MarkSessionUsed
  <2>6. ASSUME NEW i \in SessionId, NEW status \in SessionStatus, SetSessionStatus(i, status)
        PROVE  IdsDistinct'
    BY <2>3, <2>4, <2>6 DEF SetSessionStatus
  <2>7. ASSUME NEW m \in Snapshots, ReplaceSession(m)
        PROVE  IdsDistinct'
    BY <2>3, <2>4, <2>7 DEF ReplaceSession, Registered
  <2>8. CASE ClearSessions
    BY <2>3, <2>8 DEF ClearSessions, Registered
  <2>9. CASE TableClockStep \/ UNCHANGED tableVars
    BY <2>3, <2>9 DEF TableClockStep, tableVars, Registered
  <2>10. QED
    BY <2>1, <2>2, <2>5, <2>6, <2>7, <2>8, <2>9 DEF TableNext
<1>3. QED
  BY <1>1, <1>2, TableTypeCorrect, PTL DEF TableSpec

\* The map files every session under its own id.
FiledUnderId == \A i \in Registered : sessions[i].id = i

\* update rejects metadata with another id, so the map and the metadata agree.
THEOREM TableFiledUnderId == TableSpec => []FiledUnderId
<1>1. TableInit => FiledUnderId
  BY DEF TableInit, FiledUnderId, Registered
<1>2. TableTypeOK /\ FiledUnderId /\ [TableNext]_tableVars => FiledUnderId'
  <2> SUFFICES ASSUME TableTypeOK, FiledUnderId, [TableNext]_tableVars
               PROVE  FiledUnderId'
    OBVIOUS
  <2>1. ASSUME NEW i \in SessionId, NEW v, sessions' = [sessions EXCEPT ![i] = v],
               v = None \/ v.id = i
        PROVE  FiledUnderId'
    BY <2>1 DEF FiledUnderId, Registered, TableTypeOK
  <2>2. ASSUME NEW t \in Task, InsertSession(t)
        PROVE  FiledUnderId'
    <3>1. registering[t].id \in SessionId
      BY <2>2 DEF InsertSession, TableTypeOK, SessionMetadata
    <3>2. QED
      BY <2>1, <2>2, <3>1 DEF InsertSession
  <2>3. ASSUME NEW i \in SessionId, DropSession(i)
        PROVE  FiledUnderId'
    BY <2>1, <2>3 DEF DropSession
  <2>4. ASSUME NEW i \in SessionId, MarkSessionUsed(i)
        PROVE  FiledUnderId'
    <3>1. sessions[i] \in SessionMetadata /\ sessions[i].id = i
      BY <2>4 DEF MarkSessionUsed, Registered, TableTypeOK, FiledUnderId
    <3>2. MarkUsed(sessions[i], clock).id = i
      BY <3>1, MetadataOperations DEF TableTypeOK, SessionStatus
    <3>3. QED
      BY <2>1, <2>4, <3>2 DEF MarkSessionUsed
  <2>5. ASSUME NEW i \in SessionId, NEW status \in SessionStatus, SetSessionStatus(i, status)
        PROVE  FiledUnderId'
    <3>1. sessions[i] \in SessionMetadata /\ sessions[i].id = i /\ status \in SessionStatus
      BY <2>5, TableAssumption DEF SetSessionStatus, Registered, TableTypeOK, FiledUnderId
    <3>2. SetStatus(sessions[i], status, clock).id = i
      BY <3>1, MetadataOperations DEF TableTypeOK
    <3>3. QED
      BY <2>1, <2>5, <3>2 DEF SetSessionStatus
  <2>6. ASSUME NEW m \in Snapshots, ReplaceSession(m)
        PROVE  FiledUnderId'
    BY <2>1, <2>6 DEF ReplaceSession, Registered
  <2>7. CASE ClearSessions
    BY <2>7 DEF ClearSessions, FiledUnderId, Registered
  <2>8. CASE UNCHANGED sessions
    BY <2>8 DEF FiledUnderId, Registered
  <2>9. QED
    BY <2>2, <2>3, <2>4, <2>5, <2>6, <2>7, <2>8
    DEF TableNext, AdmitSession, TableClockStep, tableVars
<1>3. QED
  BY <1>1, <1>2, TableTypeCorrect, PTL DEF TableSpec

\* Changing or removing an entry of the map registers nothing new.
LEMMA EntryChange ==
    ASSUME TableTypeOK, NEW i \in Registered, NEW v, sessions' = [sessions EXCEPT ![i] = v]
    PROVE  Registered' \subseteq Registered
BY DEF Registered, TableTypeOK

\* Every step that neither admits nor inserts leaves the calls of register alone
\* and registers nothing new.
LEMMA OtherTableSteps ==
    ASSUME TableTypeOK, [TableNext]_tableVars,
           ~ \E t \in Task, i \in SessionId, n \in Name, k \in ConnectionKey :
                AdmitSession(t, i, n, k),
           ~ \E t \in Task : InsertSession(t)
    PROVE  Registered' \subseteq Registered /\ UNCHANGED <<issued, registering>>
<1>1. CASE \E i \in SessionId : DropSession(i) \/ MarkSessionUsed(i)
  BY <1>1, EntryChange DEF DropSession, MarkSessionUsed
<1>2. CASE \E i \in SessionId, status \in SessionStatus : SetSessionStatus(i, status)
  BY <1>2, EntryChange DEF SetSessionStatus
<1>3. CASE \E m \in Snapshots : ReplaceSession(m)
  BY <1>3, EntryChange DEF ReplaceSession
<1>4. CASE ClearSessions
  BY <1>4 DEF ClearSessions, Registered
<1>5. CASE TableClockStep \/ UNCHANGED tableVars
  BY <1>5 DEF TableClockStep, tableVars, Registered
<1>6. QED
  BY <1>1, <1>2, <1>3, <1>4, <1>5 DEF TableNext

Registrars == {t \in Task : registering[t] # None}

\* Every register call that passed the check will insert one session.
RoomForRegistrars ==
    Cardinality(Registered) + Cardinality(Registrars) < MaxSessions + Cardinality(Task)

\* The two sets are finite, so their cardinalities are natural numbers.
LEMMA FiniteRegistry ==
    /\ IsFiniteSet(Registered) /\ Cardinality(Registered) \in Nat
    /\ IsFiniteSet(Registrars) /\ Cardinality(Registrars) \in Nat
    /\ Cardinality(Registrars) <= Cardinality(Task)
    /\ Cardinality(Task) \in Nat /\ Cardinality(Task) > 0
<1>1. Registered \subseteq SessionId /\ Registrars \subseteq Task
  BY DEF Registered, Registrars
<1>2. /\ IsFiniteSet(Registered) /\ IsFiniteSet(Registrars)
      /\ Cardinality(Registrars) <= Cardinality(Task)
  BY <1>1, SessionAssumption, FS_Subset
<1>3. Cardinality(Task) > 0
  BY SessionAssumption, FS_EmptySet, FS_CardinalityType
<1>4. QED
  BY <1>2, <1>3, SessionAssumption, FS_CardinalityType

\* With n concurrent callers of register the registry holds fewer than
\* max_sessions + n sessions, although the limit is checked under a lock that is
\* released before the insertion.
THEOREM SessionOvershootAlwaysBounded == TableSpec => []SessionOvershootBounded
<1>1. TableInit => RoomForRegistrars
  <2> SUFFICES ASSUME TableInit
               PROVE  RoomForRegistrars
    OBVIOUS
  <2>1. Registered = {} /\ Registrars = {}
    BY DEF TableInit, Registered, Registrars
  <2>2. QED
    BY <2>1, FiniteRegistry, FS_EmptySet, TableAssumption DEF RoomForRegistrars
<1>2. TableTypeOK /\ RoomForRegistrars /\ [TableNext]_tableVars => RoomForRegistrars'
  <2> SUFFICES ASSUME TableTypeOK, RoomForRegistrars, [TableNext]_tableVars
               PROVE  RoomForRegistrars'
    OBVIOUS
  <2>1. ASSUME NEW t \in Task, NEW i \in SessionId, NEW n \in Name, NEW k \in ConnectionKey,
               AdmitSession(t, i, n, k)
        PROVE  RoomForRegistrars'
    <3>1. Registered' = Registered /\ Cardinality(Registered) < MaxSessions
      BY <2>1 DEF AdmitSession, Registered
    <3>2. Registrars' \subseteq Task
      BY DEF Registrars
    <3>3. Cardinality(Registrars') <= Cardinality(Task) /\ Cardinality(Registrars') \in Nat
      BY <3>2, SessionAssumption, FS_Subset, FS_CardinalityType
    <3>4. QED
      BY <3>1, <3>3, FiniteRegistry, TableAssumption DEF RoomForRegistrars
  <2>2. ASSUME NEW t \in Task, InsertSession(t)
        PROVE  RoomForRegistrars'
    <3> DEFINE id == registering[t].id
    <3>1. registering[t] \in SessionMetadata /\ id \in SessionId /\ t \in Registrars
      BY <2>2 DEF InsertSession, TableTypeOK, SessionMetadata, Registrars
    <3>2. Registrars' = Registrars \ {t}
      BY <2>2 DEF InsertSession, TableTypeOK, Registrars
    <3>3. Registered' = Registered \cup {id}
      BY <2>2, <3>1 DEF InsertSession, TableTypeOK, Registered
    <3>4. Cardinality(Registrars') = Cardinality(Registrars) - 1
      BY <3>1, <3>2, FiniteRegistry, FS_RemoveElement
    <3>5. Cardinality(Registered \cup {id})
             \in {Cardinality(Registered), Cardinality(Registered) + 1}
      BY FiniteRegistry, FS_AddElement
    <3>6. QED
      BY <3>3, <3>4, <3>5, FiniteRegistry, TableAssumption DEF RoomForRegistrars
  <2>3. ASSUME Registered' \subseteq Registered, UNCHANGED <<issued, registering>>
        PROVE  RoomForRegistrars'
    <3>1. Registrars' = Registrars
      BY <2>3 DEF Registrars
    <3>2. Cardinality(Registered') <= Cardinality(Registered) /\ Cardinality(Registered') \in Nat
      BY <2>3, FiniteRegistry, FS_Subset, FS_CardinalityType
    <3>3. QED
      BY <3>1, <3>2, FiniteRegistry, TableAssumption DEF RoomForRegistrars
  <2>4. QED
    BY <2>1, <2>2, <2>3, OtherTableSteps
<1>3. RoomForRegistrars => SessionOvershootBounded
  BY FiniteRegistry, TableAssumption DEF RoomForRegistrars, SessionOvershootBounded
<1>4. QED
  BY <1>1, <1>2, <1>3, TableTypeCorrect, PTL DEF TableSpec

\* One step of the map never brings a session back; the non-temporal core of
\* SessionsGoneForever.
LEMMA GoneStaysGone ==
    ASSUME TableTypeOK, IdsDistinct, [TableNext]_tableVars
    PROVE  Gone \subseteq Gone'
<1>1. ASSUME NEW t \in Task, NEW i \in SessionId, NEW n \in Name, NEW k \in ConnectionKey,
             AdmitSession(t, i, n, k)
      PROVE  Gone \subseteq Gone'
  <2>1. /\ registering'[t].id = i
        /\ \A u \in Task : u # t => registering'[u] = registering[u]
        /\ Registered' = Registered
    BY <1>1, AdmittedMetadata DEF AdmitSession, TableTypeOK, Registered
  <2>2. issued' = issued \cup {i} /\ i \notin issued
    BY <1>1 DEF AdmitSession
  <2>3. QED
    BY <2>1, <2>2 DEF Gone
<1>2. ASSUME NEW t \in Task, InsertSession(t)
      PROVE  Gone \subseteq Gone'
  <2>1. registering[t] \in SessionMetadata /\ registering[t].id \in SessionId
    BY <1>2 DEF InsertSession, TableTypeOK, SessionMetadata
  <2>2. Registered' = Registered \cup {registering[t].id}
    BY <1>2, <2>1 DEF InsertSession, TableTypeOK, Registered
  <2>3. /\ registering'[t] = None
        /\ \A u \in Task : u # t => registering'[u] = registering[u]
        /\ issued' = issued
    BY <1>2 DEF InsertSession, TableTypeOK
  <2>4. QED
    BY <1>2, <2>2, <2>3 DEF Gone, InsertSession
<1>3. ASSUME Registered' \subseteq Registered, UNCHANGED <<issued, registering>>
      PROVE  Gone \subseteq Gone'
  BY <1>3 DEF Gone
<1>4. QED
  BY <1>1, <1>2, <1>3, OtherTableSteps

\* A session that left the map never comes back: no update, status change or use
\* that races with its removal resurrects it.
THEOREM SessionsGoneForever == TableSpec => GoneForever
<1>1. TableTypeOK /\ IdsDistinct /\ [TableNext]_tableVars => Gone \subseteq Gone'
  BY GoneStaysGone
<1>2. QED
  BY <1>1, TableTypeCorrect, TableIdsDistinct, PTL DEF TableSpec, GoneForever
=================================================================================
