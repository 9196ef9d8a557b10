----------------------- MODULE SessionRegistryProofs -----------------------
(* Proofs about SessionRegistry for every set of sessions, names, keys, tasks *)
(* and snapshots and every configuration.                                    *)
EXTENDS SessionRegistry, SessionTableProofs

USE NoneAssumption, RegistryAssumption DEF IndexUpdate, IndexSteps

(* The map under the indexes.                                               *)

\* The registry's actions are put together from those of the map, so what is proved
\* of the map holds of the registry.
LEMMA RegistryIsTable == RegistrySpec => TableSpec
<1>1. RegistryInit => TableInit
  BY DEF RegistryInit
<1>2. [RegistryNext]_registryVars => [TableNext]_tableVars
  <2> SUFFICES ASSUME [RegistryNext]_registryVars
               PROVE  [TableNext]_tableVars
    OBVIOUS
  <2>1. CASE \E t \in Task, i \in SessionId, n \in Name, k \in ConnectionKey :
                RegisterCheck(t, i, n, k)
    BY <2>1 DEF RegisterCheck, TableNext
  <2>2. CASE \E t \in Task : RegisterInsert(t)
    BY <2>2 DEF RegisterInsert, TableNext
  <2>3. CASE \E t \in Task : \/ RegisterName(t) \/ RegisterConnection(t)
                             \/ UnregisterName(t) \/ UnregisterConnection(t)
    BY <2>3 DEF RegisterName, RegisterConnection, UnregisterName, UnregisterConnection
  <2>4. CASE \E t \in Task, i \in SessionId : UnregisterRemove(t, i)
    BY <2>4 DEF UnregisterRemove, TableNext
  <2>5. CASE \E m \in Snapshots : Update(m)
    BY <2>5 DEF Update, TableNext
  <2>6. CASE \E i \in SessionId, status \in Statuses : UpdateStatus(i, status)
    BY <2>6, TableAssumption DEF UpdateStatus, TableNext
  <2>7. CASE \E i \in SessionId : MarkUsedInRegistry(i)
    BY <2>7 DEF MarkUsedInRegistry, TableNext
  <2>8. CASE ClearRegistry \/ RegistryClockStep
    BY <2>8 DEF ClearRegistry, RegistryClockStep, TableNext
  <2>9. CASE UNCHANGED registryVars
    BY <2>9 DEF registryVars, tableVars
  <2>10. QED
    BY <2>1, <2>2, <2>3, <2>4, <2>5, <2>6, <2>7, <2>8, <2>9 DEF RegistryNext
<1>3. QED
  BY <1>1, <1>2, PTL DEF RegistrySpec, TableSpec

-----------------------------------------------------------------------------
(* The indexes.                                                             *)

\* What push and retain do to an index.
LEMMA IndexOperations ==
    ASSUME NEW K, NEW index \in [K -> [SessionId -> Nat]], NEW k \in K, NEW i \in SessionId
    PROVE  /\ Push(index, k, i) \in [K -> [SessionId -> Nat]]
           /\ Retain(index, k, i) \in [K -> [SessionId -> Nat]]
           /\ Push(index, k, i)[k][i] > 0
           /\ \A l \in K, j \in SessionId : j # i =>
                 /\ Push(index, k, i)[l][j] = index[l][j]
                 /\ Retain(index, k, i)[l][j] = index[l][j]
           /\ \A l \in K, j \in SessionId : index[l][j] > 0 => Push(index, k, i)[l][j] > 0
BY DEF Push, Retain

\* The indexes and the index updates that tasks still owe stay well typed.
THEOREM RegistryTypeCorrect == RegistrySpec => []RegistryTypeOK
<1>1. RegistryInit => RegistryTypeOK
  BY DEF RegistryInit, RegistryTypeOK, TableInit, TableTypeOK
<1>2. RegistryTypeOK /\ TableTypeOK' /\ [RegistryNext]_registryVars => RegistryTypeOK'
  <2> SUFFICES ASSUME RegistryTypeOK, TableTypeOK', [RegistryNext]_registryVars
               PROVE  RegistryTypeOK'
    OBVIOUS
  <2>1. ASSUME NEW t \in Task, RegisterInsert(t)
        PROVE  RegistryTypeOK'
    <3>1. registering[t] \in SessionMetadata
      BY <2>1 DEF RegisterInsert, InsertSession, RegistryTypeOK, TableTypeOK
    <3>2. QED
      BY <2>1, <3>1 DEF RegisterInsert, RegistryTypeOK, indexes
  <2>2. ASSUME NEW t \in Task, NEW i \in SessionId, UnregisterRemove(t, i)
        PROVE  RegistryTypeOK'
    <3>1. sessions[i] \in SessionMetadata
      BY <2>2 DEF UnregisterRemove, DropSession, Registered, RegistryTypeOK, TableTypeOK
    <3>2. QED
      BY <2>2, <3>1 DEF UnregisterRemove, RegistryTypeOK, indexes
  <2>3. ASSUME NEW t \in Task, indexing[t] # None
        PROVE  /\ indexing[t] \in IndexUpdate
               /\ indexing[t].m.id \in SessionId
               /\ indexing[t].m.name \in Name
               /\ indexing[t].m.connection_key \in ConnectionKey
    BY <2>3 DEF RegistryTypeOK, SessionMetadata
  <2>4. ASSUME NEW t \in Task, RegisterName(t)
        PROVE  RegistryTypeOK'
    BY <2>3, <2>4 DEF RegisterName, Push, RegistryTypeOK
  <2>5. ASSUME NEW t \in Task, UnregisterName(t)
        PROVE  RegistryTypeOK'
    BY <2>3, <2>5 DEF UnregisterName, Retain, RegistryTypeOK
  <2>6. ASSUME NEW t \in Task, RegisterConnection(t)
        PROVE  RegistryTypeOK'
    BY <2>3, <2>6 DEF RegisterConnection, Push, RegistryTypeOK
  <2>7. ASSUME NEW t \in Task, UnregisterConnection(t)
        PROVE  RegistryTypeOK'
    BY <2>3, <2>7 DEF UnregisterConnection, Retain, RegistryTypeOK
  <2>8. ASSUME NEW m \in Snapshots, Update(m)
        PROVE  RegistryTypeOK'
    <3>1. m \in SessionMetadata /\ sessions[m.id] \in SessionMetadata
      BY <2>8, SessionAssumption
      DEF Update, ReplaceSession, Registered, RegistryTypeOK, TableTypeOK
    <3>2. /\ m.id \in SessionId
          /\ m.name \in Name /\ sessions[m.id].name \in Name
          /\ m.connection_key \in ConnectionKey
          /\ sessions[m.id].connection_key \in ConnectionKey
      BY <3>1 DEF SessionMetadata
    <3>3. connection_index' \in [ConnectionKey -> [SessionId -> Nat]]
      BY <2>8, <3>2, IndexOperations DEF Update, RegistryTypeOK
    <3>4. name_index' \in [Name -> [SessionId -> Nat]]
      BY <2>8, <3>2, IndexOperations DEF Update, RegistryTypeOK
    <3>5. QED
      BY <2>8, <3>3, <3>4 DEF Update, RegistryTypeOK
  <2>9. CASE ClearRegistry
    BY <2>9 DEF ClearRegistry, RegistryTypeOK
  <2>10. CASE UNCHANGED <<name_index, connection_index, indexing>>
    BY <2>10 DEF RegistryTypeOK
  <2>11. QED
    BY <2>1, <2>2, <2>4, <2>5, <2>6, <2>7, <2>8, <2>9, <2>10
    DEF RegistryNext, RegisterCheck, UpdateStatus, MarkUsedInRegistry, RegistryClockStep,
        registryVars, indexes
<1>3. QED
  BY <1>1, <1>2, RegistryIsTable, TableTypeCorrect, PTL
  DEF RegistrySpec

\* A task that still has to clear index entries works for a session that is gone
\* for good, and a task about to insert owes no index update.
IndexDebts ==
    \A t \in Task :
        /\ registering[t] # None => indexing[t] = None
        /\ indexing[t] # None /\ indexing[t].step \in {"retain_name", "retain_connection"}
           => indexing[t].m.id \in Gone

\* What tasks owe the indexes is always consistent with the map.
THEOREM RegistryIndexDebts == RegistrySpec => []IndexDebts
<1>1. RegistryInit => IndexDebts
  BY DEF RegistryInit, TableInit, IndexDebts
<1>2. RegistryTypeOK /\ IdsDistinct /\ FiledUnderId /\ IndexDebts /\ [TableNext]_tableVars
      /\ [RegistryNext]_registryVars => IndexDebts'
  <2> SUFFICES ASSUME RegistryTypeOK, IdsDistinct, FiledUnderId, IndexDebts, [TableNext]_tableVars,
                      [RegistryNext]_registryVars
               PROVE  IndexDebts'
    OBVIOUS
  <2>0. TableTypeOK /\ Gone \subseteq Gone'
    BY GoneStaysGone DEF RegistryTypeOK
  <2>1. ASSUME NEW t \in Task, NEW i \in SessionId, NEW n \in Name, NEW k \in ConnectionKey,
               RegisterCheck(t, i, n, k)
        PROVE  IndexDebts'
    BY <2>0, <2>1 DEF RegisterCheck, AdmitSession, Free, IndexDebts, RegistryTypeOK, TableTypeOK
  <2>2. ASSUME NEW t \in Task, RegisterInsert(t)
        PROVE  IndexDebts'
    BY <2>0, <2>2 DEF RegisterInsert, InsertSession, IndexDebts, RegistryTypeOK, TableTypeOK
  <2>3. ASSUME NEW t \in Task, RegisterName(t) \/ UnregisterName(t)
        PROVE  IndexDebts'
    BY <2>0, <2>3 DEF RegisterName, UnregisterName, tableVars, IndexDebts, RegistryTypeOK
  <2>4. ASSUME NEW t \in Task, RegisterConnection(t) \/ UnregisterConnection(t)
        PROVE  IndexDebts'
    BY <2>0, <2>4
    DEF RegisterConnection, UnregisterConnection, tableVars, IndexDebts, RegistryTypeOK
  <2>5. ASSUME NEW t \in Task, NEW i \in SessionId, UnregisterRemove(t, i)
        PROVE  IndexDebts'
    <3>1. i \in Registered /\ sessions' = [sessions EXCEPT ![i] = None]
          /\ UNCHANGED <<issued, registering>>
      BY <2>5 DEF UnregisterRemove, DropSession
    <3>2. i \in Gone' /\ sessions[i].id = i
      BY <3>1 DEF FiledUnderId, IdsDistinct, Gone, Registered, RegistryTypeOK, TableTypeOK
    <3>3. QED
      BY <2>0, <2>5, <3>1, <3>2
      DEF UnregisterRemove, Free, IndexDebts, RegistryTypeOK, TableTypeOK
  <2>6. CASE UNCHANGED <<registering, indexing>>
    BY <2>0, <2>6 DEF IndexDebts
  <2>7. QED
    BY <2>1, <2>2, <2>3, <2>4, <2>5, <2>6
    DEF RegistryNext, Update, ReplaceSession, UpdateStatus, SetSessionStatus, MarkUsedInRegistry,
        MarkSessionUsed, ClearRegistry, ClearSessions, RegistryClockStep, TableClockStep, registryVars
<1>3. QED
  BY <1>1, <1>2, RegistryTypeCorrect, RegistryIsTable, TableIdsDistinct, TableFiledUnderId, PTL
  DEF RegistrySpec, TableSpec

\* Of a registered session: its name is indexed, or some register call owes it.
NameListed(i) ==
    i \in ListByName(sessions[i].name) \/ \E t \in Task : OwesName(t, i)

ConnectionListed(i) ==
    \/ i \in ListByConnectionKey(sessions[i].connection_key)
    \/ \E t \in Task : OwesConnection(t, i)

\* A step that leaves an entry's name and key, its index entries and what is owed
\* to it as they were leaves it listed.
LEMMA StaysListed ==
    ASSUME RegistryTypeOK, RegistryTypeOK',
           NEW i \in Registered, NameListed(i), ConnectionListed(i),
           i \in Registered',
           sessions'[i].name = sessions[i].name,
           sessions'[i].connection_key = sessions[i].connection_key,
           \A n \in Name : name_index[n][i] > 0 => name_index'[n][i] > 0,
           \A k \in ConnectionKey : connection_index[k][i] > 0 => connection_index'[k][i] > 0,
           \A t \in Task : OwesName(t, i) => OwesName(t, i)' \/ name_index'[sessions[i].name][i] > 0,
           \A t \in Task : OwesConnection(t, i) =>
              OwesConnection(t, i)' \/ connection_index'[sessions[i].connection_key][i] > 0
    PROVE  NameListed(i)' /\ ConnectionListed(i)'
<1>1. i \in SessionId /\ sessions[i].name \in Name /\ sessions[i].connection_key \in ConnectionKey
  BY DEF Registered, RegistryTypeOK, TableTypeOK, SessionMetadata
<1>2. (\E t \in Task : OwesName(t, i)) => EnableNameIndex \/ i \in ListByName(sessions[i].name)
  BY DEF ListByName
<1>3. NameListed(i)'
  BY <1>1, <1>2 DEF NameListed, ListByName
<1>4. ConnectionListed(i)'
  BY <1>1 DEF ConnectionListed, ListByConnectionKey
<1>5. QED
  BY <1>3, <1>4

\* The lookups miss no session whose register call has finished, however register,
\* unregister, update and clear interleave between their critical sections.
THEOREM LookupAlwaysComplete == RegistrySpec => []LookupComplete
<1> DEFINE Listed == \A i \in Registered : NameListed(i) /\ ConnectionListed(i)
<1>1. RegistryInit => Listed
  BY DEF RegistryInit, TableInit, Registered
<1>2. /\ RegistryTypeOK /\ RegistryTypeOK' /\ FiledUnderId /\ IndexDebts /\ Listed
      /\ [RegistryNext]_registryVars
      => Listed'
  <2> SUFFICES ASSUME RegistryTypeOK, RegistryTypeOK', FiledUnderId, IndexDebts, Listed,
                      [RegistryNext]_registryVars, NEW i \in Registered'
               PROVE  NameListed(i)' /\ ConnectionListed(i)'
    OBVIOUS
  <2>0. i \in SessionId
    BY DEF Registered
  <2>1. ASSUME NEW t \in Task, RegisterInsert(t)
        PROVE  NameListed(i)' /\ ConnectionListed(i)'
    <3> DEFINE m == registering[t]
    <3>1. m \in SessionMetadata /\ m.id \in SessionId /\ indexing[t] = None
      BY <2>1
      DEF RegisterInsert, InsertSession, IndexDebts, RegistryTypeOK, TableTypeOK, SessionMetadata
    <3>2. /\ sessions' = [sessions EXCEPT ![m.id] = m]
          /\ indexing' = [indexing EXCEPT ![t] =
                [step |-> IF EnableNameIndex THEN "push_name" ELSE "push_connection", m |-> m]]
          /\ UNCHANGED <<name_index, connection_index>>
      BY <2>1 DEF RegisterInsert, InsertSession, indexes
    <3>3. CASE i = m.id
      <4>1. sessions'[i] = m /\ indexing'[t].m = m /\ indexing'[t] # None
            /\ indexing'[t].step = IF EnableNameIndex THEN "push_name" ELSE "push_connection"
        BY <3>1, <3>2, <3>3 DEF RegistryTypeOK, TableTypeOK
      <4>2. NameListed(i)'
        BY <3>3, <4>1 DEF NameListed, OwesName, ListByName
      <4>3. ConnectionListed(i)'
        BY <3>3, <4>1 DEF ConnectionListed, OwesConnection
      <4>4. QED
        BY <4>2, <4>3
    <3>4. CASE i # m.id
      <4>1. sessions'[i] = sessions[i] /\ i \in Registered
        BY <2>0, <3>1, <3>2, <3>4 DEF Registered, RegistryTypeOK, TableTypeOK
      <4>2. \A u \in Task : /\ OwesName(u, i) => OwesName(u, i)'
                            /\ OwesConnection(u, i) => OwesConnection(u, i)'
        BY <3>1, <3>2, <4>1 DEF OwesName, OwesConnection, RegistryTypeOK
      <4>3. QED
        BY <3>2, <4>1, <4>2, StaysListed
    <3>5. QED
      BY <3>3, <3>4
  <2>2. ASSUME NEW t \in Task, indexing[t] # None
        PROVE  /\ indexing[t].m.id \in SessionId
               /\ indexing[t].m.name \in Name
               /\ indexing[t].m.connection_key \in ConnectionKey
    BY <2>2 DEF RegistryTypeOK, SessionMetadata
  <2>3. ASSUME NEW t \in Task, RegisterName(t)
        PROVE  NameListed(i)' /\ ConnectionListed(i)'
    <3>1. sessions' = sessions /\ i \in Registered /\ connection_index' = connection_index
      BY <2>3 DEF RegisterName, tableVars, Registered
    <3>2. \A n \in Name : name_index[n][i] > 0 => name_index'[n][i] > 0
      BY <2>0, <2>2, <2>3 DEF RegisterName, Push, RegistryTypeOK
    <3>3. \A u \in Task : OwesName(u, i) =>
             OwesName(u, i)' \/ name_index'[sessions[i].name][i] > 0
      BY <2>2, <2>3, <3>1 DEF RegisterName, Push, OwesName, RegistryTypeOK
    <3>4. \A u \in Task : OwesConnection(u, i) => OwesConnection(u, i)'
      BY <2>3, <3>1 DEF RegisterName, OwesConnection, RegistryTypeOK
    <3>5. QED
      BY <3>1, <3>2, <3>3, <3>4, StaysListed
  <2>4. ASSUME NEW t \in Task, RegisterConnection(t)
        PROVE  NameListed(i)' /\ ConnectionListed(i)'
    <3>1. sessions' = sessions /\ i \in Registered /\ name_index' = name_index
      BY <2>4 DEF RegisterConnection, tableVars, Registered
    <3>2. \A k \in ConnectionKey : connection_index[k][i] > 0 => connection_index'[k][i] > 0
      BY <2>0, <2>2, <2>4 DEF RegisterConnection, Push, RegistryTypeOK
    <3>3. \A u \in Task : OwesConnection(u, i) =>
             OwesConnection(u, i)' \/ connection_index'[sessions[i].connection_key][i] > 0
      BY <2>2, <2>4, <3>1 DEF RegisterConnection, Push, OwesConnection, RegistryTypeOK
    <3>4. \A u \in Task : OwesName(u, i) => OwesName(u, i)'
      BY <2>4, <3>1 DEF RegisterConnection, OwesName, RegistryTypeOK
    <3>5. QED
      BY <3>1, <3>2, <3>3, <3>4, StaysListed
  <2>5. ASSUME NEW t \in Task, UnregisterName(t) \/ UnregisterConnection(t)
        PROVE  NameListed(i)' /\ ConnectionListed(i)'
    <3>1. sessions' = sessions /\ i \in Registered
      BY <2>5 DEF UnregisterName, UnregisterConnection, tableVars, Registered
    <3>2. indexing[t].m.id # i
      BY <2>5, <3>1 DEF UnregisterName, UnregisterConnection, IndexDebts, Gone
    <3>3. \A n \in Name : name_index'[n][i] = name_index[n][i]
      BY <2>0, <2>2, <2>5, <3>2
      DEF UnregisterName, UnregisterConnection, Retain, RegistryTypeOK
    <3>4. \A k \in ConnectionKey : connection_index'[k][i] = connection_index[k][i]
      BY <2>0, <2>2, <2>5, <3>2
      DEF UnregisterName, UnregisterConnection, Retain, RegistryTypeOK
    <3>5. \A u \in Task : /\ OwesName(u, i) => OwesName(u, i)'
                          /\ OwesConnection(u, i) => OwesConnection(u, i)'
      BY <2>5, <3>1, <3>2
      DEF UnregisterName, UnregisterConnection, OwesName, OwesConnection, RegistryTypeOK
    <3>6. QED
      BY <3>1, <3>3, <3>4, <3>5, StaysListed
  <2>6. ASSUME NEW t \in Task, NEW j \in SessionId, UnregisterRemove(t, j)
        PROVE  NameListed(i)' /\ ConnectionListed(i)'
    <3>1. /\ sessions'[i] = sessions[i] /\ i \in Registered
          /\ UNCHANGED <<name_index, connection_index>>
      BY <2>0, <2>6
      DEF UnregisterRemove, DropSession, Registered, RegistryTypeOK, TableTypeOK, indexes
    <3>2. \A u \in Task : /\ OwesName(u, i) => OwesName(u, i)'
                          /\ OwesConnection(u, i) => OwesConnection(u, i)'
      BY <2>6, <3>1 DEF UnregisterRemove, Free, OwesName, OwesConnection, RegistryTypeOK
    <3>3. QED
      BY <3>1, <3>2, StaysListed
  <2>7. ASSUME NEW m \in Snapshots, Update(m)
        PROVE  NameListed(i)' /\ ConnectionListed(i)'
    <3> DEFINE old == sessions[m.id]
    <3>1. m \in SessionMetadata /\ m.id \in Registered /\ old \in SessionMetadata
      BY <2>7, SessionAssumption
      DEF Update, ReplaceSession, Registered, RegistryTypeOK, TableTypeOK
    <3>2. /\ m.id \in SessionId /\ m.name \in Name /\ old.name \in Name
          /\ m.connection_key \in ConnectionKey /\ old.connection_key \in ConnectionKey
      BY <3>1 DEF SessionMetadata
    <3>3. sessions' = [sessions EXCEPT ![m.id] = m] /\ indexing' = indexing
      BY <2>7 DEF Update, ReplaceSession
    <3>4. i \in Registered
      BY <3>1, <3>3 DEF Registered, RegistryTypeOK, TableTypeOK
    <3>5. CASE i # m.id
      <4>1. sessions'[i] = sessions[i]
        BY <2>0, <3>2, <3>3, <3>5 DEF RegistryTypeOK, TableTypeOK
      <4>2. \A n \in Name : name_index'[n][i] = name_index[n][i]
        BY <2>0, <2>7, <3>2, <3>5 DEF Update, Push, Retain, RegistryTypeOK
      <4>3. \A k \in ConnectionKey : connection_index'[k][i] = connection_index[k][i]
        BY <2>0, <2>7, <3>2, <3>5 DEF Update, Push, Retain, RegistryTypeOK
      <4>4. \A u \in Task : /\ OwesName(u, i) => OwesName(u, i)'
                            /\ OwesConnection(u, i) => OwesConnection(u, i)'
        BY <3>3, <4>1 DEF OwesName, OwesConnection
      <4>5. QED
        BY <3>4, <4>1, <4>2, <4>3, <4>4, StaysListed
    <3>6. CASE i = m.id
      <4>1. sessions'[i] = m /\ sessions[i] = old
        BY <3>2, <3>3, <3>6 DEF RegistryTypeOK, TableTypeOK
      <4>2. NameListed(i)'
        <5>1. CASE old.name = m.name
          BY <2>7, <3>3, <3>4, <4>1, <5>1 DEF Update, NameListed, OwesName, ListByName
        <5>2. CASE old.name # m.name /\ EnableNameIndex
          <6>1. name_index' = Push(Retain(name_index, old.name, m.id), m.name, m.id)
            BY <2>7, <5>2 DEF Update
          <6>2. Retain(name_index, old.name, m.id) \in [Name -> [SessionId -> Nat]]
            BY <3>2 DEF Retain, RegistryTypeOK
          <6>3. name_index'[m.name][i] > 0
            BY <3>2, <3>6, <6>1, <6>2 DEF Push
          <6>4. QED
            BY <4>1, <5>2, <6>3 DEF NameListed, ListByName
        <5>3. CASE ~EnableNameIndex
          BY <5>3 DEF NameListed, ListByName
        <5>4. QED
          BY <5>1, <5>2, <5>3
      <4>3. ConnectionListed(i)'
        <5>1. CASE old.connection_key = m.connection_key
          BY <2>7, <3>3, <3>4, <4>1, <5>1
          DEF Update, ConnectionListed, OwesConnection, ListByConnectionKey
        <5>2. CASE old.connection_key # m.connection_key
          <6>1. connection_index' = Push(Retain(connection_index, old.connection_key, m.id),
                                         m.connection_key, m.id)
            BY <2>7, <5>2 DEF Update
          <6>2. Retain(connection_index, old.connection_key, m.id)
                   \in [ConnectionKey -> [SessionId -> Nat]]
            BY <3>2 DEF Retain, RegistryTypeOK
          <6>3. connection_index'[m.connection_key][i] > 0
            BY <3>2, <3>6, <6>1, <6>2 DEF Push
          <6>4. QED
            BY <4>1, <6>3 DEF ConnectionListed, ListByConnectionKey
        <5>3. QED
          BY <5>1, <5>2
      <4>4. QED
        BY <4>2, <4>3
    <3>7. QED
      BY <3>5, <3>6
  <2>8. ASSUME i \in Registered, UNCHANGED <<name_index, connection_index, indexing>>,
               sessions'[i].name = sessions[i].name,
               sessions'[i].connection_key = sessions[i].connection_key
        PROVE  NameListed(i)' /\ ConnectionListed(i)'
    BY <2>8, StaysListed DEF OwesName, OwesConnection
  <2>9. ASSUME NEW j \in SessionId, NEW status \in Statuses, UpdateStatus(j, status)
        PROVE  NameListed(i)' /\ ConnectionListed(i)'
    <3>1. sessions[j] \in SessionMetadata /\ status \in SessionStatus /\ clock \in ClockValues
      BY <2>9, TableAssumption
      DEF UpdateStatus, SetSessionStatus, Registered, RegistryTypeOK, TableTypeOK
    <3>2. i \in Registered /\ UNCHANGED <<name_index, connection_index, indexing>>
          /\ sessions'[i] = IF i = j THEN SetStatus(sessions[j], status, clock) ELSE sessions[i]
      BY <2>0, <2>9
      DEF UpdateStatus, SetSessionStatus, Registered, RegistryTypeOK, TableTypeOK, indexes
    <3>3. QED
      BY <2>8, <3>1, <3>2, MetadataOperations
  <2>10. ASSUME NEW j \in SessionId, MarkUsedInRegistry(j)
        PROVE  NameListed(i)' /\ ConnectionListed(i)'
    <3>1. sessions[j] \in SessionMetadata /\ clock \in ClockValues /\ "Idle" \in SessionStatus
      BY <2>10
      DEF MarkUsedInRegistry, MarkSessionUsed, Registered, RegistryTypeOK, TableTypeOK, SessionStatus
    <3>2. i \in Registered /\ UNCHANGED <<name_index, connection_index, indexing>>
          /\ sessions'[i] = IF i = j THEN MarkUsed(sessions[j], clock) ELSE sessions[i]
      BY <2>0, <2>10
      DEF MarkUsedInRegistry, MarkSessionUsed, Registered, RegistryTypeOK, TableTypeOK, indexes
    <3>3. QED
      BY <2>8, <3>1, <3>2, MetadataOperations
  <2>11. CASE ClearRegistry
    BY <2>11 DEF ClearRegistry, ClearSessions, Registered
  <2>12. CASE UNCHANGED <<sessions, name_index, connection_index, indexing>>
    BY <2>8, <2>12 DEF Registered
  <2>13. QED
    BY <2>1, <2>3, <2>4, <2>5, <2>6, <2>7, <2>9, <2>10, <2>11, <2>12
    DEF RegistryNext, RegisterCheck, AdmitSession, RegistryClockStep, TableClockStep,
        registryVars, indexes
<1>3. Listed => LookupComplete
  BY DEF LookupComplete, NameListed, ConnectionListed
<1>4. QED
  BY <1>1, <1>2, <1>3, RegistryTypeCorrect, RegistryIndexDebts, RegistryIsTable,
     TableFiledUnderId, PTL
  DEF RegistrySpec
=============================================================================
