-------------------------- MODULE SessionRegistry --------------------------
(***************************************************************************)
(* The session registry with its name and connection indexes               *)
(* (core/src/session/registry.rs).  The three maps have a lock each.       *)
(* register and unregister change them one after the other, releasing each *)
(* lock before they take the next: indexing[t] is the index update a task  *)
(* still owes.  update and clear nest the locks, so they are one step.     *)
(***************************************************************************)
EXTENDS SessionTable

CONSTANTS AllowDuplicateNames, EnableNameIndex   \* SessionRegistryConfig

VARIABLES
    name_index,        \* name -> how often each id is in its Vec
    connection_index,  \* connection key -> how often each id is in its Vec
    indexing           \* task -> [step, m]: the next index update, or None

registryVars == <<sessions, issued, registering, clock,
                  name_index, connection_index, indexing>>

IndexSteps == {"push_name", "push_connection", "retain_name", "retain_connection"}

IndexUpdate == [step : IndexSteps, m : SessionMetadata]

ASSUME RegistryAssumption ==
    /\ AllowDuplicateNames \in BOOLEAN /\ EnableNameIndex \in BOOLEAN
    /\ None \notin IndexUpdate

RegistryTypeOK ==
    /\ TableTypeOK
    /\ name_index \in [Name -> [SessionId -> Nat]]
    /\ connection_index \in [ConnectionKey -> [SessionId -> Nat]]
    /\ indexing \in [Task -> IndexUpdate \cup {None}]

RegistryInit ==
    /\ TableInit
    /\ name_index = [n \in Name |-> [i \in SessionId |-> 0]]
    /\ connection_index = [k \in ConnectionKey |-> [i \in SessionId |-> 0]]
    /\ indexing = [t \in Task |-> None]

indexes == <<name_index, connection_index>>

Free(t) == registering[t] = None /\ indexing[t] = None

\* entry(key).or_default().push(id), and retain(|x| x != id) on one key.
Push(index, key, i) == [index EXCEPT ![key][i] = @ + 1]
Retain(index, key, i) == [index EXCEPT ![key][i] = 0]

-----------------------------------------------------------------------------
(* register: checks, insertion, then one index after the other.            *)
RegisterCheck(t, i, n, k) ==
    /\ Free(t)
    /\ AdmitSession(t, i, n, k)
    /\ AllowDuplicateNames \/ \A j \in SessionId : name_index[n][j] = 0
    /\ UNCHANGED <<indexes, indexing>>

RegisterInsert(t) ==
    /\ InsertSession(t)
    /\ indexing' = [indexing EXCEPT ![t] =
          [step |-> IF EnableNameIndex THEN "push_name" ELSE "push_connection",
           m |-> registering[t]]]
    /\ UNCHANGED indexes

\* Mutation: the connection index is forgotten.
RegisterNameOnly(t) ==
    /\ indexing[t] # None /\ indexing[t].step = "push_name"
    /\ name_index' = Push(name_index, indexing[t].m.name, indexing[t].m.id)
    /\ indexing' = [indexing EXCEPT ![t] = None]
    /\ UNCHANGED <<tableVars, connection_index>>

RegisterName(t) ==
    /\ indexing[t] # None /\ indexing[t].step = "push_name"
    /\ name_index' = Push(name_index, indexing[t].m.name, indexing[t].m.id)
    /\ indexing' = [indexing EXCEPT ![t].step = "push_connection"]
    /\ UNCHANGED <<tableVars, connection_index>>

RegisterConnection(t) ==
    LET m == indexing[t].m IN
    /\ indexing[t] # None /\ indexing[t].step = "push_connection"
    /\ connection_index' = Push(connection_index, m.connection_key, m.id)
    /\ indexing' = [indexing EXCEPT ![t] = None]
    /\ UNCHANGED <<tableVars, name_index>>

(* unregister: removal, then one index after the other, under the name and *)
(* key the metadata had when it was removed.                               *)
UnregisterRemove(t, i) ==
    /\ Free(t)
    /\ DropSession(i)
    /\ indexing' = [indexing EXCEPT ![t] =
          [step |-> IF EnableNameIndex THEN "retain_name" ELSE "retain_connection",
           m |-> sessions[i]]]
    /\ UNCHANGED indexes

UnregisterName(t) ==
    /\ indexing[t] # None /\ indexing[t].step = "retain_name"
    /\ name_index' = Retain(name_index, indexing[t].m.name, indexing[t].m.id)
    /\ indexing' = [indexing EXCEPT ![t].step = "retain_connection"]
    /\ UNCHANGED <<tableVars, connection_index>>

UnregisterConnection(t) ==
    LET m == indexing[t].m IN
    /\ indexing[t] # None /\ indexing[t].step = "retain_connection"
    /\ connection_index' = Retain(connection_index, m.connection_key, m.id)
    /\ indexing' = [indexing EXCEPT ![t] = None]
    /\ UNCHANGED <<tableVars, name_index>>

(* update moves the id between the groups of both indexes while it holds   *)
(* the map's write lock.                                                   *)
Update(m) ==
    LET old == sessions[m.id] IN
    /\ ReplaceSession(m)
    /\ connection_index' =
          IF old.connection_key = m.connection_key THEN connection_index
          ELSE Push(Retain(connection_index, old.connection_key, m.id), m.connection_key, m.id)
    /\ name_index' =
          IF ~EnableNameIndex \/ old.name = m.name THEN name_index
          ELSE Push(Retain(name_index, old.name, m.id), m.name, m.id)
    /\ UNCHANGED indexing

UpdateStatus(i, status) ==
    /\ SetSessionStatus(i, status)
    /\ UNCHANGED <<indexes, indexing>>

MarkUsedInRegistry(i) ==
    /\ MarkSessionUsed(i)
    /\ UNCHANGED <<indexes, indexing>>

ClearRegistry ==
    /\ ClearSessions
    /\ name_index' = [n \in Name |-> [i \in SessionId |-> 0]]
    /\ connection_index' = [k \in ConnectionKey |-> [i \in SessionId |-> 0]]
    /\ UNCHANGED indexing

RegistryClockStep ==
    /\ TableClockStep
    /\ UNCHANGED <<indexes, indexing>>

RegistryNext ==
    \/ \E t \in Task, i \in SessionId, n \in Name, k \in ConnectionKey : RegisterCheck(t, i, n, k)
    \/ \E t \in Task : \/ RegisterInsert(t) \/ RegisterName(t) \/ RegisterConnection(t)
                       \/ UnregisterName(t) \/ UnregisterConnection(t)
    \/ \E t \in Task, i \in SessionId : UnregisterRemove(t, i)
    \/ \E m \in Snapshots : Update(m)
    \/ \E i \in SessionId, status \in Statuses : UpdateStatus(i, status)
    \/ \E i \in SessionId : MarkUsedInRegistry(i)
    \/ ClearRegistry
    \/ RegistryClockStep

RegistrySpec == RegistryInit /\ [][RegistryNext]_registryVars

-----------------------------------------------------------------------------
(* list_by_name and list_by_connection_key change nothing.                 *)
ListByName(n) ==
    {i \in Registered : IF EnableNameIndex THEN name_index[n][i] > 0
                                           ELSE sessions[i].name = n}

ListByConnectionKey(k) == {i \in Registered : connection_index[k][i] > 0}

-----------------------------------------------------------------------------
(* Properties.                                                             *)

\* Task t has inserted session i and still owes the index entries.
OwesName(t, i) ==
    indexing[t] # None /\ indexing[t].step = "push_name"
    /\ indexing[t].m.id = i /\ indexing[t].m.name = sessions[i].name

OwesConnection(t, i) ==
    indexing[t] # None /\ indexing[t].step \in {"push_name", "push_connection"}
    /\ indexing[t].m.id = i /\ indexing[t].m.connection_key = sessions[i].connection_key

\* The lookups miss no session: a registered session is listed under its
\* current name and its current connection key as soon as the register call
\* that created it is through with the indexes, however registrations,
\* removals, renames and clears interleave.
LookupComplete ==
    \A i \in Registered :
        /\ i \in ListByName(sessions[i].name) \/ \E t \in Task : OwesName(t, i)
        /\ \/ i \in ListByConnectionKey(sessions[i].connection_key)
           \/ \E t \in Task : OwesConnection(t, i)

-----------------------------------------------------------------------------
(* What comments of the repository say and this code does not keep: see    *)
(* "Disagreements" in the README.                                          *)

\* list_by_name lists only sessions with that name.
LookupSound ==
    \A n \in Name : \A i \in ListByName(n) : sessions[i].name = n

\* Names are unique when duplicates are not allowed.
UniqueNames ==
    AllowDuplicateNames \/
    \A i, j \in Registered : i # j => sessions[i].name # sessions[j].name

\* AlreadyExists is reported only for names that a session has: when no call is
\* under way, a name nobody has is free.
FreeNameIsFree ==
    (\A t \in Task : Free(t)) =>
        \A n \in Name : (\A i \in Registered : sessions[i].name # n)
                        => \A i \in SessionId : name_index[n][i] = 0
=============================================================================
