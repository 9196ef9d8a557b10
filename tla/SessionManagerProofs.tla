------------------------ MODULE SessionManagerProofs ------------------------
(* Proofs about SessionManager, and about SessionPool on its own, for every   *)
(* set of sessions, names, keys and tasks, every configuration and any number *)
(* of calls.                                                                  *)
EXTENDS SessionManager, SessionTableProofs, SequenceTheorems

-----------------------------------------------------------------------------
(* The pool on its own: its operations, interleaved in any order (PoolSpec).  *)

USE NoneAssumption, NotPooledAssumption DEF PooledSessionMetadata

\* What a snapshot contributes to the pool has the right types.
LEMMA SnapshotType ==
    ASSUME NEW s \in Snapshots
    PROVE  /\ s \in SessionMetadata
           /\ s.id \in SessionId
           /\ s.connection_key \in ConnectionKey
           /\ s.priority \in SessionPriority
           /\ s.use_count \in Nat
           /\ s # None
BY SessionAssumption DEF SessionMetadata

\* remove_session keeps the two maps well typed.
LEMMA RemovalType ==
    ASSUME PoolTypeOK, NEW i \in SessionId, Removal(i)
    PROVE  /\ pools' \in [ConnectionKey -> [SessionId -> Nat]]
           /\ pool_metadata' \in [SessionId -> PooledSessionMetadata \cup {None}]
BY DEF PoolTypeOK, Removal

\* Every interleaving of the pool's operations keeps its maps, its clock and
\* the state its callers carry between two critical sections well typed.
THEOREM PoolTypeCorrect == PoolSpec => []PoolTypeOK
<1>1. PoolInit => PoolTypeOK
  BY DEF PoolInit, PoolTypeOK
<1>2. PoolTypeOK /\ [PoolNext]_poolVars => PoolTypeOK'
  <2> SUFFICES ASSUME PoolTypeOK, [PoolNext]_poolVars
               PROVE  PoolTypeOK'
    OBVIOUS
  <2>1. ASSUME NEW t \in Task, NEW s \in Snapshots, AddCheck(t, s)
        PROVE  PoolTypeOK'
    BY <2>1 DEF AddCheck, PoolTypeOK
  <2>2. ASSUME NEW t \in Task, AddInsert(t)
        PROVE  PoolTypeOK'
    <3> DEFINE s == adding[t]
    <3>1. s \in Snapshots
      BY <2>2 DEF AddInsert, PoolTypeOK
    <3>2. /\ s.id \in SessionId /\ s.connection_key \in ConnectionKey
          /\ s.priority \in SessionPriority /\ s.use_count \in Nat
      BY <3>1, SnapshotType
    <3>3. pools' \in [ConnectionKey -> [SessionId -> Nat]]
      BY <2>2, <3>2 DEF AddInsert, PoolTypeOK
    <3>4. pool_metadata' \in [SessionId -> PooledSessionMetadata \cup {None}]
      BY <2>2, <3>2 DEF AddInsert, PoolTypeOK
    <3>5. adding' \in [Task -> Snapshots \cup {None}]
      BY <2>2 DEF AddInsert, PoolTypeOK
    <3>6. QED
      BY <2>2, <3>3, <3>4, <3>5 DEF AddInsert, PoolTypeOK
  <2>3. ASSUME NEW t \in Task, CleanupScan(t)
        PROVE  PoolTypeOK'
    BY <2>3 DEF CleanupScan, PoolTypeOK, Expired, Pooled
  <2>4. ASSUME NEW t \in Task, CleanupRemove(t)
        PROVE  PoolTypeOK'
    <3>1. PICK i \in expiring[t] :
             /\ Removal(i)
             /\ expiring' = [expiring EXCEPT ![t] = @ \ {i}]
             /\ UNCHANGED <<clock, adding>>
      BY <2>4 DEF CleanupRemove
    <3>2. i \in SessionId
      BY <3>1 DEF PoolTypeOK
    <3>3. QED
      BY <3>1, <3>2, RemovalType DEF PoolTypeOK
  <2>5. ASSUME NEW i \in SessionId, RemoveSession(i)
        PROVE  PoolTypeOK'
    BY <2>5, RemovalType DEF RemoveSession, PoolTypeOK
  <2>6. CASE Clear
    BY <2>6 DEF Clear, PoolTypeOK
  <2>7. CASE ClockStep
    BY <2>7 DEF ClockStep, PoolTypeOK
  <2>8. CASE UNCHANGED poolVars
    BY <2>8 DEF poolVars, PoolTypeOK
  <2>9. QED
    BY <2>1, <2>2, <2>3, <2>4, <2>5, <2>6, <2>7, <2>8 DEF PoolNext
<1>3. QED
  BY <1>1, <1>2, PTL DEF PoolSpec

-----------------------------------------------------------------------------
(* Where a pooled session can be found.                                     *)

\* Whatever interleaves, a session with pool metadata is in the Vec of the key
\* its metadata names, so remove_session and find_session reach it.
THEOREM MetadataAlwaysIndexed == PoolSpec => []MetadataIndexed
<1>1. PoolInit => MetadataIndexed
  BY DEF PoolInit, MetadataIndexed, Pooled
<1>2. PoolTypeOK /\ MetadataIndexed /\ [PoolNext]_poolVars => MetadataIndexed'
  <2> SUFFICES ASSUME PoolTypeOK, MetadataIndexed, [PoolNext]_poolVars
               PROVE  MetadataIndexed'
    OBVIOUS
  <2>1. ASSUME NEW i \in SessionId, Removal(i)
        PROVE  MetadataIndexed'
    BY <2>1 DEF Removal, MetadataIndexed, Pooled, PoolTypeOK
  <2>2. ASSUME NEW t \in Task, AddInsert(t)
        PROVE  MetadataIndexed'
    <3>1. adding[t] \in Snapshots
      BY <2>2 DEF AddInsert, PoolTypeOK
    <3>2. QED
      BY <2>2, <3>1, SnapshotType
      DEF AddInsert, MetadataIndexed, Pooled, PoolTypeOK
  <2>3. ASSUME NEW t \in Task, CleanupRemove(t)
        PROVE  MetadataIndexed'
    BY <2>1, <2>3 DEF CleanupRemove, PoolTypeOK
  <2>4. ASSUME NEW i \in SessionId, RemoveSession(i)
        PROVE  MetadataIndexed'
    BY <2>1, <2>4 DEF RemoveSession
  <2>5. CASE Clear
    BY <2>5 DEF Clear, MetadataIndexed, Pooled
  <2>6. CASE UNCHANGED <<pools, pool_metadata>>
    BY <2>6 DEF MetadataIndexed, Pooled
  <2>7. QED
    BY <2>2, <2>3, <2>4, <2>5, <2>6
    DEF PoolNext, AddCheck, CleanupScan, ClockStep, poolVars
<1>3. QED
  BY <1>1, <1>2, PoolTypeCorrect, PTL DEF PoolSpec

\* The key of a pooled session is one its callers passed in.
KeyFromSnapshot ==
    \A i \in Pooled :
        \E s \in Snapshots : s.id = i /\ s.connection_key = pool_metadata[i].connection_key

\* When the connection key of a session never changes, the Vecs and the metadata
\* map describe the same pool.
THEOREM PoolIndexAlwaysExact ==
    ASSUME FixedKeys
    PROVE  PoolSpec => []PoolIndexExact
<1> DEFINE IInv == PoolIndexExact /\ KeyFromSnapshot
<1>1. PoolInit => IInv
  BY DEF PoolInit, PoolIndexExact, KeyFromSnapshot, Pooled
<1>2. PoolTypeOK /\ IInv /\ [PoolNext]_poolVars => IInv'
  <2> SUFFICES ASSUME PoolTypeOK, IInv, [PoolNext]_poolVars
               PROVE  IInv'
    OBVIOUS
  <2>1. ASSUME NEW i \in SessionId, Removal(i)
        PROVE  IInv'
    <3>1. PoolIndexExact'
      BY <2>1 DEF Removal, PoolIndexExact, Pooled, PoolTypeOK
    <3>2. KeyFromSnapshot'
      BY <2>1 DEF Removal, KeyFromSnapshot, Pooled, PoolTypeOK
    <3>3. QED
      BY <3>1, <3>2
  <2>2. ASSUME NEW t \in Task, AddInsert(t)
        PROVE  IInv'
    <3> DEFINE s == adding[t]
    <3>1. s \in Snapshots
      BY <2>2 DEF AddInsert, PoolTypeOK
    <3>2. s.id \in SessionId /\ s.connection_key \in ConnectionKey
      BY <3>1, SnapshotType
    <3>3. s.id \in Pooled => pool_metadata[s.id].connection_key = s.connection_key
      BY <3>1 DEF KeyFromSnapshot, FixedKeys
    <3>4. \A k \in ConnectionKey : k # s.connection_key => ~(pools[k][s.id] > 0)
      BY <3>2, <3>3 DEF PoolIndexExact
    <3>5. \A i \in SessionId :
             /\ i # s.id => pool_metadata'[i] = pool_metadata[i]
             /\ i = s.id => /\ pool_metadata'[i] # None
                            /\ pool_metadata'[i].connection_key = s.connection_key
      BY <2>2, <3>1, <3>2, SnapshotType DEF AddInsert, PoolTypeOK
    <3>6. \A k \in ConnectionKey, i \in SessionId :
             /\ i # s.id \/ k # s.connection_key => pools'[k][i] = pools[k][i]
             /\ i = s.id /\ k = s.connection_key => pools'[k][i] = pools[k][i] + 1
      BY <2>2, <3>2 DEF AddInsert, PoolTypeOK
    <3>7. \A k \in ConnectionKey, i \in SessionId : pools[k][i] \in Nat
      BY DEF PoolTypeOK
    <3>8. PoolIndexExact'
      BY <3>2, <3>4, <3>5, <3>6, <3>7 DEF PoolIndexExact, Pooled
    <3>9. KeyFromSnapshot'
      BY <3>1, <3>5 DEF KeyFromSnapshot, Pooled
    <3>10. QED
      BY <3>8, <3>9
  <2>3. ASSUME NEW t \in Task, CleanupRemove(t)
        PROVE  IInv'
    BY <2>1, <2>3 DEF CleanupRemove, PoolTypeOK
  <2>4. ASSUME NEW i \in SessionId, RemoveSession(i)
        PROVE  IInv'
    BY <2>1, <2>4 DEF RemoveSession
  <2>5. CASE Clear
    BY <2>5 DEF Clear, PoolIndexExact, KeyFromSnapshot, Pooled
  <2>6. CASE UNCHANGED <<pools, pool_metadata>>
    BY <2>6 DEF PoolIndexExact, KeyFromSnapshot, Pooled
  <2>7. QED
    BY <2>2, <2>3, <2>4, <2>5, <2>6
    DEF PoolNext, AddCheck, CleanupScan, ClockStep, poolVars
<1>3. IInv => PoolIndexExact
  OBVIOUS
<1>4. QED
  BY <1>1, <1>2, <1>3, PoolTypeCorrect, PTL DEF PoolSpec

-----------------------------------------------------------------------------
(* How far concurrent adders can exceed the total limit.                    *)

Adders == {t \in Task : adding[t] # None}

\* Every add that passed the check and is still to insert will add one session.
RoomForAdders ==
    Cardinality(Pooled) + Cardinality(Adders) < MaxTotalSessions + Cardinality(Task)

\* Pooled and Adders are finite, so their cardinalities are natural numbers.
LEMMA FiniteAdders ==
    /\ IsFiniteSet(Pooled) /\ Cardinality(Pooled) \in Nat
    /\ IsFiniteSet(Adders) /\ Cardinality(Adders) \in Nat
    /\ Cardinality(Adders) <= Cardinality(Task)
    /\ Cardinality(Task) \in Nat /\ Cardinality(Task) > 0
<1>1. Pooled \subseteq SessionId /\ Adders \subseteq Task
  BY DEF Pooled, Adders
<1>2. IsFiniteSet(Pooled) /\ IsFiniteSet(Adders) /\ Cardinality(Adders) <= Cardinality(Task)
  BY <1>1, SessionAssumption, PoolAssumption, FS_Subset
<1>3. Cardinality(Task) > 0
  BY SessionAssumption, PoolAssumption, FS_EmptySet, FS_CardinalityType
<1>4. QED
  BY <1>2, <1>3, SessionAssumption, PoolAssumption, FS_CardinalityType

\* Dropping sessions and adders only makes room.
LEMMA ShrinkingKeepsRoom ==
    ASSUME RoomForAdders, Pooled' \subseteq Pooled, Adders' \subseteq Adders
    PROVE  RoomForAdders'
<1>1. Cardinality(Pooled') <= Cardinality(Pooled) /\ Cardinality(Pooled') \in Nat
  BY FiniteAdders, FS_Subset, FS_CardinalityType
<1>2. Cardinality(Adders') <= Cardinality(Adders) /\ Cardinality(Adders') \in Nat
  BY FiniteAdders, FS_Subset, FS_CardinalityType
<1>3. QED
  BY <1>1, <1>2, FiniteAdders, SessionAssumption, PoolAssumption DEF RoomForAdders

\* With n concurrent adders the pool holds fewer than max_total_sessions + n
\* sessions, although the limit is checked before the write locks are taken.
THEOREM TotalOvershootAlwaysBounded == PoolSpec => []TotalOvershootBounded
<1>1. PoolInit => RoomForAdders
  <2> SUFFICES ASSUME PoolInit
               PROVE  RoomForAdders
    OBVIOUS
  <2>1. Pooled = {} /\ Adders = {}
    BY DEF PoolInit, Pooled, Adders
  <2>2. QED
    BY <2>1, FiniteAdders, FS_EmptySet, SessionAssumption, PoolAssumption DEF RoomForAdders
<1>2. PoolTypeOK /\ RoomForAdders /\ [PoolNext]_poolVars => RoomForAdders'
  <2> SUFFICES ASSUME PoolTypeOK, RoomForAdders, [PoolNext]_poolVars
               PROVE  RoomForAdders'
    OBVIOUS
  <2>1. ASSUME NEW t \in Task, NEW s \in Snapshots, AddCheck(t, s)
        PROVE  RoomForAdders'
    <3>1. Pooled' = Pooled /\ Cardinality(Pooled) < MaxTotalSessions
      BY <2>1 DEF AddCheck, CanAdd, Pooled
    <3>2. Adders' \subseteq Task
      BY DEF Adders
    <3>3. Cardinality(Adders') <= Cardinality(Task) /\ Cardinality(Adders') \in Nat
      BY <3>2, SessionAssumption, PoolAssumption, FS_Subset, FS_CardinalityType
    <3>4. QED
      BY <3>1, <3>3, FiniteAdders, SessionAssumption, PoolAssumption DEF RoomForAdders
  <2>2. ASSUME NEW t \in Task, AddInsert(t)
        PROVE  RoomForAdders'
    <3> DEFINE s == adding[t]
    <3>1. s \in Snapshots /\ s.id \in SessionId /\ t \in Adders
      BY <2>2, SnapshotType DEF AddInsert, PoolTypeOK, Adders
    <3>2. Adders' = Adders \ {t}
      BY <2>2 DEF AddInsert, PoolTypeOK, Adders
    <3>3. Pooled' = Pooled \cup {s.id}
      <4>1. \A i \in SessionId : /\ i # s.id => pool_metadata'[i] = pool_metadata[i]
                                 /\ i = s.id => pool_metadata'[i] # None
        BY <2>2, <3>1, SnapshotType DEF AddInsert, PoolTypeOK
      <4>2. QED
        BY <3>1, <4>1 DEF Pooled
    <3>4. Cardinality(Adders') = Cardinality(Adders) - 1
      BY <3>1, <3>2, FiniteAdders, FS_RemoveElement
    <3>5. Cardinality(Pooled') <= Cardinality(Pooled) + 1 /\ Cardinality(Pooled') \in Nat
      <4>1. Cardinality(Pooled \cup {s.id}) \in {Cardinality(Pooled), Cardinality(Pooled) + 1}
        BY FiniteAdders, FS_AddElement
      <4>2. QED
        BY <3>3, <4>1, FiniteAdders
    <3>6. QED
      BY <3>4, <3>5, FiniteAdders, SessionAssumption, PoolAssumption DEF RoomForAdders
  <2>3. ASSUME NEW i \in SessionId, Removal(i), UNCHANGED adding
        PROVE  RoomForAdders'
    <3>1. Pooled' \subseteq Pooled
      BY <2>3 DEF Removal, Pooled, PoolTypeOK
    <3>2. Adders' \subseteq Adders
      BY <2>3 DEF Adders
    <3>3. QED
      BY <3>1, <3>2, ShrinkingKeepsRoom
  <2>4. ASSUME NEW t \in Task, CleanupRemove(t)
        PROVE  RoomForAdders'
    BY <2>3, <2>4 DEF CleanupRemove, PoolTypeOK
  <2>5. ASSUME NEW i \in SessionId, RemoveSession(i)
        PROVE  RoomForAdders'
    BY <2>3, <2>5 DEF RemoveSession
  <2>6. CASE Clear
    <3>1. Pooled' \subseteq Pooled
      BY <2>6 DEF Clear, Pooled
    <3>2. Adders' \subseteq Adders
      BY <2>6 DEF Clear, Adders
    <3>3. QED
      BY <3>1, <3>2, ShrinkingKeepsRoom
  <2>7. CASE UNCHANGED <<pool_metadata, adding>>
    <3>1. Pooled' \subseteq Pooled
      BY <2>7 DEF Pooled
    <3>2. Adders' \subseteq Adders
      BY <2>7 DEF Adders
    <3>3. QED
      BY <3>1, <3>2, ShrinkingKeepsRoom
  <2>8. QED
    BY <2>1, <2>2, <2>4, <2>5, <2>6, <2>7 DEF PoolNext, CleanupScan, ClockStep, poolVars
<1>3. RoomForAdders => TotalOvershootBounded
  BY FiniteAdders, SessionAssumption, PoolAssumption DEF RoomForAdders, TotalOvershootBounded
<1>4. QED
  BY <1>1, <1>2, <1>3, PoolTypeCorrect, PTL DEF PoolSpec

HIDE DEF PooledSessionMetadata

-----------------------------------------------------------------------------
(* The manager: what its methods keep in their frames.                      *)

StatusGetFrame == [at : {"status_get"}, id : SessionId, status : SessionStatus]

StatusFrame ==
    [at : {"status_update", "status_pool_get", "status_pool_insert", "status_pool_remove",
           "status_record"},
     id : SessionId, status : SessionStatus, old : SessionStatus]

StatusCheckFrame ==
    [at : {"status_pool_check"}, id : SessionId, status : SessionStatus, old : SessionStatus,
     copy : SessionMetadata]

IdFrame ==
    [at : {"use_mark", "use_get", "close", "close_pool_remove", "close_unregister",
           "create_insert", "create_record"},
     id : SessionId]

CloseRecordFrame == [at : {"close_record"}, removed : SessionMetadata]

NewFrame == [at : {"create_check", "connect_or_create"}, name : Name, key : ConnectionKey]

MetadataFrame == [at : {"update_metadata"}, metadata : Snapshots]

CleanupFrame == [at : {"cleanup"}, snapshot : SUBSET SessionMetadata]

ExpireFrame ==
    [at : {"cleanup_pool_remove", "cleanup_record"}, snapshot : SUBSET SessionMetadata,
     removed : SessionMetadata]

SweepFrame == [at : {"cleanup_sweep"}]

\* The frames of update_session_status, the only method that others wait for.
UpdateStatusFrames == StatusGetFrame \cup StatusFrame \cup StatusCheckFrame

Frame ==
    UpdateStatusFrames \cup IdFrame \cup CloseRecordFrame \cup NewFrame \cup MetadataFrame
    \cup CleanupFrame \cup ExpireFrame \cup SweepFrame

WaitingClose == [at : {"close_pool_remove"}, id : SessionId]

\* A task is idle, in one method, or in update_session_status called from
\* close_session.
StackShape(s) ==
    \/ s = <<>>
    \/ \E f \in Frame : s = <<f>>
    \/ \E f \in UpdateStatusFrames, g \in WaitingClose : s = <<f, g>>

Gauge == {"active_sessions", "idle_sessions", "failed_sessions",
          "total_sessions_created", "sessions_closed"}

ControlTypeOK ==
    /\ stack = [t \in Task |-> stack[t]]
    /\ \A t \in Task : StackShape(stack[t])
    /\ ret \in [Task -> [ok : BOOLEAN, id : SessionId \cup {None}]]
    /\ calls \in Nat /\ disturbed \in BOOLEAN

ManagerTypeOK == TableTypeOK /\ ControlTypeOK /\ metrics \in [Gauge -> Nat]

\* The label of the frame tells which locals it has.
LEMMA FrameLocals ==
    ASSUME NEW f \in Frame
    PROVE  /\ f.at = "status_get" => f \in StatusGetFrame
           /\ f.at \in {"status_update", "status_pool_get", "status_pool_insert",
                        "status_pool_remove", "status_record"} => f \in StatusFrame
           /\ f.at = "status_pool_check" => f \in StatusCheckFrame
           /\ f.at \in {"use_mark", "use_get", "close", "close_pool_remove",
                        "close_unregister", "create_insert", "create_record"} => f \in IdFrame
           /\ f.at = "close_record" => f \in CloseRecordFrame
           /\ f.at \in {"create_check", "connect_or_create"} => f \in NewFrame
           /\ f.at = "update_metadata" => f \in MetadataFrame
           /\ f.at = "cleanup" => f \in CleanupFrame
           /\ f.at \in {"cleanup_pool_remove", "cleanup_record"} => f \in ExpireFrame
BY DEF Frame, UpdateStatusFrames, StatusGetFrame, StatusFrame, StatusCheckFrame, IdFrame,
       CloseRecordFrame, NewFrame, MetadataFrame, CleanupFrame, ExpireFrame, SweepFrame

\* The frame on top and the frames below it, when a task is in a method.
LEMMA TopOfStack ==
    ASSUME NEW s, StackShape(s), s # <<>>
    PROVE  /\ Head(s) \in Frame
           /\ \/ Tail(s) = <<>>
              \/ /\ Head(s) \in UpdateStatusFrames
                 /\ \E g \in WaitingClose : Tail(s) = <<g>>
<1>1. ASSUME NEW f \in Frame, s = <<f>> PROVE Head(s) = f /\ Tail(s) = <<>>
  BY <1>1
<1>2. ASSUME NEW f \in UpdateStatusFrames, NEW g \in WaitingClose, s = <<f, g>>
      PROVE  Head(s) = f /\ Tail(s) = <<g>>
  BY <1>2
<1> QED
  BY <1>1, <1>2 DEF StackShape, Frame

\* Putting a frame before another one.
LEMMA TwoFrames ==
    ASSUME NEW f, NEW g
    PROVE  <<f>> \o <<g>> = <<f, g>>
<1> DEFINE a == <<f>> \o <<g>>
           b == <<f, g>>
<1>1. Len(a) = 2 /\ a[1] = f /\ a[2] = g /\ a \in Seq({f, g})
  OBVIOUS
<1>2. Len(b) = 2 /\ b[1] = f /\ b[2] = g /\ b \in Seq({f, g})
  OBVIOUS
<1> HIDE DEF a, b
<1>3. \A n \in 1..Len(a) : a[n] = b[n]
  BY <1>1, <1>2
<1>4. a = b
  BY <1>1, <1>2, <1>3, SeqEqual
<1> QED
  BY <1>4 DEF a, b

\* Going on, calling and returning keep the shape.
LEMMA ShapeKept ==
    ASSUME NEW s, StackShape(s), s # <<>>
    PROVE  /\ StackShape(Tail(s))
           /\ \A f \in UpdateStatusFrames : StackShape(<<f>> \o Tail(s))
           /\ Head(s) \notin UpdateStatusFrames =>
                 /\ \A f \in Frame : StackShape(<<f>> \o Tail(s))
                 /\ \A f \in UpdateStatusFrames, g \in WaitingClose :
                       StackShape(<<f, g>> \o Tail(s))
<1>1. WaitingClose \subseteq Frame
  BY DEF WaitingClose, Frame, IdFrame
<1>2. StackShape(Tail(s))
  BY <1>1, TopOfStack DEF StackShape
<1>3. ASSUME NEW f \in UpdateStatusFrames PROVE StackShape(<<f>> \o Tail(s))
  <2>1. CASE Tail(s) = <<>>
    <3>1. <<f>> \o <<>> = <<f>>
      OBVIOUS
    <3> QED
      BY <2>1, <3>1 DEF StackShape, Frame
  <2>2. CASE \E g \in WaitingClose : Tail(s) = <<g>>
    <3>1. PICK g \in WaitingClose : Tail(s) = <<g>>
      BY <2>2
    <3>2. <<f>> \o <<g>> = <<f, g>>
      BY TwoFrames
    <3> QED
      BY <3>1, <3>2 DEF StackShape
  <2> QED
    BY <2>1, <2>2, TopOfStack
<1>4. ASSUME Head(s) \notin UpdateStatusFrames PROVE Tail(s) = <<>>
  BY <1>4, TopOfStack
<1>5. ASSUME Head(s) \notin UpdateStatusFrames, NEW f \in Frame
      PROVE  StackShape(<<f>> \o Tail(s))
  <2>1. <<f>> \o <<>> = <<f>>
    OBVIOUS
  <2> QED
    BY <1>4, <1>5, <2>1 DEF StackShape
<1>6. ASSUME Head(s) \notin UpdateStatusFrames,
             NEW f \in UpdateStatusFrames, NEW g \in WaitingClose
      PROVE  StackShape(<<f, g>> \o Tail(s))
  <2>1. <<f, g>> \o <<>> = <<f, g>>
    OBVIOUS
  <2> QED
    BY <1>4, <1>6, <2>1 DEF StackShape
<1> QED
  BY <1>2, <1>3, <1>5, <1>6

-----------------------------------------------------------------------------
(* Types.                                                                   *)

\* A task in a method has a frame whose label is the one it is at.
LEMMA TopFrame ==
    ASSUME ControlTypeOK, NEW t \in Task, NEW label, At(t, label)
    PROVE  /\ StackShape(stack[t]) /\ stack[t] # <<>>
           /\ Top(t) \in Frame /\ Top(t).at = label
BY TopOfStack DEF ControlTypeOK, At, Top

\* The labels of update_session_status.
LEMMA StatusLabels ==
    ASSUME NEW f \in UpdateStatusFrames
    PROVE  f.at \in {"status_get", "status_update", "status_pool_get", "status_pool_check",
                     "status_pool_insert", "status_pool_remove", "status_record"}
BY DEF UpdateStatusFrames, StatusGetFrame, StatusFrame, StatusCheckFrame

\* One task's stack changes to another of the right shape.
LEMMA StackMoves ==
    ASSUME ControlTypeOK, NEW t \in Task, NEW s, StackShape(s),
           stack' = [stack EXCEPT ![t] = s]
    PROVE  stack' = [u \in Task |-> stack'[u]] /\ \A u \in Task : StackShape(stack'[u])
BY DEF ControlTypeOK

\* Goto, CallThen, Return and Enters keep the control state well typed.
LEMMA GotoTypes ==
    ASSUME ControlTypeOK, NEW t \in Task, stack[t] # <<>>, NEW f \in Frame,
           f \in UpdateStatusFrames \/ Top(t) \notin UpdateStatusFrames, Goto(t, f)
    PROVE  ControlTypeOK'
<1>1. StackShape(<<f>> \o Tail(stack[t]))
  BY ShapeKept DEF ControlTypeOK, Top
<1> QED
  BY <1>1, StackMoves DEF Goto, ControlTypeOK

\* The same for a call.
LEMMA CallThenTypes ==
    ASSUME ControlTypeOK, NEW t \in Task, stack[t] # <<>>, NEW f \in UpdateStatusFrames,
           NEW g \in WaitingClose, Top(t) \notin UpdateStatusFrames, CallThen(t, f, g)
    PROVE  ControlTypeOK'
<1>1. StackShape(<<f, g>> \o Tail(stack[t]))
  BY ShapeKept DEF ControlTypeOK, Top
<1> QED
  BY <1>1, StackMoves DEF CallThen, ControlTypeOK

\* The same for a return.
LEMMA ReturnTypes ==
    ASSUME ControlTypeOK, NEW t \in Task, stack[t] # <<>>, NEW ok \in BOOLEAN,
           NEW i \in SessionId \cup {None}, Return(t, ok, i)
    PROVE  ControlTypeOK'
<1>1. StackShape(Tail(stack[t]))
  BY ShapeKept DEF ControlTypeOK
<1>2. [ok |-> ok, id |-> i] \in [ok : BOOLEAN, id : SessionId \cup {None}]
  OBVIOUS
<1> QED
  BY <1>1, <1>2, StackMoves DEF Return, ControlTypeOK

\* The same for a new call from outside.
LEMMA EntersTypes ==
    ASSUME ControlTypeOK, NEW t \in Task, NEW f \in Frame, Enters(t, f), calls' \in Nat
    PROVE  ControlTypeOK'
<1>1. StackShape(<<f>>)
  BY DEF StackShape
<1>2. disturbed' \in BOOLEAN
  BY Zenon DEF Enters
<1> QED
  BY <1>1, <1>2, StackMoves DEF Enters, ControlTypeOK

\* Leaving and entering a gauge keep the metrics well typed and the totals.
LEMMA GaugeMoves ==
    ASSUME NEW m \in [Gauge -> Nat], NEW status
    PROVE  /\ Leave(m, status) \in [Gauge -> Nat] /\ Enter(m, status) \in [Gauge -> Nat]
           /\ \A g \in {"total_sessions_created", "sessions_closed"} :
                 Leave(m, status)[g] = m[g] /\ Enter(m, status)[g] = m[g]
BY DEF Leave, Enter, Gauge, GaugeOf, SaturatingSub

\* What the three records do to the metrics.
LEMMA RecordEffects ==
    ASSUME metrics \in [Gauge -> Nat]
    PROVE  /\ \A old, new : RecordStatusChange(old, new) =>
                 /\ metrics' \in [Gauge -> Nat]
                 /\ metrics'.total_sessions_created = metrics.total_sessions_created
                 /\ metrics'.sessions_closed = metrics.sessions_closed
           /\ RecordSessionCreated =>
                 /\ metrics' \in [Gauge -> Nat]
                 /\ metrics'.total_sessions_created = metrics.total_sessions_created + 1
                 /\ metrics'.sessions_closed = metrics.sessions_closed
           /\ \A m : RecordSessionClosed(m) =>
                 /\ metrics' \in [Gauge -> Nat]
                 /\ metrics'.total_sessions_created = metrics.total_sessions_created
                 /\ metrics'.sessions_closed = metrics.sessions_closed + 1
<1>1. ASSUME NEW old, NEW new, RecordStatusChange(old, new)
      PROVE  /\ metrics' \in [Gauge -> Nat]
             /\ metrics'.total_sessions_created = metrics.total_sessions_created
             /\ metrics'.sessions_closed = metrics.sessions_closed
  <2>1. Leave(metrics, old) \in [Gauge -> Nat]
    BY GaugeMoves
  <2> QED
    BY <1>1, <2>1, GaugeMoves DEF RecordStatusChange
<1>2. ASSUME RecordSessionCreated
      PROVE  /\ metrics' \in [Gauge -> Nat]
             /\ metrics'.total_sessions_created = metrics.total_sessions_created + 1
             /\ metrics'.sessions_closed = metrics.sessions_closed
  BY <1>2 DEF RecordSessionCreated, Gauge
<1>3. ASSUME NEW m, RecordSessionClosed(m)
      PROVE  /\ metrics' \in [Gauge -> Nat]
             /\ metrics'.total_sessions_created = metrics.total_sessions_created
             /\ metrics'.sessions_closed = metrics.sessions_closed + 1
  <2> DEFINE left == Leave(metrics, m.status)
  <2>1. /\ left \in [Gauge -> Nat] /\ left.sessions_closed = metrics.sessions_closed
        /\ left.total_sessions_created = metrics.total_sessions_created
    BY GaugeMoves
  <2>2. metrics' = [left EXCEPT !.sessions_closed = @ + 1]
    BY <1>3 DEF RecordSessionClosed
  <2> HIDE DEF left
  <2> QED
    BY <2>1, <2>2 DEF Gauge
<1> QED
  BY <1>1, <1>2, <1>3

\* What a step of the manager does to the map is an operation of the map, or
\* nothing.
LEMMA ManagerStepsTable ==
    ASSUME ManagerTypeOK, [ManagerNext]_managerVars
    PROVE  [TableNext]_tableVars
<1> USE DEF ManagerTypeOK
<1>1. ASSUME NEW t \in Task, UpdateSessionStatus(t) PROVE [TableNext]_tableVars
  <2>1. CASE StatusUpdate(t)
    <3>1. Top(t).status \in SessionStatus
      BY <2>1, TopFrame, FrameLocals DEF StatusUpdate, StatusFrame
    <3> QED
      BY <2>1, <3>1
      DEF StatusUpdate, TableNext, tableVars, tableState, Registered, SetSessionStatus
  <2>2. CASE ~StatusUpdate(t)
    BY <1>1, <2>2 DEF UpdateSessionStatus, StatusGet, StatusPoolGet, StatusPoolCheck, AddCheck,
       StatusPoolInsert, AddInsert, StatusPoolRemove, RemoveSession, StatusRecord, tableVars,
       tableState
  <2> QED
    BY <2>1, <2>2
<1>2. ASSUME NEW t \in Task, UseSession(t) PROVE [TableNext]_tableVars
  BY <1>2 DEF UseSession, UseMark, UseGet, MarkSessionUsed, Registered, TableNext, tableVars,
     tableState
<1>3. ASSUME NEW t \in Task, CloseSession(t) PROVE [TableNext]_tableVars
  BY <1>3 DEF CloseSession, CloseStart, ClosePoolRemove, RemoveSession, CloseUnregister,
     CloseRecord, DropSession, Registered, TableNext, tableVars, tableState
<1>4. ASSUME NEW t \in Task, CreateCheck(t) PROVE [TableNext]_tableVars
  <2>1. Top(t).name \in Name /\ Top(t).key \in ConnectionKey
    BY <1>4, TopFrame, FrameLocals DEF CreateCheck, NewFrame
  <2> QED
    BY <1>4, <2>1 DEF CreateCheck, TableNext, tableVars, tableState
<1>5. ASSUME NEW t \in Task, CreateInsert(t) \/ CreateRecord(t) PROVE [TableNext]_tableVars
  BY <1>5 DEF CreateInsert, CreateRecord, TableNext, tableVars, tableState
<1>6. ASSUME NEW t \in Task, ConnectOrCreate(t) PROVE [TableNext]_tableVars
  BY <1>6 DEF ConnectOrCreate, tableVars, tableState
<1>7. ASSUME NEW t \in Task, UpdateMetadata(t) PROVE [TableNext]_tableVars
  <2>1. Top(t).metadata \in Snapshots
    BY <1>7, TopFrame, FrameLocals DEF UpdateMetadata, MetadataFrame
  <2> QED
    BY <1>7, <2>1 DEF UpdateMetadata, TableNext, tableVars, tableState
<1>8. ASSUME NEW t \in Task, Cleanup(t) PROVE [TableNext]_tableVars
  BY <1>8 DEF Cleanup, CleanupStart, CleanupExpire, DropSession, Registered, CleanupPoolRemove,
     RemoveSession, CleanupRecord, CleanupSweep, CleanupScan, CleanupSweepStep, CleanupRemove,
     TableNext, tableVars, tableState
<1>9. ASSUME NEW t \in Task, CallManager(t) PROVE [TableNext]_tableVars
  BY <1>9 DEF CallManager, Begin, tableVars, tableState
<1>10. CASE ManagerClockStep
  BY <1>10 DEF ManagerClockStep, TableNext, TableClockStep, tableState
<1>11. CASE UNCHANGED managerVars
  BY <1>11 DEF managerVars, tableVars
<1> QED
  BY <1>1, <1>2, <1>3, <1>4, <1>5, <1>6, <1>7, <1>8, <1>9, <1>10, <1>11
  DEF ManagerNext, ManagerStep, CreateSession

\* The steps of update_session_status keep the control state well typed.
LEMMA UpdateStatusTypes ==
    ASSUME ManagerTypeOK, NEW t \in Task, UpdateSessionStatus(t)
    PROVE  ControlTypeOK'
<1> USE DEF ManagerTypeOK
<1> DEFINE f == Top(t)
<1>1. ASSUME NEW g \in UpdateStatusFrames, stack[t] # <<>>, Goto(t, g) PROVE ControlTypeOK'
  BY <1>1, GotoTypes DEF Frame
<1>2. CASE StatusGet(t)
  <2>1. f \in StatusGetFrame /\ stack[t] # <<>>
    BY <1>2, TopFrame, FrameLocals DEF StatusGet
  <2>2. f.id \in SessionId /\ f.status \in SessionStatus
    BY <2>1 DEF StatusGetFrame
  <2>3. ASSUME f.id \in Registered
        PROVE  [at |-> "status_update", id |-> f.id, status |-> f.status,
                old |-> sessions[f.id].status] \in UpdateStatusFrames
    <3>1. sessions[f.id].status \in SessionStatus
      BY <2>3 DEF Registered, TableTypeOK, SessionMetadata
    <3> QED
      BY <2>2, <3>1 DEF UpdateStatusFrames, StatusFrame
  <2> QED
    BY <1>1, <1>2, <2>1, <2>2, <2>3, ReturnTypes DEF StatusGet
<1>3. ASSUME f \in StatusFrame,
             NEW label \in {"status_pool_get", "status_pool_insert", "status_pool_remove",
                            "status_record"}
      PROVE  [f EXCEPT !.at = label] \in UpdateStatusFrames /\ f.id \in SessionId
  BY <1>3 DEF UpdateStatusFrames, StatusFrame
<1>4. CASE StatusUpdate(t)
  <2>1. f \in StatusFrame /\ stack[t] # <<>>
    BY <1>4, TopFrame, FrameLocals DEF StatusUpdate
  <2> QED
    BY <1>1, <1>3, <1>4, <2>1, ReturnTypes DEF StatusUpdate
<1>5. CASE StatusPoolGet(t)
  <2>1. f \in StatusFrame /\ stack[t] # <<>>
    BY <1>5, TopFrame, FrameLocals DEF StatusPoolGet
  <2>2. ASSUME f.id \in Registered
        PROVE  [at |-> "status_pool_check", id |-> f.id, status |-> f.status, old |-> f.old,
                copy |-> sessions[f.id]] \in UpdateStatusFrames
    <3>1. sessions[f.id] \in SessionMetadata
      BY <2>2 DEF Registered, TableTypeOK
    <3> QED
      BY <2>1, <3>1 DEF UpdateStatusFrames, StatusFrame, StatusCheckFrame
  <2> QED
    BY <1>1, <1>3, <1>5, <2>1, <2>2 DEF StatusPoolGet
<1>6. CASE StatusPoolCheck(t)
  <2> DEFINE done == [at |-> "status_record", id |-> f.id, status |-> f.status, old |-> f.old]
  <2>1. f \in StatusCheckFrame /\ stack[t] # <<>>
    BY <1>6, TopFrame, FrameLocals DEF StatusPoolCheck
  <2>2. done \in UpdateStatusFrames /\ [done EXCEPT !.at = "status_pool_insert"] \in UpdateStatusFrames
    BY <2>1 DEF UpdateStatusFrames, StatusCheckFrame, StatusFrame
  <2> QED
    BY <1>1, <1>6, <2>1, <2>2 DEF StatusPoolCheck
<1>7. CASE StatusPoolInsert(t) \/ StatusPoolRemove(t)
  <2>1. f \in StatusFrame /\ stack[t] # <<>>
    BY <1>7, TopFrame, FrameLocals DEF StatusPoolInsert, StatusPoolRemove
  <2> QED
    BY <1>1, <1>3, <1>7, <2>1 DEF StatusPoolInsert, StatusPoolRemove
<1>8. CASE StatusRecord(t)
  <2>1. f \in StatusFrame /\ stack[t] # <<>>
    BY <1>8, TopFrame, FrameLocals DEF StatusRecord
  <2> QED
    BY <1>3, <1>8, <2>1, ReturnTypes DEF StatusRecord
<1> QED
  BY <1>2, <1>4, <1>5, <1>6, <1>7, <1>8 DEF UpdateSessionStatus

\* So do those of the other methods.
LEMMA MethodTypes ==
    ASSUME ManagerTypeOK, NEW t \in Task,
           UseSession(t) \/ CloseSession(t) \/ CreateSession(t) \/ ConnectOrCreate(t)
           \/ UpdateMetadata(t)
    PROVE  ControlTypeOK'
<1> USE DEF ManagerTypeOK
<1> DEFINE f == Top(t)
<1>1. ASSUME NEW g \in Frame, stack[t] # <<>>, Goto(t, g), f \notin UpdateStatusFrames
      PROVE  ControlTypeOK'
  BY <1>1, GotoTypes
<1>2. ASSUME NEW i \in SessionId, NEW status \in SessionStatus
      PROVE  UpdateStatusFrame(i, status) \in UpdateStatusFrames
  BY DEF UpdateStatusFrame, UpdateStatusFrames, StatusGetFrame
<1>3. ASSUME NEW i \in SessionId,
             NEW label \in {"use_mark", "use_get", "close_unregister", "create_insert",
                            "create_record"}
      PROVE  [at |-> label, id |-> i] \in Frame
  BY DEF Frame, IdFrame
<1>4. ASSUME NEW label \in {"use_mark", "use_get", "close", "close_pool_remove",
                             "close_unregister", "create_insert", "create_record"},
             At(t, label)
      PROVE  /\ stack[t] # <<>> /\ f.id \in SessionId /\ f \notin UpdateStatusFrames
             /\ f \in IdFrame
  <2>1. f \in Frame /\ f.at = label /\ stack[t] # <<>>
    BY <1>4, TopFrame
  <2>2. f \in IdFrame
    BY <2>1, FrameLocals
  <2>3. f \notin UpdateStatusFrames
    BY <2>1, StatusLabels
  <2> QED
    BY <2>1, <2>2, <2>3 DEF IdFrame
<1>5. CASE UseMark(t)
  BY <1>1, <1>3, <1>4, <1>5, ReturnTypes DEF UseMark
<1>6. CASE UseGet(t)
  <2>1. UpdateStatusFrame(f.id, "Active") \in Frame
    BY <1>2, <1>4, <1>6 DEF UseGet, SessionStatus, Frame
  <2> QED
    BY <1>1, <1>4, <1>6, <2>1, ReturnTypes DEF UseGet
<1>7. CASE CloseStart(t)
  <2>1. /\ UpdateStatusFrame(f.id, "Closing") \in UpdateStatusFrames
        /\ [at |-> "close_pool_remove", id |-> f.id] \in WaitingClose
    BY <1>2, <1>4, <1>7 DEF CloseStart, SessionStatus, WaitingClose
  <2> QED
    BY <1>4, <1>7, <2>1, CallThenTypes DEF CloseStart
<1>8. CASE ClosePoolRemove(t)
  BY <1>1, <1>3, <1>4, <1>8, ReturnTypes DEF ClosePoolRemove
<1>9. CASE CloseUnregister(t)
  <2>1. ASSUME f.id \in Registered
        PROVE  [at |-> "close_record", removed |-> sessions[f.id]] \in Frame
    BY <2>1 DEF Registered, TableTypeOK, Frame, CloseRecordFrame
  <2> QED
    BY <1>1, <1>4, <1>9, <2>1, ReturnTypes DEF CloseUnregister, DropSession
<1>10. CASE CloseRecord(t)
  <2>1. f.removed.id \in SessionId /\ stack[t] # <<>>
    BY <1>10, TopFrame, FrameLocals DEF CloseRecord, CloseRecordFrame, SessionMetadata
  <2> QED
    BY <1>10, <2>1, ReturnTypes DEF CloseRecord
<1>11. ASSUME NEW label \in {"create_check", "connect_or_create"}, At(t, label)
       PROVE  /\ stack[t] # <<>> /\ f.name \in Name /\ f.key \in ConnectionKey
              /\ f \notin UpdateStatusFrames
  <2>1. f \in Frame /\ f.at = label /\ stack[t] # <<>>
    BY <1>11, TopFrame
  <2>2. f \in NewFrame
    BY <2>1, FrameLocals
  <2>3. f \notin UpdateStatusFrames
    BY <2>1, StatusLabels
  <2> QED
    BY <2>1, <2>2, <2>3 DEF NewFrame
<1>12. CASE CreateCheck(t)
  BY <1>1, <1>3, <1>11, <1>12, ReturnTypes DEF CreateCheck
<1>13. CASE CreateInsert(t)
  <2>1. [f EXCEPT !.at = "create_record"] \in Frame
    BY <1>4, <1>13 DEF CreateInsert, IdFrame, Frame
  <2> QED
    BY <1>1, <1>4, <1>13, <2>1 DEF CreateInsert
<1>14. CASE CreateRecord(t)
  BY <1>4, <1>14, ReturnTypes DEF CreateRecord
<1>15. CASE ConnectOrCreate(t)
  <2>1. FindSession(f.key) \subseteq SessionId
    BY DEF FindSession, Eligible, Pooled
  <2>2. CreateFrame(f.name, f.key) \in Frame
    BY <1>11, <1>15 DEF ConnectOrCreate, CreateFrame, Frame, NewFrame
  <2> QED
    BY <1>1, <1>3, <1>11, <1>15, <2>1, <2>2 DEF ConnectOrCreate, UseFrame
<1>16. CASE UpdateMetadata(t)
  <2>1. f.metadata.id \in SessionId /\ stack[t] # <<>>
    BY <1>16, TopFrame, FrameLocals, SessionAssumption
    DEF UpdateMetadata, MetadataFrame, SessionMetadata
  <2> QED
    BY <1>16, <2>1, ReturnTypes DEF UpdateMetadata
<1> QED
  BY <1>5, <1>6, <1>7, <1>8, <1>9, <1>10, <1>12, <1>13, <1>14, <1>15, <1>16
  DEF UseSession, CloseSession, CreateSession

\* So do those of the cleanup task.
LEMMA CleanupTypes ==
    ASSUME ManagerTypeOK, NEW t \in Task, Cleanup(t)
    PROVE  ControlTypeOK'
<1> USE DEF ManagerTypeOK
<1> DEFINE f == Top(t)
<1>1. ASSUME NEW g \in Frame, stack[t] # <<>>, Goto(t, g), f \notin UpdateStatusFrames
      PROVE  ControlTypeOK'
  BY <1>1, GotoTypes
<1>2. ASSUME NEW label \in {"cleanup", "cleanup_pool_remove", "cleanup_record", "cleanup_sweep"},
             At(t, label)
      PROVE  stack[t] # <<>> /\ f \in Frame /\ f.at = label /\ f \notin UpdateStatusFrames
  BY <1>2, TopFrame, StatusLabels
<1>3. CASE CleanupStart(t)
  <2>1. {sessions[i] : i \in Registered} \subseteq SessionMetadata
    BY DEF Registered, TableTypeOK
  <2>2. [at |-> "cleanup", snapshot |-> {sessions[i] : i \in Registered}] \in Frame
    BY <2>1 DEF Frame, CleanupFrame
  <2> QED
    BY <1>3, <2>2, EntersTypes DEF CleanupStart, ControlTypeOK
<1>4. CASE CleanupExpire(t)
  <2>1. f \in CleanupFrame
    BY <1>2, <1>4, FrameLocals DEF CleanupExpire
  <2>2. ASSUME NEW m \in f.snapshot, m.id \in Registered
        PROVE  [at |-> "cleanup_pool_remove", snapshot |-> f.snapshot \ {m},
                removed |-> sessions[m.id]] \in Frame
    <3>1. sessions[m.id] \in SessionMetadata
      BY <2>2 DEF Registered, TableTypeOK
    <3> QED
      BY <2>1, <3>1 DEF Frame, CleanupFrame, ExpireFrame
  <2>3. ASSUME NEW m PROVE [f EXCEPT !.snapshot = f.snapshot \ {m}] \in Frame
    BY <2>1 DEF Frame, CleanupFrame
  <2> QED
    BY <1>1, <1>2, <1>4, <2>2, <2>3 DEF CleanupExpire, DropSession
<1>5. CASE CleanupPoolRemove(t)
  <2>1. f \in ExpireFrame
    BY <1>2, <1>5, FrameLocals DEF CleanupPoolRemove
  <2>2. [f EXCEPT !.at = "cleanup_record"] \in Frame
    BY <2>1 DEF Frame, ExpireFrame
  <2> QED
    BY <1>1, <1>2, <1>5, <2>2 DEF CleanupPoolRemove
<1>6. CASE CleanupRecord(t)
  <2>1. f \in ExpireFrame
    BY <1>2, <1>6, FrameLocals DEF CleanupRecord
  <2>2. [at |-> "cleanup", snapshot |-> f.snapshot] \in Frame
    BY <2>1 DEF Frame, ExpireFrame, CleanupFrame
  <2> QED
    BY <1>1, <1>2, <1>6, <2>2 DEF CleanupRecord
<1>7. CASE CleanupSweep(t)
  <2>1. [at |-> "cleanup_sweep"] \in Frame
    BY DEF Frame, SweepFrame
  <2> QED
    BY <1>1, <1>2, <1>7, <2>1 DEF CleanupSweep
<1>8. CASE CleanupSweepStep(t)
  BY <1>2, <1>8, ReturnTypes DEF CleanupSweepStep, ControlTypeOK
<1> QED
  BY <1>3, <1>4, <1>5, <1>6, <1>7, <1>8 DEF Cleanup

\* So does a call.
LEMMA CallTypes ==
    ASSUME ManagerTypeOK, NEW t \in Task, CallManager(t)
    PROVE  ControlTypeOK'
<1> USE DEF ManagerTypeOK
<1>1. ASSUME NEW f \in Frame, Begin(t, f) PROVE ControlTypeOK'
  BY <1>1, EntersTypes DEF Begin, ControlTypeOK
<1>2. ASSUME NEW n \in Name, NEW k \in ConnectionKey
      PROVE  /\ CreateFrame(n, k) \in Frame
             /\ [at |-> "connect_or_create", name |-> n, key |-> k] \in Frame
  BY DEF CreateFrame, Frame, NewFrame
<1>3. ASSUME NEW i \in issued, NEW status \in Statuses
      PROVE  UpdateStatusFrame(i, status) \in Frame
  BY TableAssumption DEF UpdateStatusFrame, Frame, UpdateStatusFrames, StatusGetFrame, TableTypeOK
<1>4. ASSUME NEW i \in issued PROVE UseFrame(i) \in Frame /\ CloseFrame(i) \in Frame
  BY DEF UseFrame, CloseFrame, Frame, IdFrame, TableTypeOK
<1>5. ASSUME NEW m \in Snapshots PROVE [at |-> "update_metadata", metadata |-> m] \in Frame
  BY DEF Frame, MetadataFrame
<1> QED
  BY <1>1, <1>2, <1>3, <1>4, <1>5 DEF CallManager

\* Every step keeps everything well typed.
LEMMA ManagerStepTypes ==
    ASSUME ManagerTypeOK, [ManagerNext]_managerVars
    PROVE  ManagerTypeOK'
<1>1. TableTypeOK'
  BY ManagerStepsTable, TableStepTypes DEF ManagerTypeOK
<1>2. ControlTypeOK'
  <2>1. CASE ManagerClockStep \/ UNCHANGED managerVars
    BY <2>1 DEF ManagerClockStep, managerVars, ManagerTypeOK, ControlTypeOK
  <2> QED
    BY <2>1, UpdateStatusTypes, MethodTypes, CleanupTypes, CallTypes
    DEF ManagerNext, ManagerStep
<1>3. metrics' \in [Gauge -> Nat]
  <2> USE DEF ManagerTypeOK
  <2>1. ASSUME NEW t \in Task, StatusRecord(t) \/ CloseRecord(t) \/ CreateRecord(t) \/ CleanupRecord(t)
        PROVE  metrics' \in [Gauge -> Nat]
    BY <2>1, RecordEffects DEF StatusRecord, CloseRecord, CreateRecord, CleanupRecord
  <2>2. ASSUME ~ \E t \in Task : StatusRecord(t) \/ CloseRecord(t) \/ CreateRecord(t) \/ CleanupRecord(t)
        PROVE  metrics' = metrics
    BY <2>2 DEF ManagerNext, ManagerStep, ManagerClockStep, managerVars, CallManager, Begin,
       UpdateSessionStatus, StatusGet, StatusUpdate, StatusPoolGet, StatusPoolCheck,
       StatusPoolInsert, StatusPoolRemove, UseSession, UseMark, UseGet, CloseSession, CloseStart,
       ClosePoolRemove, CloseUnregister, CreateSession, CreateCheck, CreateInsert,
       ConnectOrCreate, UpdateMetadata, Cleanup, CleanupStart, CleanupExpire, CleanupPoolRemove,
       CleanupSweep, CleanupSweepStep
  <2> QED
    BY <2>1, <2>2
<1> QED
  BY <1>1, <1>2, <1>3 DEF ManagerTypeOK

\* Initially nothing is registered, nobody is in a method and the metrics are zero.
LEMMA ManagerInitTypes ==
    ASSUME ManagerInit
    PROVE  ManagerTypeOK
<1>1. TableTypeOK
  BY DEF ManagerInit, TableInit, TableTypeOK
<1>2. ControlTypeOK
  BY DEF ManagerInit, ControlTypeOK, StackShape
<1>3. metrics \in [Gauge -> Nat]
  BY DEF ManagerInit, Gauge
<1> QED
  BY <1>1, <1>2, <1>3 DEF ManagerTypeOK

\* Every method keeps the types of its locals and of the shared state, whoever
\* else is in a method.
THEOREM ManagerTypeCorrect == ManagerSpec => []ManagerTypeOK
BY ManagerInitTypes, ManagerStepTypes, PTL DEF ManagerSpec

\* The manager's methods, however they interleave, act on the registry's map only
\* as single callers of the registry would.
THEOREM ManagerImplementsTable == ManagerSpec => TableSpec
<1>1. ManagerInit => TableInit
  BY DEF ManagerInit
<1>2. ManagerTypeOK /\ [ManagerNext]_managerVars => [TableNext]_tableVars
  BY ManagerStepsTable
<1> QED
  BY <1>1, <1>2, ManagerTypeCorrect, PTL DEF ManagerSpec, TableSpec

\* Hence what is proved of the map holds of the manager's sessions: the limit is
\* exceeded by fewer than there are tasks, and a closed or expired session never
\* comes back.
THEOREM ManagerSessions == ManagerSpec => []IdsDistinct /\ []SessionOvershootBounded /\ GoneForever
BY ManagerImplementsTable, TableIdsDistinct, SessionOvershootAlwaysBounded, SessionsGoneForever, PTL

-----------------------------------------------------------------------------
(* Every session is accounted for.                                          *)

\* The counts of tasks at a label and of registered sessions are numbers.
LEMMA FiniteCounts ==
    ASSUME NEW label
    PROVE  /\ IsFiniteSet(Tasks(label)) /\ Cardinality(Tasks(label)) \in Nat
           /\ IsFiniteSet(Registered) /\ Cardinality(Registered) \in Nat
<1>1. Tasks(label) \subseteq Task
  BY DEF Tasks
<1> QED
  BY <1>1, FiniteRegistry, SessionAssumption, FS_Subset, FS_CardinalityType

\* When one task's stack changes, only that task joins or leaves the tasks at a
\* label.
LEMMA TaskMoves ==
    ASSUME ControlTypeOK, NEW t \in Task, NEW s, stack' = [stack EXCEPT ![t] = s], NEW label
    PROVE  Tasks(label)' = IF s # <<>> /\ Head(s).at = label THEN Tasks(label) \cup {t}
                                                               ELSE Tasks(label) \ {t}
BY DEF ControlTypeOK, Tasks, At, Top

\* One element more or less in a finite set.
LEMMA OneElement ==
    ASSUME NEW S, IsFiniteSet(S), NEW x
    PROVE  /\ Cardinality(S) \in Nat
           /\ Cardinality(S \cup {x}) = Cardinality(S) - (IF x \in S THEN 1 ELSE 0) + 1
           /\ Cardinality(S \ {x}) = Cardinality(S) - (IF x \in S THEN 1 ELSE 0)
<1>1. Cardinality(S) \in Nat
  BY FS_CardinalityType
<1>2. Cardinality(S \cup {x}) = IF x \in S THEN Cardinality(S) ELSE Cardinality(S) + 1
  BY FS_AddElement
<1>3. Cardinality(S \ {x}) = IF x \in S THEN Cardinality(S) - 1 ELSE Cardinality(S)
  BY FS_RemoveElement
<1> QED
  BY <1>1, <1>2, <1>3

\* The effect of that on their number.
LEMMA CountMoves ==
    ASSUME ControlTypeOK, NEW t \in Task, NEW s, stack' = [stack EXCEPT ![t] = s], NEW label
    PROVE  Cardinality(Tasks(label))' =
               Cardinality(Tasks(label))
               - (IF At(t, label) THEN 1 ELSE 0)
               + (IF s # <<>> /\ Head(s).at = label THEN 1 ELSE 0)
<1> DEFINE S == Tasks(label)
           on == s # <<>> /\ Head(s).at = label
<1>1. At(t, label) <=> t \in S
  BY DEF Tasks
<1>2. S' = IF on THEN S \cup {t} ELSE S \ {t}
  BY TaskMoves
<1>3. IsFiniteSet(S)
  BY FiniteCounts
<1> HIDE DEF S, on
<1>4. Cardinality(S') = Cardinality(S) - (IF t \in S THEN 1 ELSE 0) + (IF on THEN 1 ELSE 0)
  <2>1. CASE on
    <3>1. Cardinality(S') = Cardinality(S \cup {t})
      BY <1>2, <2>1
    <3>2. /\ Cardinality(S) \in Nat
          /\ Cardinality(S \cup {t}) = Cardinality(S) - (IF t \in S THEN 1 ELSE 0) + 1
      BY <1>3, OneElement
    <3> QED
      BY <2>1, <3>1, <3>2
  <2>2. CASE ~on
    <3>1. Cardinality(S') = Cardinality(S \ {t})
      BY <1>2, <2>2
    <3>2. /\ Cardinality(S) \in Nat
          /\ Cardinality(S \ {t}) = Cardinality(S) - (IF t \in S THEN 1 ELSE 0)
      BY <1>3, OneElement
    <3> QED
      BY <2>2, <3>1, <3>2
  <2> QED
    BY <2>1, <2>2
<1>5. Cardinality(S') = Cardinality(S) - (IF At(t, label) THEN 1 ELSE 0) + (IF on THEN 1 ELSE 0)
  BY <1>1, <1>4
<1> QED
  BY <1>5 DEF S, on

\* A task that goes on is at its new frame; a task that returns is idle or back
\* in close_session.
LEMMA NewTop ==
    ASSUME ControlTypeOK, NEW t \in Task, stack[t] # <<>>
    PROVE  /\ \A f : <<f>> \o Tail(stack[t]) # <<>> /\ Head(<<f>> \o Tail(stack[t])) = f
           /\ \A f, g : <<f, g>> \o Tail(stack[t]) # <<>> /\ Head(<<f, g>> \o Tail(stack[t])) = f
           /\ Tail(stack[t]) # <<>> => Head(Tail(stack[t])).at = "close_pool_remove"
<1>1. Tail(stack[t]) = <<>> \/ \E g \in WaitingClose : Tail(stack[t]) = <<g>>
  BY TopOfStack DEF ControlTypeOK
<1>2. ASSUME NEW f PROVE <<f>> \o Tail(stack[t]) # <<>> /\ Head(<<f>> \o Tail(stack[t])) = f
  <2>1. ASSUME NEW h
        PROVE  /\ <<f>> \o <<>> # <<>> /\ Head(<<f>> \o <<>>) = f
               /\ <<f>> \o <<h>> # <<>> /\ Head(<<f>> \o <<h>>) = f
    OBVIOUS
  <2> QED
    BY <1>1, <2>1, Zenon
<1>3. ASSUME NEW f, NEW g
      PROVE  <<f, g>> \o Tail(stack[t]) # <<>> /\ Head(<<f, g>> \o Tail(stack[t])) = f
  <2>1. ASSUME NEW h
        PROVE  /\ <<f, g>> \o <<>> # <<>> /\ Head(<<f, g>> \o <<>>) = f
               /\ <<f, g>> \o <<h>> # <<>> /\ Head(<<f, g>> \o <<h>>) = f
    OBVIOUS
  <2> QED
    BY <1>1, <2>1, Zenon
<1>4. Tail(stack[t]) # <<>> => Head(Tail(stack[t])).at = "close_pool_remove"
  <2>1. ASSUME NEW g \in WaitingClose PROVE Head(<<g>>).at = "close_pool_remove"
    BY DEF WaitingClose
  <2> QED
    BY <1>1, <2>1
<1> QED
  BY <1>2, <1>3, <1>4

\* The labels that SessionsAccountedFor counts.
Recording == {"create_record", "close_record", "cleanup_pool_remove", "cleanup_record"}

\* How many tasks each of the four moves of the control state leaves at a label
\* that is counted.
LEMMA ControlMoves ==
    ASSUME ControlTypeOK, NEW t \in Task, NEW label \in Recording
    PROVE  /\ \A f : stack[t] # <<>> /\ Goto(t, f) =>
                 Cardinality(Tasks(label))' =
                     Cardinality(Tasks(label)) - (IF At(t, label) THEN 1 ELSE 0)
                                               + (IF f.at = label THEN 1 ELSE 0)
           /\ \A f, g : stack[t] # <<>> /\ CallThen(t, f, g) =>
                 Cardinality(Tasks(label))' =
                     Cardinality(Tasks(label)) - (IF At(t, label) THEN 1 ELSE 0)
                                               + (IF f.at = label THEN 1 ELSE 0)
           /\ \A ok, i : stack[t] # <<>> /\ Return(t, ok, i) =>
                 Cardinality(Tasks(label))' =
                     Cardinality(Tasks(label)) - (IF At(t, label) THEN 1 ELSE 0)
           /\ \A f : Enters(t, f) =>
                 Cardinality(Tasks(label))' =
                     Cardinality(Tasks(label)) + (IF f.at = label THEN 1 ELSE 0)
<1>1. ASSUME NEW f, stack[t] # <<>>, Goto(t, f)
      PROVE  Cardinality(Tasks(label))' =
                 Cardinality(Tasks(label)) - (IF At(t, label) THEN 1 ELSE 0)
                                           + (IF f.at = label THEN 1 ELSE 0)
  <2> DEFINE s == <<f>> \o Tail(stack[t])
  <2>1. stack' = [stack EXCEPT ![t] = s]
    BY <1>1 DEF Goto
  <2>2. s # <<>> /\ Head(s) = f
    BY <1>1, NewTop
  <2> HIDE DEF s
  <2> QED
    BY <2>1, <2>2, CountMoves, FiniteCounts
<1>2. ASSUME NEW f, NEW g, stack[t] # <<>>, CallThen(t, f, g)
      PROVE  Cardinality(Tasks(label))' =
                 Cardinality(Tasks(label)) - (IF At(t, label) THEN 1 ELSE 0)
                                           + (IF f.at = label THEN 1 ELSE 0)
  <2> DEFINE s == <<f, g>> \o Tail(stack[t])
  <2>1. stack' = [stack EXCEPT ![t] = s]
    BY <1>2 DEF CallThen
  <2>2. s # <<>> /\ Head(s) = f
    BY <1>2, NewTop
  <2> HIDE DEF s
  <2> QED
    BY <2>1, <2>2, CountMoves, FiniteCounts
<1>3. ASSUME NEW ok, NEW i, stack[t] # <<>>, Return(t, ok, i)
      PROVE  Cardinality(Tasks(label))' =
                 Cardinality(Tasks(label)) - (IF At(t, label) THEN 1 ELSE 0)
  <2> DEFINE s == Tail(stack[t])
  <2>1. stack' = [stack EXCEPT ![t] = s]
    BY <1>3 DEF Return
  <2>2. ~(s # <<>> /\ Head(s).at = label)
    BY <1>3, NewTop DEF Recording
  <2> HIDE DEF s
  <2>3. Cardinality(Tasks(label))' =
            Cardinality(Tasks(label)) - (IF At(t, label) THEN 1 ELSE 0)
                                      + (IF s # <<>> /\ Head(s).at = label THEN 1 ELSE 0)
    BY <2>1, CountMoves
  <2> QED
    BY <2>2, <2>3, FiniteCounts
<1>4. ASSUME NEW f, Enters(t, f)
      PROVE  Cardinality(Tasks(label))' =
                 Cardinality(Tasks(label)) + (IF f.at = label THEN 1 ELSE 0)
  <2> DEFINE s == <<f>>
  <2>1. stack' = [stack EXCEPT ![t] = s]
    BY <1>4 DEF Enters
  <2>2. s # <<>> /\ Head(s) = f /\ ~At(t, label)
    BY <1>4 DEF Enters, At
  <2> HIDE DEF s
  <2>3. Cardinality(Tasks(label))' =
            Cardinality(Tasks(label)) - (IF At(t, label) THEN 1 ELSE 0)
                                      + (IF s # <<>> /\ Head(s).at = label THEN 1 ELSE 0)
    BY <2>1, CountMoves
  <2> QED
    BY <2>2, <2>3, FiniteCounts
<1> QED
  BY <1>1, <1>2, <1>3, <1>4

\* No task comes to, or leaves, a label that is counted.
RecordersStay == \A label \in Recording : Cardinality(Tasks(label))' = Cardinality(Tasks(label))

\* Moves between labels that are not counted.
LEMMA UncountedMoves ==
    ASSUME ControlTypeOK, NEW t \in Task
    PROVE  /\ \A l, f : At(t, l) /\ l \notin Recording /\ Goto(t, f) /\ f.at \notin Recording
                       => RecordersStay
           /\ \A l, f, g : At(t, l) /\ l \notin Recording /\ CallThen(t, f, g)
                           /\ f.at \notin Recording => RecordersStay
           /\ \A l, ok, i : At(t, l) /\ l \notin Recording /\ Return(t, ok, i) => RecordersStay
           /\ \A f : Enters(t, f) /\ f.at \notin Recording => RecordersStay
<1>1. ASSUME NEW l, At(t, l), l \notin Recording, NEW label \in Recording
      PROVE  stack[t] # <<>> /\ ~At(t, label) /\ Cardinality(Tasks(label)) \in Nat
  BY <1>1, FiniteCounts DEF At
<1>2. ASSUME NEW l, NEW f, At(t, l), l \notin Recording, Goto(t, f), f.at \notin Recording
      PROVE  RecordersStay
  BY <1>1, <1>2, ControlMoves DEF RecordersStay
<1>3. ASSUME NEW l, NEW f, NEW g, At(t, l), l \notin Recording, CallThen(t, f, g),
             f.at \notin Recording
      PROVE  RecordersStay
  BY <1>1, <1>3, ControlMoves DEF RecordersStay
<1>4. ASSUME NEW l, NEW ok, NEW i, At(t, l), l \notin Recording, Return(t, ok, i)
      PROVE  RecordersStay
  BY <1>1, <1>4, ControlMoves DEF RecordersStay
<1>5. ASSUME NEW f, Enters(t, f), f.at \notin Recording
      PROVE  RecordersStay
  BY <1>5, ControlMoves, FiniteCounts DEF RecordersStay
<1> QED
  BY <1>2, <1>3, <1>4, <1>5

\* What the map's operations do to the number of sessions.
LEMMA RegisteredMoves ==
    ASSUME TableTypeOK, IdsDistinct
    PROVE  /\ \A t \in Task : InsertSession(t) =>
                 Cardinality(Registered)' = Cardinality(Registered) + 1
           /\ \A i : DropSession(i) => Cardinality(Registered)' = Cardinality(Registered) - 1
           /\ \A i : MarkSessionUsed(i) => Registered' = Registered
           /\ \A i : \A status \in SessionStatus :
                 SetSessionStatus(i, status) => Registered' = Registered
           /\ \A m \in SessionMetadata : ReplaceSession(m) => Registered' = Registered
           /\ UNCHANGED sessions => Registered' = Registered
<1>1. ASSUME NEW t \in Task, InsertSession(t)
      PROVE  Cardinality(Registered)' = Cardinality(Registered) + 1
  <2>1. registering[t] \in SessionMetadata /\ registering[t].id \in SessionId
    BY <1>1 DEF InsertSession, TableTypeOK, SessionMetadata
  <2>2. Registered' = Registered \cup {registering[t].id} /\ registering[t].id \notin Registered
    BY <1>1, <2>1 DEF InsertSession, TableTypeOK, Registered, IdsDistinct
  <2> QED
    BY <2>2, FiniteRegistry, FS_AddElement
<1>2. ASSUME NEW i, DropSession(i)
      PROVE  Cardinality(Registered)' = Cardinality(Registered) - 1
  <2>1. Registered' = Registered \ {i} /\ i \in Registered
    BY <1>2 DEF DropSession, TableTypeOK, Registered
  <2> QED
    BY <2>1, FiniteRegistry, FS_RemoveElement
<1>3. ASSUME NEW i, MarkSessionUsed(i) PROVE Registered' = Registered
  <2>1. i \in SessionId /\ sessions[i] \in SessionMetadata
    BY <1>3 DEF MarkSessionUsed, Registered, TableTypeOK
  <2>2. MarkUsed(sessions[i], clock) \in SessionMetadata
    BY <2>1, MetadataOperations DEF TableTypeOK, SessionStatus
  <2> QED
    BY <1>3, <2>1, <2>2, NoneAssumption DEF MarkSessionUsed, Registered, TableTypeOK
<1>4. ASSUME NEW i, NEW status \in SessionStatus, SetSessionStatus(i, status)
      PROVE  Registered' = Registered
  <2>1. i \in SessionId /\ sessions[i] \in SessionMetadata
    BY <1>4 DEF SetSessionStatus, Registered, TableTypeOK
  <2>2. SetStatus(sessions[i], status, clock) \in SessionMetadata
    BY <2>1, MetadataOperations DEF TableTypeOK
  <2> QED
    BY <1>4, <2>1, <2>2, NoneAssumption DEF SetSessionStatus, Registered, TableTypeOK
<1>5. ASSUME NEW m \in SessionMetadata, ReplaceSession(m) PROVE Registered' = Registered
  BY <1>5, NoneAssumption DEF ReplaceSession, Registered, TableTypeOK
<1>6. UNCHANGED sessions => Registered' = Registered
  BY DEF Registered
<1> QED
  BY <1>1, <1>2, <1>3, <1>4, <1>5, <1>6

\* A task goes from one label to the next, or returns.
LEMMA CountedMoves ==
    ASSUME ControlTypeOK, NEW t \in Task, NEW l, At(t, l), NEW label \in Recording
    PROVE  /\ \A f : Goto(t, f) =>
                 Cardinality(Tasks(label))' =
                     Cardinality(Tasks(label)) - (IF l = label THEN 1 ELSE 0)
                                               + (IF f.at = label THEN 1 ELSE 0)
           /\ \A ok, i : Return(t, ok, i) =>
                 Cardinality(Tasks(label))' =
                     Cardinality(Tasks(label)) - (IF l = label THEN 1 ELSE 0)
<1>1. stack[t] # <<>> /\ (At(t, label) <=> l = label)
  BY DEF At
<1> QED
  BY <1>1, ControlMoves

\* update_status inside update_session_status: the new status is entered, or the
\* session is gone.
LEMMA StatusUpdateForm ==
    ASSUME NEW t, StatusUpdate(t)
    PROVE  \/ /\ SetSessionStatus(Top(t).id, Top(t).status)
              /\ \E next \in {"status_pool_get", "status_pool_remove", "status_record"} :
                    Goto(t, [Top(t) EXCEPT !.at = next])
           \/ UNCHANGED sessions /\ Return(t, FALSE, Top(t).id)
<1> DEFINE next == CASE Top(t).status = "Idle" -> "status_pool_get"
                     [] Top(t).status \in {"Active", "Failed", "Closed"} -> "status_pool_remove"
                     [] OTHER -> "status_record"
<1>1. next \in {"status_pool_get", "status_pool_remove", "status_record"}
  OBVIOUS
<1>2. \/ SetSessionStatus(Top(t).id, Top(t).status) /\ Goto(t, [Top(t) EXCEPT !.at = next])
      \/ UNCHANGED sessions /\ Return(t, FALSE, Top(t).id)
  BY Zenon DEF StatusUpdate, tableState
<1> HIDE DEF next
<1> QED
  BY <1>1, <1>2

\* Every step keeps the balance of the totals.
LEMMA AccountKept ==
    ASSUME ManagerTypeOK, IdsDistinct, SessionsAccountedFor, [ManagerNext]_managerVars
    PROVE  SessionsAccountedFor'
<1> USE DEF ManagerTypeOK
<1> DEFINE Totals == /\ metrics'.total_sessions_created = metrics.total_sessions_created
                     /\ metrics'.sessions_closed = metrics.sessions_closed
           N(label) == Cardinality(Tasks(label))
           R == Cardinality(Registered)
           Moves(l, m) == \A label \in Recording :
                             N(label)' = N(label) - (IF l = label THEN 1 ELSE 0)
                                                  + (IF m = label THEN 1 ELSE 0)
<1>1. ASSUME RecordersStay, Registered' = Registered, Totals PROVE SessionsAccountedFor'
  BY <1>1 DEF SessionsAccountedFor, RecordersStay, Recording
<1>2. ASSUME NEW t \in Task, UpdateSessionStatus(t) PROVE SessionsAccountedFor'
  <2>1. Totals
    BY <1>2, RecordEffects DEF UpdateSessionStatus, StatusGet, StatusUpdate, StatusPoolGet,
       StatusPoolCheck, StatusPoolInsert, StatusPoolRemove, StatusRecord
  <2>2. Registered' = Registered
    <3>1. CASE StatusUpdate(t)
      <4>1. Top(t).status \in SessionStatus
        BY <3>1, TopFrame, FrameLocals DEF StatusUpdate, StatusFrame
      <4>2. SetSessionStatus(Top(t).id, Top(t).status) => Registered' = Registered
        BY <4>1, RegisteredMoves
      <4>3. UNCHANGED sessions => Registered' = Registered
        BY RegisteredMoves
      <4> QED
        BY <4>2, <4>3, <3>1, StatusUpdateForm
    <3>2. CASE ~StatusUpdate(t)
      BY <1>2, <3>2, RegisteredMoves DEF UpdateSessionStatus, StatusGet, StatusPoolGet,
         StatusPoolCheck, StatusPoolInsert, StatusPoolRemove, StatusRecord, tableState
    <3> QED
      BY <3>1, <3>2
  <2>3. RecordersStay
    <3> USE DEF Recording
    <3>1. CASE StatusGet(t)
      BY <3>1, UncountedMoves DEF StatusGet
    <3>2. ASSUME Top(t) \in StatusFrame
          PROVE  \A label : [Top(t) EXCEPT !.at = label].at = label
      BY <3>2 DEF StatusFrame
    <3>3. CASE StatusUpdate(t)
      <4>1. At(t, "status_update") /\ Top(t) \in StatusFrame
        BY <3>3, TopFrame, FrameLocals DEF StatusUpdate
      <4> QED
        BY <3>2, <3>3, <4>1, StatusUpdateForm, UncountedMoves
    <3>4. CASE StatusPoolGet(t)
      BY <3>2, <3>4, TopFrame, FrameLocals, UncountedMoves DEF StatusPoolGet
    <3>5. CASE StatusPoolCheck(t)
      BY <3>5, UncountedMoves DEF StatusPoolCheck
    <3>6. CASE StatusPoolInsert(t) \/ StatusPoolRemove(t)
      BY <3>2, <3>6, TopFrame, FrameLocals, UncountedMoves DEF StatusPoolInsert, StatusPoolRemove
    <3>7. CASE StatusRecord(t)
      BY <3>7, UncountedMoves DEF StatusRecord
    <3> QED
      BY <1>2, <3>1, <3>3, <3>4, <3>5, <3>6, <3>7 DEF UpdateSessionStatus
  <2> QED
    BY <1>1, <2>1, <2>2, <2>3
<1>3. ASSUME NEW t \in Task, UseSession(t) \/ ConnectOrCreate(t) \/ UpdateMetadata(t)
             \/ CloseStart(t) \/ ClosePoolRemove(t) \/ CreateCheck(t)
      PROVE  SessionsAccountedFor'
  <2>1. Totals
    BY <1>3 DEF UseSession, UseMark, UseGet, ConnectOrCreate, UpdateMetadata, CloseStart,
       ClosePoolRemove, CreateCheck
  <2>2. Registered' = Registered
    <3>1. UpdateMetadata(t) => Top(t).metadata \in SessionMetadata
      BY TopFrame, FrameLocals, SessionAssumption DEF UpdateMetadata, MetadataFrame
    <3> QED
      BY <1>3, <3>1, RegisteredMoves DEF UseSession, UseMark, UseGet, ConnectOrCreate,
         UpdateMetadata, CloseStart, ClosePoolRemove, CreateCheck, AdmitSession, tableState
  <2>3. RecordersStay
    <3> USE UncountedMoves DEF Recording
    <3>1. CASE UseSession(t)
      BY <3>1 DEF UseSession, UseMark, UseGet, UpdateStatusFrame
    <3>2. CASE ConnectOrCreate(t)
      BY <3>2 DEF ConnectOrCreate, UseFrame, CreateFrame
    <3>3. CASE UpdateMetadata(t)
      BY <3>3 DEF UpdateMetadata
    <3>4. CASE CloseStart(t)
      BY <3>4 DEF CloseStart, UpdateStatusFrame
    <3>5. CASE ClosePoolRemove(t)
      BY <3>5 DEF ClosePoolRemove
    <3>6. CASE CreateCheck(t)
      BY <3>6 DEF CreateCheck
    <3> QED
      BY <1>3, <3>1, <3>2, <3>3, <3>4, <3>5, <3>6
  <2> QED
    BY <1>1, <2>1, <2>2, <2>3
<1>4. ASSUME NEW t \in Task, CallManager(t) PROVE SessionsAccountedFor'
  <2>1. ASSUME NEW f, Begin(t, f), f.at \notin Recording PROVE SessionsAccountedFor'
    BY <1>1, <2>1, UncountedMoves, RegisteredMoves DEF Begin, tableState
  <2> QED
    BY <1>4, <2>1 DEF CallManager, CreateFrame, UpdateStatusFrame, UseFrame, CloseFrame, Recording
<1>5. CASE ManagerClockStep \/ UNCHANGED managerVars
  BY <1>5 DEF ManagerClockStep, managerVars, tableState, SessionsAccountedFor, Registered, Tasks,
     At, Top
<1>6. /\ \A label \in Recording : N(label) \in Nat
      /\ R \in Nat /\ metrics.total_sessions_created \in Nat /\ metrics.sessions_closed \in Nat
  BY FiniteCounts DEF Gauge
<1>7. ASSUME NEW t \in Task, NEW l, At(t, l), NEW f, Goto(t, f) PROVE Moves(l, f.at)
  BY <1>7, CountedMoves
<1>8. ASSUME NEW t \in Task, NEW l, At(t, l), NEW ok, NEW i, Return(t, ok, i)
      PROVE  Moves(l, "returned")
  BY <1>6, <1>8, CountedMoves DEF Recording
<1>9. ASSUME NEW t \in Task, CreateInsert(t) PROVE SessionsAccountedFor'
  <2> DEFINE f == [Top(t) EXCEPT !.at = "create_record"]
  <2>1. Totals /\ R' = R + 1
    BY <1>9, RegisteredMoves DEF CreateInsert
  <2>2. f.at = "create_record"
    BY <1>9, TopFrame, FrameLocals DEF CreateInsert, IdFrame
  <2>3. At(t, "create_insert") /\ Goto(t, f)
    BY <1>9 DEF CreateInsert
  <2> HIDE DEF f
  <2>4. Moves("create_insert", f.at)
    BY <1>7, <2>3
  <2>5. /\ N("create_record")' = N("create_record") + 1
        /\ N("close_record")' = N("close_record")
        /\ N("cleanup_pool_remove")' = N("cleanup_pool_remove")
        /\ N("cleanup_record")' = N("cleanup_record")
    BY <1>6, <2>2, <2>4 DEF Recording
  <2> QED
    BY <1>6, <2>1, <2>5 DEF SessionsAccountedFor, Recording
<1>10. ASSUME NEW t \in Task, CreateRecord(t) PROVE SessionsAccountedFor'
  <2>1. /\ metrics'.total_sessions_created = metrics.total_sessions_created + 1
        /\ metrics'.sessions_closed = metrics.sessions_closed
    BY <1>10, RecordEffects DEF CreateRecord
  <2>2. R' = R
    BY <1>10, RegisteredMoves DEF CreateRecord, tableState
  <2>3. Moves("create_record", "returned")
    BY <1>8, <1>10 DEF CreateRecord
  <2>4. /\ N("create_record")' = N("create_record") - 1
        /\ N("close_record")' = N("close_record")
        /\ N("cleanup_pool_remove")' = N("cleanup_pool_remove")
        /\ N("cleanup_record")' = N("cleanup_record")
    BY <1>6, <2>3 DEF Recording
  <2> QED
    BY <1>6, <2>1, <2>2, <2>4 DEF SessionsAccountedFor, Recording
<1>11. ASSUME NEW t \in Task, CloseUnregister(t) PROVE SessionsAccountedFor'
  <2> DEFINE i == Top(t).id
             f == [at |-> "close_record", removed |-> sessions[i]]
  <2>1. Totals
    BY <1>11 DEF CloseUnregister
  <2>2. At(t, "close_unregister") /\ f.at = "close_record"
    BY <1>11 DEF CloseUnregister
  <2>3. CASE DropSession(i) /\ Goto(t, f)
    <3>1. R' = R - 1
      BY <2>3, RegisteredMoves
    <3> HIDE DEF f
    <3>2. Moves("close_unregister", f.at)
      BY <1>7, <2>2, <2>3
    <3> QED
      BY <1>6, <2>1, <2>2, <3>1, <3>2 DEF SessionsAccountedFor, Recording
  <2>4. CASE Return(t, TRUE, i) /\ UNCHANGED sessions
    BY <1>1, <2>1, <2>2, <2>4, RegisteredMoves, UncountedMoves DEF Recording
  <2> QED
    BY <1>11, <2>3, <2>4 DEF CloseUnregister, tableState
<1>12. ASSUME NEW t \in Task, CloseRecord(t) PROVE SessionsAccountedFor'
  <2>1. /\ metrics'.total_sessions_created = metrics.total_sessions_created
        /\ metrics'.sessions_closed = metrics.sessions_closed + 1
    BY <1>12, RecordEffects DEF CloseRecord
  <2>2. R' = R
    BY <1>12, RegisteredMoves DEF CloseRecord, tableState
  <2>3. Moves("close_record", "returned")
    BY <1>8, <1>12 DEF CloseRecord
  <2> QED
    BY <1>6, <2>1, <2>2, <2>3 DEF SessionsAccountedFor, Recording
<1>13. ASSUME NEW t \in Task, CleanupExpire(t) PROVE SessionsAccountedFor'
  <2>1. Totals
    BY <1>13 DEF CleanupExpire
  <2>2. At(t, "cleanup") /\ Top(t) \in CleanupFrame
    BY <1>13, TopFrame, FrameLocals DEF CleanupExpire
  <2>3. ASSUME NEW m, NEW rest, DropSession(m.id),
               Goto(t, [at |-> "cleanup_pool_remove", snapshot |-> rest, removed |-> sessions[m.id]])
        PROVE  SessionsAccountedFor'
    <3> DEFINE f == [at |-> "cleanup_pool_remove", snapshot |-> rest, removed |-> sessions[m.id]]
    <3>1. R' = R - 1 /\ f.at = "cleanup_pool_remove" /\ Goto(t, f)
      BY <2>3, RegisteredMoves
    <3> HIDE DEF f
    <3>2. Moves("cleanup", f.at)
      BY <1>7, <2>2, <3>1
    <3> QED
      BY <1>6, <2>1, <3>1, <3>2 DEF SessionsAccountedFor, Recording
  <2>4. ASSUME NEW rest, Goto(t, [Top(t) EXCEPT !.snapshot = rest]), UNCHANGED sessions
        PROVE  SessionsAccountedFor'
    <3>1. [Top(t) EXCEPT !.snapshot = rest].at = "cleanup"
      BY <2>2 DEF CleanupFrame
    <3> QED
      BY <1>1, <2>1, <2>2, <2>4, <3>1, RegisteredMoves, UncountedMoves DEF Recording
  <2> QED
    BY <1>13, <2>3, <2>4 DEF CleanupExpire, tableState
<1>14. ASSUME NEW t \in Task, CleanupPoolRemove(t) PROVE SessionsAccountedFor'
  <2> DEFINE f == [Top(t) EXCEPT !.at = "cleanup_record"]
  <2>1. Totals /\ R' = R
    BY <1>14, RegisteredMoves DEF CleanupPoolRemove, tableState
  <2>2. f.at = "cleanup_record"
    BY <1>14, TopFrame, FrameLocals DEF CleanupPoolRemove, ExpireFrame
  <2>3. At(t, "cleanup_pool_remove") /\ Goto(t, f)
    BY <1>14 DEF CleanupPoolRemove
  <2> HIDE DEF f
  <2>4. Moves("cleanup_pool_remove", f.at)
    BY <1>7, <2>3
  <2> QED
    BY <1>6, <2>1, <2>2, <2>4 DEF SessionsAccountedFor, Recording
<1>15. ASSUME NEW t \in Task, CleanupRecord(t) PROVE SessionsAccountedFor'
  <2> DEFINE f == [at |-> "cleanup", snapshot |-> Top(t).snapshot]
  <2>1. /\ metrics'.total_sessions_created = metrics.total_sessions_created
        /\ metrics'.sessions_closed = metrics.sessions_closed + 1
    BY <1>15, RecordEffects DEF CleanupRecord
  <2>2. R' = R
    BY <1>15, RegisteredMoves DEF CleanupRecord, tableState
  <2>3. At(t, "cleanup_record") /\ Goto(t, f) /\ f.at = "cleanup"
    BY <1>15 DEF CleanupRecord
  <2> HIDE DEF f
  <2>4. Moves("cleanup_record", f.at)
    BY <1>7, <2>3
  <2> QED
    BY <1>6, <2>1, <2>2, <2>3, <2>4 DEF SessionsAccountedFor, Recording
<1>16. ASSUME NEW t \in Task, CleanupStart(t) \/ CleanupSweep(t) \/ CleanupSweepStep(t)
       PROVE  SessionsAccountedFor'
  <2>1. Totals /\ Registered' = Registered
    BY <1>16, RegisteredMoves DEF CleanupStart, CleanupSweep, CleanupSweepStep, tableState
  <2>2. CASE CleanupStart(t) \/ CleanupSweep(t)
    BY <1>1, <2>1, <2>2, UncountedMoves DEF CleanupStart, CleanupSweep, Recording
  <2>3. CASE CleanupSweepStep(t)
    <3>1. UNCHANGED stack => RecordersStay
      BY DEF RecordersStay, Tasks, At, Top
    <3> QED
      BY <1>1, <2>1, <2>3, <3>1, UncountedMoves DEF CleanupSweepStep, Recording
  <2> QED
    BY <1>16, <2>2, <2>3
<1> QED
  BY <1>2, <1>3, <1>4, <1>5, <1>9, <1>10, <1>11, <1>12, <1>13, <1>14, <1>15, <1>16
  DEF ManagerNext, ManagerStep, CloseSession, CreateSession, Cleanup

\* Every session is counted as created once and as closed once, for any number of
\* callers and cleanup tasks: two closers of one session, or a close and an
\* expiry, never record it twice, and no removal goes unrecorded.
THEOREM SessionsAlwaysAccountedFor == ManagerSpec => []SessionsAccountedFor
<1>1. ManagerInit => SessionsAccountedFor
  <2> SUFFICES ASSUME ManagerInit PROVE SessionsAccountedFor
    OBVIOUS
  <2>1. Registered = {} /\ \A label : Tasks(label) = {}
    BY DEF ManagerInit, TableInit, Registered, Tasks, At
  <2>2. Cardinality(Registered) = 0 /\ \A label : Cardinality(Tasks(label)) = 0
    BY <2>1, FS_EmptySet
  <2>3. metrics.total_sessions_created = 0 /\ metrics.sessions_closed = 0
    BY DEF ManagerInit
  <2> QED
    BY <2>2, <2>3 DEF SessionsAccountedFor
<1>2. ManagerTypeOK /\ IdsDistinct /\ SessionsAccountedFor /\ [ManagerNext]_managerVars
      => SessionsAccountedFor'
  BY AccountKept
<1> QED
  BY <1>1, <1>2, ManagerTypeCorrect, ManagerSessions, PTL DEF ManagerSpec

-----------------------------------------------------------------------------
(* Calls that do not overlap.                                               *)

\* At most one task is in a method.
Alone == \A t, u \in Task : stack[t] # <<>> /\ stack[u] # <<>> => t = u

Label(t) == IF stack[t] = <<>> THEN "idle" ELSE Top(t).at

\* Where update_session_status has changed the status and not recorded that.
Updated == {"status_pool_get", "status_pool_check", "status_pool_insert",
            "status_pool_remove", "status_record"}

\* Where a session has left the registry and that is not recorded.
Removed == {"close_record", "cleanup_pool_remove", "cleanup_record"}

\* The session whose change a task has yet to record, and the status under which
\* the gauges still count it.
Owed(t) == IF Label(t) \in Updated THEN {Top(t).id}
           ELSE IF Label(t) \in Removed THEN {Top(t).removed.id}
           ELSE {}

OldStatus(t) == IF Label(t) \in Updated THEN Top(t).old ELSE Top(t).removed.status

\* What a method read or wrote is still so: nobody else was there.
Fresh(t) ==
    /\ Label(t) # "update_metadata"
    /\ Label(t) = "status_update" =>
          Top(t).id \in Registered /\ sessions[Top(t).id].status = Top(t).old
    /\ Label(t) \in Updated =>
          Top(t).id \in Registered /\ sessions[Top(t).id].status = Top(t).status
    /\ Label(t) \in Removed => Top(t).removed.id \notin Registered

\* How a session stands: its status, or that it is not in the map.
Standing == SessionStatus \cup {"Absent"}

Actual(i) == IF i \in Registered THEN sessions[i].status ELSE "Absent"

Counted == {"Active", "Idle", "Failed"}

\* The sessions that b has under a status.
Under(b, status) == {i \in SessionId : b[i] = status}

\* The gauges count every session under the status b gives it: its own, but for
\* the one whose change is still to be recorded.
Booked(b) ==
    /\ b \in [SessionId -> Standing]
    /\ \A status \in Counted :
          metrics[GaugeOf(status)] = Cardinality(Under(b, status))
    /\ \A i \in SessionId :
          /\ (\A t \in Task : i \notin Owed(t)) => b[i] = Actual(i)
          /\ \A t \in Task : i \in Owed(t) => b[i] = OldStatus(t)

\* register inserts a session that is connecting, which no gauge counts.
Connecting == \A t \in Task : registering[t] # None => registering[t].status = "Connecting"

SerialInv ==
    ~disturbed => /\ Alone /\ \A t \in Task : Fresh(t)
                  /\ \E b \in [SessionId -> Standing] : Booked(b)

OnlyTask(t) == \A u \in Task : u # t => stack[u] = <<>>

\* Where the only task that is in a method gets to.
LEMMA SoleMoves ==
    ASSUME ControlTypeOK, NEW t \in Task, OnlyTask(t), NEW s, stack' = [stack EXCEPT ![t] = s]
    PROVE  Alone' /\ OnlyTask(t)' /\ stack'[t] = s
BY DEF ControlTypeOK, Alone, OnlyTask

\* The label and the frame it is at then.
LEMMA SoleGoto ==
    ASSUME ControlTypeOK, NEW t \in Task, OnlyTask(t), stack[t] # <<>>, NEW f, Goto(t, f)
    PROVE  Alone' /\ OnlyTask(t)' /\ Label(t)' = f.at /\ Top(t)' = f
           /\ disturbed' = disturbed /\ Tail(stack'[t]) = Tail(stack[t])
<1> DEFINE s == <<f>> \o Tail(stack[t])
<1>1. stack' = [stack EXCEPT ![t] = s] /\ disturbed' = disturbed
  BY DEF Goto
<1>2. s # <<>> /\ Head(s) = f
  BY NewTop
<1>3. Tail(s) = Tail(stack[t])
  <2>1. Tail(stack[t]) = <<>> \/ \E g \in WaitingClose : Tail(stack[t]) = <<g>>
    BY TopOfStack DEF ControlTypeOK
  <2>2. Tail(<<f>> \o <<>>) = <<>>
    OBVIOUS
  <2>3. ASSUME NEW g PROVE Tail(<<f>> \o <<g>>) = <<g>>
    <3>1. Tail(<<f, g>>) = <<g>>
      OBVIOUS
    <3> QED
      BY <3>1, TwoFrames, Zenon
  <2> QED
    BY <2>1, <2>2, <2>3, Zenon
<1> HIDE DEF s
<1>4. Alone' /\ OnlyTask(t)' /\ stack'[t] = s
  BY <1>1, SoleMoves
<1> QED
  BY <1>1, <1>2, <1>3, <1>4 DEF Label, Top

\* The same for a call: the caller waits below.
LEMMA SoleCallThen ==
    ASSUME ControlTypeOK, NEW t \in Task, OnlyTask(t), stack[t] # <<>>,
           Top(t) \notin UpdateStatusFrames, NEW f, NEW g, CallThen(t, f, g)
    PROVE  Alone' /\ OnlyTask(t)' /\ Label(t)' = f.at /\ Top(t)' = f
           /\ disturbed' = disturbed /\ Tail(stack'[t]) = <<g>>
<1> DEFINE s == <<f, g>>
<1>1. Tail(stack[t]) = <<>>
  BY TopOfStack DEF ControlTypeOK, Top
<1>2. <<f, g>> \o <<>> = s /\ s # <<>> /\ Head(s) = f /\ Tail(s) = <<g>>
  OBVIOUS
<1>3. stack' = [stack EXCEPT ![t] = s] /\ disturbed' = disturbed
  BY <1>1, <1>2, Zenon DEF CallThen
<1> HIDE DEF s
<1>4. Alone' /\ OnlyTask(t)' /\ stack'[t] = s
  BY <1>3, SoleMoves
<1> QED
  BY <1>2, <1>3, <1>4 DEF Label, Top

\* The same for a return.
LEMMA SoleReturn ==
    ASSUME ControlTypeOK, NEW t \in Task, OnlyTask(t), stack[t] # <<>>, NEW ok, NEW i,
           Return(t, ok, i)
    PROVE  /\ Alone' /\ OnlyTask(t)' /\ disturbed' = disturbed
           /\ stack'[t] = Tail(stack[t])
           /\ Label(t)' = IF Tail(stack[t]) = <<>> THEN "idle" ELSE "close_pool_remove"
<1> DEFINE s == Tail(stack[t])
<1>1. stack' = [stack EXCEPT ![t] = s] /\ disturbed' = disturbed
  BY DEF Return
<1>2. s # <<>> => Head(s).at = "close_pool_remove"
  BY NewTop
<1> HIDE DEF s
<1>3. Alone' /\ OnlyTask(t)' /\ stack'[t] = s
  BY <1>1, SoleMoves
<1> QED
  BY <1>1, <1>2, <1>3 DEF Label, Top, s

\* A call that disturbs nobody finds every task idle.
LEMMA SoleEnters ==
    ASSUME ControlTypeOK, NEW t \in Task, NEW f, Enters(t, f), ~disturbed'
    PROVE  /\ ~disturbed /\ f.at # "update_metadata" /\ \A u \in Task : stack[u] = <<>>
           /\ Alone' /\ OnlyTask(t)' /\ Label(t)' = f.at /\ Top(t)' = f
           /\ Tail(stack'[t]) = <<>>
<1>1. ~disturbed /\ f.at # "update_metadata" /\ \A u \in Task : stack[u] = <<>>
  BY DEF Enters
<1> DEFINE s == <<f>>
<1>2. stack' = [stack EXCEPT ![t] = s] /\ s # <<>> /\ Head(s) = f /\ Tail(s) = <<>>
  BY DEF Enters
<1> HIDE DEF s
<1>3. Alone' /\ OnlyTask(t)' /\ stack'[t] = s
  BY <1>1, <1>2, SoleMoves DEF OnlyTask
<1> QED
  BY <1>1, <1>2, <1>3 DEF Label, Top

\* With one task in a method, only its debt matters.
LEMMA SoleDebt ==
    ASSUME NEW t \in Task, OnlyTask(t), NEW b, Booked(b)
    PROVE  \A i \in SessionId : /\ i \notin Owed(t) => b[i] = Actual(i)
                                /\ i \in Owed(t) => b[i] = OldStatus(t)
<1>1. \A u \in Task : u # t => Owed(u) = {}
  BY DEF OnlyTask, Owed, Label, Updated, Removed
<1> QED
  BY <1>1 DEF Booked

\* And conversely, after a step.
LEMMA NewDebt ==
    ASSUME NEW t \in Task, OnlyTask(t)', NEW b \in [SessionId -> Standing],
           \A status \in Counted :
               metrics'[GaugeOf(status)] = Cardinality(Under(b, status)),
           \A i \in SessionId : /\ i \notin Owed(t)' => b[i] = Actual(i)'
                                /\ i \in Owed(t)' => b[i] = OldStatus(t)'
    PROVE  \E c \in [SessionId -> Standing] : Booked(c)'
<1>1. \A u \in Task : u # t => Owed(u)' = {}
  BY DEF OnlyTask, Owed, Label, Updated, Removed
<1>2. Booked(b)'
  BY <1>1 DEF Booked
<1> QED
  BY <1>2

Rebook(b, i, v) == [b EXCEPT ![i] = v]

\* The counts when one session is booked under another status.
LEMMA Rebooked ==
    ASSUME NEW b \in [SessionId -> Standing], NEW i \in SessionId,
           NEW v \in Standing, NEW status
    PROVE  /\ Cardinality(Under(b, status)) \in Nat
           /\ b[i] = status => Cardinality(Under(b, status)) > 0
           /\ Cardinality(Under(Rebook(b, i, v), status)) =
                 Cardinality(Under(b, status))
                 - (IF b[i] = status THEN 1 ELSE 0) + (IF v = status THEN 1 ELSE 0)
<1> DEFINE S == Under(b, status)
           T == Under(Rebook(b, i, v), status)
<1>1. S \subseteq SessionId /\ (i \in S <=> b[i] = status)
  BY DEF Under
<1>2. IsFiniteSet(S)
  BY <1>1, SessionAssumption, FS_Subset
<1>3. T = IF v = status THEN S \cup {i} ELSE S \ {i}
  BY DEF Under, Rebook
<1>4. i \in S => S # {}
  OBVIOUS
<1> HIDE DEF S, T
<1>5. /\ Cardinality(S) \in Nat
      /\ Cardinality(S \cup {i}) = Cardinality(S) - (IF i \in S THEN 1 ELSE 0) + 1
      /\ Cardinality(S \ {i}) = Cardinality(S) - (IF i \in S THEN 1 ELSE 0)
  BY <1>2, OneElement
<1>6. i \in S => Cardinality(S) > 0
  BY <1>2, <1>4, <1>5, FS_EmptySet
<1>7. Cardinality(T) = Cardinality(S) - (IF i \in S THEN 1 ELSE 0) + (IF v = status THEN 1 ELSE 0)
  <2>1. CASE v = status
    <3>1. Cardinality(T) = Cardinality(S \cup {i})
      BY <1>3, <2>1
    <3> QED
      BY <1>5, <2>1, <3>1
  <2>2. CASE v # status
    <3>1. Cardinality(T) = Cardinality(S \ {i})
      BY <1>3, <2>2
    <3> QED
      BY <1>5, <2>2, <3>1
  <2> QED
    BY <2>1, <2>2
<1>8. Cardinality(T) = Cardinality(S) - (IF b[i] = status THEN 1 ELSE 0) + (IF v = status THEN 1 ELSE 0)
  BY <1>1, <1>7
<1> QED
  BY <1>1, <1>5, <1>6, <1>8 DEF S, T

\* What recording a change, a closure or a creation does to the gauges.
LEMMA GaugeRecords ==
    ASSUME metrics \in [Gauge -> Nat], NEW status \in Counted
    PROVE  /\ \A old, new :
                 RecordStatusChange(old, new) /\ (old = status => metrics[GaugeOf(status)] > 0) =>
                 metrics'[GaugeOf(status)] =
                     metrics[GaugeOf(status)] - (IF old = status THEN 1 ELSE 0)
                                              + (IF new = status THEN 1 ELSE 0)
           /\ \A m :
                 RecordSessionClosed(m) /\ (m.status = status => metrics[GaugeOf(status)] > 0) =>
                 metrics'[GaugeOf(status)] =
                     metrics[GaugeOf(status)] - (IF m.status = status THEN 1 ELSE 0)
           /\ RecordSessionCreated => metrics'[GaugeOf(status)] = metrics[GaugeOf(status)]
<1> DEFINE g == GaugeOf(status)
<1>1. /\ g \in Gauge \ {"total_sessions_created", "sessions_closed"} /\ metrics[g] \in Nat
      /\ \A other : GaugeOf(other) = g <=> other = status
  BY DEF Counted, GaugeOf, Gauge
<1>2. ASSUME NEW m \in [Gauge -> Nat], NEW other
      PROVE  /\ Leave(m, other)[g] = IF other = status THEN SaturatingSub(m[g]) ELSE m[g]
             /\ Enter(m, other)[g] = IF other = status THEN m[g] + 1 ELSE m[g]
             /\ Leave(m, other) \in [Gauge -> Nat]
  <2>1. Leave(m, other) \in [Gauge -> Nat]
    BY GaugeMoves
  <2>2. /\ Leave(m, other)[g] = IF g = GaugeOf(other) THEN SaturatingSub(m[g]) ELSE m[g]
        /\ Enter(m, other)[g] = IF g = GaugeOf(other) THEN m[g] + 1 ELSE m[g]
    <3> HIDE DEF g
    <3> QED
      BY <1>1 DEF Leave, Enter
  <2> HIDE DEF g
  <2> QED
    BY <1>1, <2>1, <2>2
<1> HIDE DEF g
<1>3. ASSUME NEW old, NEW new, RecordStatusChange(old, new), old = status => metrics[g] > 0
      PROVE  metrics'[g] = metrics[g] - (IF old = status THEN 1 ELSE 0)
                                      + (IF new = status THEN 1 ELSE 0)
  <2> DEFINE left == Leave(metrics, old)
  <2>1. left \in [Gauge -> Nat] /\ left[g] = metrics[g] - (IF old = status THEN 1 ELSE 0)
    BY <1>1, <1>2, <1>3 DEF SaturatingSub
  <2>2. metrics' = Enter(left, new)
    BY <1>3 DEF RecordStatusChange
  <2> HIDE DEF left
  <2>3. metrics'[g] = IF new = status THEN left[g] + 1 ELSE left[g]
    BY <1>2, <2>1, <2>2
  <2> QED
    BY <1>1, <2>1, <2>3
<1>4. ASSUME NEW m, RecordSessionClosed(m), m.status = status => metrics[g] > 0
      PROVE  metrics'[g] = metrics[g] - (IF m.status = status THEN 1 ELSE 0)
  <2> DEFINE left == Leave(metrics, m.status)
  <2>1. left \in [Gauge -> Nat] /\ left[g] = metrics[g] - (IF m.status = status THEN 1 ELSE 0)
    BY <1>1, <1>2, <1>4 DEF SaturatingSub
  <2>2. metrics' = [left EXCEPT !.sessions_closed = @ + 1]
    BY <1>4 DEF RecordSessionClosed
  <2> HIDE DEF left
  <2> QED
    BY <1>1, <2>1, <2>2
<1>5. RecordSessionCreated => metrics'[g] = metrics[g]
  BY <1>1 DEF RecordSessionCreated
<1> QED
  BY <1>3, <1>4, <1>5 DEF g

\* The metadata on its way into the map keeps its status.
LEMMA StaysConnecting ==
    ASSUME TableTypeOK, Connecting, [TableNext]_tableVars
    PROVE  Connecting'
<1>1. ASSUME NEW t \in Task, NEW i \in SessionId, NEW n \in Name, NEW k \in ConnectionKey,
             AdmitSession(t, i, n, k)
      PROVE  Connecting'
  <2>1. [NewMetadata(i, n, k, clock) EXCEPT !.status = "Connecting"].status = "Connecting"
    BY DEF NewMetadata
  <2> QED
    BY <1>1, <2>1 DEF AdmitSession, TableTypeOK, Connecting
<1>2. ASSUME NEW t \in Task, InsertSession(t) PROVE Connecting'
  BY <1>2 DEF InsertSession, TableTypeOK, Connecting
<1>3. UNCHANGED registering => Connecting'
  BY DEF Connecting
<1> QED
  BY <1>1, <1>2, <1>3, OtherTableSteps

\* What the operations of the map do to the statuses.
LEMMA ActualMoves ==
    ASSUME TableTypeOK, Connecting
    PROVE  /\ UNCHANGED sessions => \A j \in SessionId : Actual(j)' = Actual(j)
           /\ \A i : MarkSessionUsed(i) => \A j \in SessionId : Actual(j)' = Actual(j)
           /\ \A i : \A status \in SessionStatus : SetSessionStatus(i, status) =>
                 /\ \A j \in SessionId : j # i => Actual(j)' = Actual(j)
                 /\ i \in Registered' /\ sessions'[i].status = status
           /\ \A i : DropSession(i) =>
                 /\ \A j \in SessionId : j # i => Actual(j)' = Actual(j)
                 /\ i \notin Registered'
           /\ \A t \in Task : InsertSession(t) =>
                 /\ \A j \in SessionId : j # registering[t].id => Actual(j)' = Actual(j)
                 /\ registering[t].id \in Registered'
                 /\ sessions'[registering[t].id].status = "Connecting"
<1>1. ASSUME NEW i \in SessionId, NEW v, sessions' = [sessions EXCEPT ![i] = v]
      PROVE  /\ \A j \in SessionId : j # i => Actual(j)' = Actual(j)
             /\ i \in Registered' <=> v # None
             /\ sessions'[i] = v
  BY <1>1 DEF Actual, Registered, TableTypeOK
<1>2. UNCHANGED sessions => \A j \in SessionId : Actual(j)' = Actual(j)
  BY DEF Actual, Registered
<1>3. ASSUME NEW i, MarkSessionUsed(i) PROVE \A j \in SessionId : Actual(j)' = Actual(j)
  <2>1. i \in SessionId /\ i \in Registered /\ sessions[i] \in SessionMetadata
    BY <1>3 DEF MarkSessionUsed, Registered, TableTypeOK
  <2>2. /\ MarkUsed(sessions[i], clock) # None
        /\ MarkUsed(sessions[i], clock).status = sessions[i].status
    BY <2>1, MetadataOperations, NoneAssumption DEF TableTypeOK, SessionStatus
  <2>3. /\ \A j \in SessionId : j # i => Actual(j)' = Actual(j)
        /\ i \in Registered' /\ sessions'[i] = MarkUsed(sessions[i], clock)
    BY <1>1, <1>3, <2>1, <2>2 DEF MarkSessionUsed
  <2>4. Actual(i)' = Actual(i)
    BY <2>1, <2>2, <2>3 DEF Actual
  <2> QED
    BY <2>3, <2>4
<1>4. ASSUME NEW i, NEW status \in SessionStatus, SetSessionStatus(i, status)
      PROVE  /\ \A j \in SessionId : j # i => Actual(j)' = Actual(j)
             /\ i \in Registered' /\ sessions'[i].status = status
  <2>1. i \in SessionId /\ i \in Registered /\ sessions[i] \in SessionMetadata
    BY <1>4 DEF SetSessionStatus, Registered, TableTypeOK
  <2>2. /\ SetStatus(sessions[i], status, clock) # None
        /\ SetStatus(sessions[i], status, clock).status = status
    BY <2>1, MetadataOperations, NoneAssumption DEF TableTypeOK
  <2> QED
    BY <1>1, <1>4, <2>1, <2>2 DEF SetSessionStatus
<1>5. ASSUME NEW i, DropSession(i)
      PROVE  /\ \A j \in SessionId : j # i => Actual(j)' = Actual(j)
             /\ i \notin Registered'
  BY <1>1, <1>5 DEF DropSession, Registered
<1>6. ASSUME NEW t \in Task, InsertSession(t)
      PROVE  /\ \A j \in SessionId : j # registering[t].id => Actual(j)' = Actual(j)
             /\ registering[t].id \in Registered'
             /\ sessions'[registering[t].id].status = "Connecting"
  <2> DEFINE m == registering[t]
  <2>1. m \in SessionMetadata /\ m # None /\ m.id \in SessionId /\ m.status = "Connecting"
    BY <1>6 DEF InsertSession, TableTypeOK, SessionMetadata, Connecting
  <2>2. /\ \A j \in SessionId : j # m.id => Actual(j)' = Actual(j)
        /\ m.id \in Registered' /\ sessions'[m.id] = m
    BY <1>1, <1>6, <2>1 DEF InsertSession
  <2> QED
    BY <2>1, <2>2
<1> QED
  BY <1>2, <1>3, <1>4, <1>5, <1>6

\* Idle tasks have read nothing.
LEMMA OthersFresh ==
    ASSUME NEW t \in Task, OnlyTask(t)', Fresh(t)'
    PROVE  \A u \in Task : Fresh(u)'
BY DEF OnlyTask, Fresh, Label, Updated, Removed

GaugesStay == \A status \in Counted : metrics'[GaugeOf(status)] = metrics[GaugeOf(status)]

\* A step that neither changes a status nor records a change.
LEMMA SerialQuiet ==
    ASSUME NEW t \in Task, ~disturbed, SerialInv, OnlyTask(t), Alone', OnlyTask(t)', Fresh(t)',
           Label(t) \notin Updated \cup Removed, Label(t)' \notin Updated \cup Removed,
           GaugesStay, \A j \in SessionId : Actual(j)' = Actual(j)
    PROVE  SerialInv'
<1>1. PICK b \in [SessionId -> Standing] : Booked(b)
  BY DEF SerialInv
<1>2. Owed(t) = {} /\ Owed(t)' = {}
  BY DEF Owed
<1>3. \A i \in SessionId : b[i] = Actual(i)'
  BY <1>1, <1>2, SoleDebt
<1>4. \A status \in Counted :
          metrics'[GaugeOf(status)] = Cardinality(Under(b, status))
  BY <1>1 DEF Booked, GaugesStay
<1>5. \E c \in [SessionId -> Standing] : Booked(c)'
  BY <1>2, <1>3, <1>4, NewDebt
<1> QED
  BY <1>5, OthersFresh DEF SerialInv

\* A step that changes the status of a session, or removes it, and has yet to
\* record that.
LEMMA SerialOwes ==
    ASSUME NEW t \in Task, ~disturbed, SerialInv, OnlyTask(t), Alone', OnlyTask(t)', Fresh(t)',
           Label(t) \notin Updated \cup Removed, UNCHANGED metrics,
           NEW i \in SessionId, Owed(t)' = {i}, OldStatus(t)' = Actual(i),
           \A j \in SessionId : j # i => Actual(j)' = Actual(j)
    PROVE  SerialInv'
<1>1. PICK b \in [SessionId -> Standing] : Booked(b)
  BY DEF SerialInv
<1>2. Owed(t) = {}
  BY DEF Owed
<1>3. \A j \in SessionId : b[j] = Actual(j)
  BY <1>1, <1>2, SoleDebt
<1>4. \A status \in Counted :
          metrics'[GaugeOf(status)] = Cardinality(Under(b, status))
  BY <1>1 DEF Booked
<1>5. \A j \in SessionId : /\ j \notin Owed(t)' => b[j] = Actual(j)'
                           /\ j \in Owed(t)' => b[j] = OldStatus(t)'
  BY <1>3
<1>6. \E c \in [SessionId -> Standing] : Booked(c)'
  BY <1>4, <1>5, NewDebt
<1> QED
  BY <1>6, OthersFresh DEF SerialInv

\* A step between the change and its record.
LEMMA SerialStillOwes ==
    ASSUME NEW t \in Task, ~disturbed, SerialInv, OnlyTask(t), Alone', OnlyTask(t)', Fresh(t)',
           Owed(t)' = Owed(t), OldStatus(t)' = OldStatus(t), UNCHANGED <<metrics, sessions>>
    PROVE  SerialInv'
<1>1. PICK b \in [SessionId -> Standing] : Booked(b)
  BY DEF SerialInv
<1>2. \A j \in SessionId : Actual(j)' = Actual(j)
  BY DEF Actual, Registered
<1>3. \A j \in SessionId : /\ j \notin Owed(t)' => b[j] = Actual(j)'
                           /\ j \in Owed(t)' => b[j] = OldStatus(t)'
  BY <1>1, <1>2, SoleDebt
<1>4. \A status \in Counted :
          metrics'[GaugeOf(status)] = Cardinality(Under(b, status))
  BY <1>1 DEF Booked
<1>5. \E c \in [SessionId -> Standing] : Booked(c)'
  BY <1>3, <1>4, NewDebt
<1> QED
  BY <1>5, OthersFresh DEF SerialInv

\* One session leaves the gauge of a status that counts it and enters another.
GaugesMove(old, new) ==
    \A status \in Counted :
        (old = status => metrics[GaugeOf(status)] > 0) =>
        metrics'[GaugeOf(status)] = metrics[GaugeOf(status)] - (IF old = status THEN 1 ELSE 0)
                                                           + (IF new = status THEN 1 ELSE 0)

\* A step after which one session is booked under its own status again, or under
\* none when it is gone.
LEMMA SerialSettles ==
    ASSUME NEW t \in Task, ~disturbed, SerialInv, OnlyTask(t), Alone', OnlyTask(t)', Fresh(t)',
           Label(t)' \notin Updated \cup Removed, NEW i \in SessionId, Owed(t) \subseteq {i},
           NEW old, i \in Owed(t) => old = OldStatus(t), i \notin Owed(t) => old = Actual(i),
           NEW new \in Standing, Actual(i)' = new,
           \A j \in SessionId : j # i => Actual(j)' = Actual(j),
           GaugesMove(old, new)
    PROVE  SerialInv'
<1>1. PICK b \in [SessionId -> Standing] : Booked(b)
  BY DEF SerialInv
<1>2. b[i] = old /\ \A j \in SessionId : j # i => b[j] = Actual(j)'
  BY <1>1, SoleDebt
<1> DEFINE c == Rebook(b, i, new)
<1>3. /\ c \in [SessionId -> Standing]
      /\ c[i] = new /\ \A j \in SessionId : j # i => c[j] = b[j]
  BY DEF Rebook
<1>4. ASSUME NEW status \in Counted
      PROVE  metrics'[GaugeOf(status)] = Cardinality(Under(c, status))
  <2>1. metrics[GaugeOf(status)] = Cardinality(Under(b, status))
    BY <1>1 DEF Booked
  <2>2. /\ b[i] = status => Cardinality(Under(b, status)) > 0
        /\ Cardinality(Under(c, status)) =
              Cardinality(Under(b, status))
              - (IF b[i] = status THEN 1 ELSE 0) + (IF new = status THEN 1 ELSE 0)
    BY Rebooked
  <2> QED
    BY <1>2, <2>1, <2>2 DEF GaugesMove
<1>5. /\ c \in [SessionId -> Standing] /\ Owed(t)' = {}
      /\ \A j \in SessionId : c[j] = Actual(j)'
  BY <1>2, <1>3 DEF Owed
<1> HIDE DEF c
<1>6. \E d \in [SessionId -> Standing] : Booked(d)'
  BY <1>4, <1>5, NewDebt
<1> QED
  BY <1>6, OthersFresh DEF SerialInv

\* Undisturbed, a task in a method is the only one, at the label it is at.
LEMMA SoleTask ==
    ASSUME SerialInv, ~disturbed, NEW t \in Task, NEW label, At(t, label)
    PROVE  OnlyTask(t) /\ stack[t] # <<>> /\ Label(t) = label /\ Fresh(t)
BY DEF SerialInv, Alone, OnlyTask, At, Label

\* update_session_status, undisturbed.
LEMMA SerialUpdateStatus ==
    ASSUME ManagerTypeOK, Connecting, SerialInv, ~disturbed, NEW t \in Task,
           UpdateSessionStatus(t)
    PROVE  SerialInv'
<1> USE DEF ManagerTypeOK
<1> DEFINE f == Top(t)
<1>1. CASE StatusGet(t)
  <2> DEFINE g == [at |-> "status_update", id |-> f.id, status |-> f.status,
                   old |-> sessions[f.id].status]
  <2>1. At(t, "status_get") /\ UNCHANGED <<sessions, metrics>>
    BY <1>1 DEF StatusGet, tableState
  <2>2. OnlyTask(t) /\ stack[t] # <<>> /\ Label(t) \notin Updated \cup Removed
    BY <2>1, SoleTask DEF Updated, Removed
  <2>3. \A j \in SessionId : Actual(j)' = Actual(j)
    BY <2>1, ActualMoves
  <2>4. CASE f.id \in Registered /\ Goto(t, g)
    <3>1. Alone' /\ OnlyTask(t)' /\ Label(t)' = "status_update" /\ Top(t)' = g
      BY <2>2, <2>4, SoleGoto
    <3>2. Registered' = Registered /\ sessions' = sessions
      BY <2>1 DEF Registered
    <3>3. Fresh(t)'
      BY <2>4, <3>1, <3>2 DEF Fresh, Updated, Removed
    <3> QED
      BY <2>1, <2>2, <2>3, <3>1, <3>3, SerialQuiet DEF GaugesStay, Updated, Removed
  <2>5. CASE Return(t, FALSE, f.id)
    <3>1. Alone' /\ OnlyTask(t)' /\ Label(t)' \in {"idle", "close_pool_remove"}
      BY <2>2, <2>5, SoleReturn
    <3>2. Fresh(t)'
      BY <3>1 DEF Fresh, Updated, Removed
    <3> QED
      BY <2>1, <2>2, <2>3, <3>1, <3>2, SerialQuiet DEF GaugesStay, Updated, Removed
  <2> QED
    BY <1>1, <2>4, <2>5 DEF StatusGet
<1>2. CASE StatusUpdate(t)
  <2>1. At(t, "status_update") /\ UNCHANGED metrics
    BY <1>2 DEF StatusUpdate
  <2>2. OnlyTask(t) /\ stack[t] # <<>> /\ Label(t) = "status_update" /\ Fresh(t)
    BY <2>1, SoleTask
  <2>3. f \in StatusFrame
    BY <2>1, TopFrame, FrameLocals
  <2>4. ASSUME NEW next \in {"status_pool_get", "status_pool_remove", "status_record"},
               SetSessionStatus(f.id, f.status), Goto(t, [f EXCEPT !.at = next])
        PROVE  SerialInv'
    <3> DEFINE g == [f EXCEPT !.at = next]
    <3>1. /\ g.at = next /\ g.id = f.id /\ g.status = f.status /\ g.old = f.old
          /\ f.id \in SessionId /\ f.status \in SessionStatus
      BY <2>3 DEF StatusFrame
    <3>2. Alone' /\ OnlyTask(t)' /\ Label(t)' = next /\ Top(t)' = g
      BY <2>2, <2>4, <3>1, SoleGoto
    <3> HIDE DEF g
    <3>3. PICK i \in SessionId : i = f.id
      BY <3>1
    <3>4. /\ \A j \in SessionId : j # i => Actual(j)' = Actual(j)
          /\ i \in Registered' /\ sessions'[i].status = f.status
      BY <2>4, <3>1, <3>3, ActualMoves
    <3>5. Fresh(t)' /\ Owed(t)' = {i} /\ OldStatus(t)' = f.old
      BY <3>1, <3>2, <3>3, <3>4 DEF Fresh, Owed, OldStatus, Updated, Removed
    <3>6. Actual(i) = f.old
      BY <2>2, <3>3 DEF Fresh, Actual
    <3> QED
      BY <2>1, <2>2, <3>2, <3>4, <3>5, <3>6, SerialOwes DEF Updated, Removed
  <2>5. CASE UNCHANGED sessions /\ Return(t, FALSE, f.id)
    <3>1. Alone' /\ OnlyTask(t)' /\ Label(t)' \in {"idle", "close_pool_remove"}
      BY <2>2, <2>5, SoleReturn
    <3>2. Fresh(t)'
      BY <3>1 DEF Fresh, Updated, Removed
    <3>3. \A j \in SessionId : Actual(j)' = Actual(j)
      BY <2>5, ActualMoves
    <3> QED
      BY <2>1, <2>2, <3>1, <3>2, <3>3, SerialQuiet DEF GaugesStay, Updated, Removed
  <2> QED
    BY <1>2, <2>4, <2>5, StatusUpdateForm
<1>3. ASSUME NEW label \in Updated, NEW g, NEW next \in Updated, At(t, label), Goto(t, g),
             g.at = next, g.id = f.id, g.status = f.status, g.old = f.old,
             UNCHANGED <<metrics, sessions>>
      PROVE  SerialInv'
  <2>1. OnlyTask(t) /\ stack[t] # <<>> /\ Label(t) = label /\ Fresh(t)
    BY <1>3, SoleTask
  <2>2. Alone' /\ OnlyTask(t)' /\ Label(t)' = next /\ Top(t)' = g
    BY <1>3, <2>1, SoleGoto
  <2>3. Registered' = Registered /\ sessions' = sessions
    BY <1>3 DEF Registered
  <2>4. Fresh(t)' /\ Owed(t)' = Owed(t) /\ OldStatus(t)' = OldStatus(t)
    BY <1>3, <2>1, <2>2, <2>3 DEF Fresh, Owed, OldStatus, Updated, Removed
  <2> QED
    BY <1>3, <2>1, <2>2, <2>4, SerialStillOwes
<1>4. ASSUME f \in StatusFrame
      PROVE  \A next : LET g == [f EXCEPT !.at = next]
                       IN  g.at = next /\ g.id = f.id /\ g.status = f.status /\ g.old = f.old
  BY <1>4 DEF StatusFrame
<1>5. CASE StatusPoolGet(t)
  <2>1. At(t, "status_pool_get") /\ UNCHANGED <<metrics, sessions>> /\ f \in StatusFrame
    BY <1>5, TopFrame, FrameLocals DEF StatusPoolGet, tableState
  <2>2. CASE f.id \in Registered
    <3> DEFINE g == [at |-> "status_pool_check", id |-> f.id, status |-> f.status,
                     old |-> f.old, copy |-> sessions[f.id]]
    <3>1. g.at = "status_pool_check" /\ g.id = f.id /\ g.status = f.status /\ g.old = f.old
      OBVIOUS
    <3>2. Goto(t, g)
      BY <1>5, <2>2 DEF StatusPoolGet
    <3> HIDE DEF g
    <3> QED
      BY <1>3, <2>1, <3>1, <3>2 DEF Updated
  <2>3. CASE f.id \notin Registered
    BY <1>3, <1>4, <1>5, <2>1, <2>3 DEF StatusPoolGet, Updated
  <2> QED
    BY <2>2, <2>3
<1>6. CASE StatusPoolCheck(t)
  <2> DEFINE done == [at |-> "status_record", id |-> f.id, status |-> f.status, old |-> f.old]
             next == [done EXCEPT !.at = "status_pool_insert"]
  <2>1. At(t, "status_pool_check") /\ UNCHANGED <<metrics, sessions>>
    BY <1>6 DEF StatusPoolCheck, tableState
  <2>2. /\ done.at = "status_record" /\ done.id = f.id /\ done.status = f.status
        /\ done.old = f.old /\ next.at = "status_pool_insert" /\ next.id = f.id
        /\ next.status = f.status /\ next.old = f.old
    OBVIOUS
  <2>3. Goto(t, done) \/ Goto(t, next)
    BY <1>6 DEF StatusPoolCheck
  <2> HIDE DEF done, next
  <2> QED
    BY <1>3, <2>1, <2>2, <2>3 DEF Updated
<1>7. CASE StatusPoolInsert(t) \/ StatusPoolRemove(t)
  <2>1. /\ At(t, "status_pool_insert") \/ At(t, "status_pool_remove")
        /\ UNCHANGED <<metrics, sessions>> /\ Goto(t, [f EXCEPT !.at = "status_record"])
    BY <1>7 DEF StatusPoolInsert, StatusPoolRemove, tableState
  <2>2. f \in StatusFrame
    BY <2>1, TopFrame, FrameLocals
  <2> QED
    BY <1>3, <1>4, <2>1, <2>2 DEF Updated
<1>8. CASE StatusRecord(t)
  <2>1. /\ At(t, "status_record") /\ RecordStatusChange(f.old, f.status)
        /\ Return(t, TRUE, f.id) /\ UNCHANGED sessions
    BY <1>8 DEF StatusRecord, tableState
  <2>2. OnlyTask(t) /\ stack[t] # <<>> /\ Label(t) = "status_record" /\ Fresh(t)
    BY <2>1, SoleTask
  <2>3. f \in StatusFrame
    BY <2>1, TopFrame, FrameLocals
  <2>4. PICK i \in SessionId, old \in SessionStatus, new \in SessionStatus :
           i = f.id /\ old = f.old /\ new = f.status
    BY <2>3 DEF StatusFrame
  <2>5. Alone' /\ OnlyTask(t)' /\ Label(t)' \in {"idle", "close_pool_remove"}
    BY <2>1, <2>2, SoleReturn
  <2>6. Fresh(t)'
    BY <2>5 DEF Fresh, Updated, Removed
  <2>7. Owed(t) = {i} /\ OldStatus(t) = old
    BY <2>2, <2>4 DEF Owed, OldStatus, Updated
  <2>8. Actual(i)' = new /\ \A j \in SessionId : Actual(j)' = Actual(j)
    BY <2>1, <2>2, <2>4 DEF Fresh, Updated, Actual, Registered
  <2>9. GaugesMove(old, new)
    BY <2>1, <2>4, GaugeRecords DEF GaugesMove
  <2>10. /\ Label(t)' \notin Updated \cup Removed /\ Owed(t) \subseteq {i}
         /\ i \in Owed(t) => old = OldStatus(t)
         /\ i \notin Owed(t) => old = Actual(i)
         /\ new \in Standing /\ Actual(i)' = new
         /\ \A j \in SessionId : j # i => Actual(j)' = Actual(j)
    BY <2>5, <2>7, <2>8 DEF Updated, Removed, Standing
  <2> HIDE DEF f
  <2> QED
    BY <2>2, <2>5, <2>6, <2>9, <2>10, SerialSettles
<1> QED
  BY <1>1, <1>2, <1>5, <1>6, <1>7, <1>8 DEF UpdateSessionStatus

\* A quiet step from one label to another.
LEMMA QuietGoto ==
    ASSUME ManagerTypeOK, SerialInv, ~disturbed, NEW t \in Task, NEW label, At(t, label),
           NEW f, Goto(t, f), label \notin Updated \cup Removed,
           f.at \notin Updated \cup Removed \cup {"status_update", "update_metadata"},
           GaugesStay, \A j \in SessionId : Actual(j)' = Actual(j)
    PROVE  SerialInv'
<1>1. OnlyTask(t) /\ stack[t] # <<>> /\ Label(t) = label
  BY SoleTask
<1>2. Alone' /\ OnlyTask(t)' /\ Label(t)' = f.at
  BY <1>1, SoleGoto DEF ManagerTypeOK
<1>3. Fresh(t)'
  BY <1>2 DEF Fresh
<1>4. Label(t) \notin Updated \cup Removed /\ Label(t)' \notin Updated \cup Removed
  BY <1>1, <1>2
<1> QED
  BY <1>1, <1>2, <1>3, <1>4, SerialQuiet

\* A quiet step at which a method returns.
LEMMA QuietReturn ==
    ASSUME ManagerTypeOK, SerialInv, ~disturbed, NEW t \in Task, NEW label, At(t, label),
           NEW ok, NEW i, Return(t, ok, i), label \notin Updated \cup Removed,
           GaugesStay, \A j \in SessionId : Actual(j)' = Actual(j)
    PROVE  SerialInv'
<1>1. OnlyTask(t) /\ stack[t] # <<>> /\ Label(t) = label
  BY SoleTask
<1>2. Alone' /\ OnlyTask(t)' /\ Label(t)' \in {"idle", "close_pool_remove"}
  BY <1>1, SoleReturn DEF ManagerTypeOK
<1>3. Fresh(t)'
  BY <1>2 DEF Fresh, Updated, Removed
<1>4. Label(t) \notin Updated \cup Removed /\ Label(t)' \notin Updated \cup Removed
  BY <1>1, <1>2 DEF Updated, Removed
<1> QED
  BY <1>1, <1>2, <1>3, <1>4, SerialQuiet

\* A step that removes a session and has yet to record that.
LEMMA SerialRemoves ==
    ASSUME ManagerTypeOK, FiledUnderId, Connecting, SerialInv, ~disturbed, NEW t \in Task,
           NEW label, At(t, label), label \notin Updated \cup Removed,
           NEW f, Goto(t, f), f.at \in Removed, NEW i \in SessionId, DropSession(i),
           f.removed = sessions[i], UNCHANGED metrics
    PROVE  SerialInv'
<1>1. OnlyTask(t) /\ stack[t] # <<>> /\ Label(t) = label
  BY SoleTask
<1>2. Alone' /\ OnlyTask(t)' /\ Label(t)' = f.at /\ Top(t)' = f
  BY <1>1, SoleGoto DEF ManagerTypeOK
<1>3. (\A j \in SessionId : j # i => Actual(j)' = Actual(j)) /\ i \notin Registered'
  BY ActualMoves DEF ManagerTypeOK
<1>4. f.removed.id = i /\ f.removed.status = Actual(i)
  BY DEF FiledUnderId, DropSession, Actual
<1>5. Fresh(t)'
  BY <1>2, <1>3, <1>4 DEF Fresh, Updated, Removed
<1>6. Owed(t)' = {i} /\ OldStatus(t)' = Actual(i)
  BY <1>2, <1>4 DEF Owed, OldStatus, Updated, Removed
<1>7. Label(t) \notin Updated \cup Removed
  BY <1>1
<1> QED
  BY <1>1, <1>2, <1>3, <1>5, <1>6, <1>7, SerialOwes

\* A step that records a removal.
LEMMA SerialRecords ==
    ASSUME ManagerTypeOK, SerialInv, ~disturbed, NEW t \in Task,
           NEW label \in Removed, At(t, label), Top(t).removed \in SessionMetadata,
           RecordSessionClosed(Top(t).removed), UNCHANGED sessions,
           Alone', OnlyTask(t)',
           Label(t)' \notin Updated \cup Removed \cup {"status_update", "update_metadata"}
    PROVE  SerialInv'
<1>1. OnlyTask(t) /\ stack[t] # <<>> /\ Label(t) = label /\ Fresh(t)
  BY SoleTask
<1>2. PICK i \in SessionId, old \in SessionStatus :
         i = Top(t).removed.id /\ old = Top(t).removed.status
  BY DEF SessionMetadata
<1>3. Fresh(t)'
  BY DEF Fresh
<1>4. Owed(t) = {i} /\ OldStatus(t) = old /\ i \notin Registered
  BY <1>1, <1>2 DEF Owed, OldStatus, Fresh, Updated, Removed
<1>5. Actual(i)' = "Absent" /\ \A j \in SessionId : Actual(j)' = Actual(j)
  BY <1>4 DEF Actual, Registered
<1>6. GaugesMove(old, "Absent")
  <2> SUFFICES ASSUME NEW status \in Counted, old = status => metrics[GaugeOf(status)] > 0
               PROVE  metrics'[GaugeOf(status)] =
                         metrics[GaugeOf(status)] - (IF old = status THEN 1 ELSE 0)
                                                  + (IF "Absent" = status THEN 1 ELSE 0)
    BY DEF GaugesMove
  <2>1. "Absent" # status
    BY DEF Counted
  <2>2. metrics'[GaugeOf(status)] =
            metrics[GaugeOf(status)] - (IF old = status THEN 1 ELSE 0)
    BY <1>2, GaugeRecords DEF ManagerTypeOK
  <2>3. metrics[GaugeOf(status)] \in Nat
    BY DEF ManagerTypeOK, Counted, GaugeOf, Gauge
  <2> QED
    BY <2>1, <2>2, <2>3
<1>7. /\ Label(t)' \notin Updated \cup Removed /\ Owed(t) \subseteq {i}
      /\ i \in Owed(t) => old = OldStatus(t)
      /\ i \notin Owed(t) => old = Actual(i)
      /\ "Absent" \in Standing
      /\ \A j \in SessionId : j # i => Actual(j)' = Actual(j)
  BY <1>4, <1>5 DEF Standing
<1> QED
  BY <1>1, <1>3, <1>5, <1>6, <1>7, SerialSettles

\* The other methods, undisturbed.
LEMMA SerialMethods ==
    ASSUME ManagerTypeOK, IdsDistinct, FiledUnderId, Connecting, SerialInv, ~disturbed,
           NEW t \in Task,
           UseSession(t) \/ CloseSession(t) \/ CreateSession(t) \/ ConnectOrCreate(t)
           \/ UpdateMetadata(t)
    PROVE  SerialInv'
<1> USE DEF ManagerTypeOK
<1> DEFINE f == Top(t)
           Still == \A j \in SessionId : Actual(j)' = Actual(j)
           Returns == \E ok, i : Return(t, ok, i)
<1>1. /\ UNCHANGED metrics => GaugesStay
      /\ UNCHANGED sessions => Still
      /\ \A i : MarkSessionUsed(i) => Still
  BY ActualMoves DEF GaugesStay
<1> HIDE DEF Still, Returns
<1>2. ASSUME NEW label, At(t, label), NEW g, Goto(t, g), label \notin Updated \cup Removed,
             g.at \notin Updated \cup Removed \cup {"status_update", "update_metadata"},
             UNCHANGED metrics, Still
      PROVE  SerialInv'
  BY <1>1, <1>2, QuietGoto DEF Still
<1>3. ASSUME NEW label, At(t, label), Returns, label \notin Updated \cup Removed,
             GaugesStay, Still
      PROVE  SerialInv'
  <2>1. PICK ok, i : Return(t, ok, i)
    BY <1>3 DEF Returns
  <2> QED
    BY <1>3, <2>1, QuietReturn DEF Still
<1>4. ASSUME NEW label \in {"use_mark", "use_get", "close", "close_pool_remove",
                             "close_unregister", "create_insert", "create_record"},
             At(t, label)
      PROVE  f \in IdFrame /\ f.id \in SessionId /\ f \notin UpdateStatusFrames
  <2>1. f \in Frame /\ f.at = label
    BY <1>4, TopFrame
  <2>2. f \in IdFrame
    BY <2>1, FrameLocals
  <2> QED
    BY <2>1, <2>2, StatusLabels DEF IdFrame
<1>5. CASE UseMark(t)
  <2>1. At(t, "use_mark") /\ UNCHANGED metrics /\ Still
    BY <1>1, <1>5 DEF UseMark, tableState
  <2>2. Goto(t, [at |-> "use_get", id |-> f.id]) \/ Returns
    BY <1>5, Zenon DEF UseMark, Returns
  <2> QED
    BY <1>1, <1>2, <1>3, <2>1, <2>2 DEF Updated, Removed
<1>6. CASE UseGet(t)
  <2>1. At(t, "use_get") /\ UNCHANGED metrics /\ Still
    BY <1>1, <1>6 DEF UseGet, tableState
  <2>2. Goto(t, UpdateStatusFrame(f.id, "Active")) \/ Returns
    BY <1>6, Zenon DEF UseGet, Returns
  <2>3. UpdateStatusFrame(f.id, "Active").at = "status_get"
    BY DEF UpdateStatusFrame
  <2> QED
    BY <1>1, <1>2, <1>3, <2>1, <2>2, <2>3 DEF Updated, Removed
<1>7. CASE CloseStart(t)
  <2> DEFINE g == UpdateStatusFrame(f.id, "Closing")
             h == [at |-> "close_pool_remove", id |-> f.id]
  <2>1. At(t, "close") /\ UNCHANGED metrics /\ Still /\ CallThen(t, g, h)
    BY <1>1, <1>7 DEF CloseStart, tableState
  <2>2. g.at = "status_get"
    BY DEF UpdateStatusFrame
  <2>3. OnlyTask(t) /\ stack[t] # <<>> /\ Label(t) = "close"
    BY <2>1, SoleTask
  <2>4. f \notin UpdateStatusFrames
    BY <1>4, <2>1
  <2> HIDE DEF g, h
  <2>5. Alone' /\ OnlyTask(t)' /\ Label(t)' = "status_get"
    BY <2>1, <2>2, <2>3, <2>4, SoleCallThen
  <2>6. Fresh(t)' /\ Label(t) \notin Updated \cup Removed /\ Label(t)' \notin Updated \cup Removed
    BY <2>3, <2>5 DEF Fresh, Updated, Removed
  <2> QED
    BY <1>1, <2>1, <2>3, <2>5, <2>6, SerialQuiet DEF Still
<1>8. CASE ClosePoolRemove(t)
  <2>1. At(t, "close_pool_remove") /\ UNCHANGED metrics /\ Still
    BY <1>1, <1>8 DEF ClosePoolRemove, tableState
  <2>2. Goto(t, [at |-> "close_unregister", id |-> f.id]) \/ Returns
    BY <1>8, Zenon DEF ClosePoolRemove, Returns
  <2> QED
    BY <1>1, <1>2, <1>3, <2>1, <2>2 DEF Updated, Removed
<1>9. CASE CloseUnregister(t)
  <2>1. At(t, "close_unregister") /\ UNCHANGED metrics
    BY <1>9 DEF CloseUnregister
  <2>2. PICK i \in SessionId : i = f.id
    BY <1>4, <2>1
  <2>3. CASE UNCHANGED sessions /\ Returns
    BY <1>1, <1>3, <2>1, <2>3 DEF Updated, Removed
  <2>4. CASE DropSession(i) /\ Goto(t, [at |-> "close_record", removed |-> sessions[i]])
    <3> DEFINE g == [at |-> "close_record", removed |-> sessions[i]]
    <3>1. g.at \in Removed /\ g.removed = sessions[i] /\ "close_unregister" \notin Updated \cup Removed
      BY DEF Updated, Removed
    <3>2. Goto(t, g) /\ DropSession(i)
      BY <2>4
    <3> HIDE DEF g
    <3> QED
      BY <2>1, <3>1, <3>2, SerialRemoves
  <2> QED
    <3>1. \/ DropSession(i) /\ Goto(t, [at |-> "close_record", removed |-> sessions[i]])
          \/ UNCHANGED sessions /\ Returns
      BY <1>9, <2>2, Zenon DEF CloseUnregister, tableState, Returns
    <3> QED
      BY <2>3, <2>4, <3>1
<1>10. CASE CloseRecord(t)
  <2>1. /\ At(t, "close_record") /\ RecordSessionClosed(f.removed) /\ UNCHANGED sessions
        /\ Return(t, TRUE, f.removed.id)
    BY <1>10 DEF CloseRecord, tableState
  <2>2. f.removed \in SessionMetadata
    BY <2>1, TopFrame, FrameLocals DEF CloseRecordFrame
  <2>3. OnlyTask(t) /\ stack[t] # <<>>
    BY <2>1, SoleTask
  <2>4. Alone' /\ OnlyTask(t)' /\ Label(t)' \in {"idle", "close_pool_remove"}
    BY <2>1, <2>3, SoleReturn
  <2> QED
    BY <2>1, <2>2, <2>4, SerialRecords DEF Updated, Removed
<1>11. CASE CreateCheck(t)
  <2>1. At(t, "create_check") /\ UNCHANGED metrics /\ Still
    BY <1>1, <1>11 DEF CreateCheck, tableState, AdmitSession
  <2>2. (\E i \in SessionId : Goto(t, [at |-> "create_insert", id |-> i])) \/ Returns
    BY <1>11, Zenon DEF CreateCheck, Returns
  <2>3. CASE Returns
    BY <1>1, <1>3, <2>1, <2>3 DEF Updated, Removed
  <2>4. ASSUME NEW i, Goto(t, [at |-> "create_insert", id |-> i]) PROVE SerialInv'
    BY <1>2, <2>1, <2>4 DEF Updated, Removed
  <2> QED
    BY <2>2, <2>3, <2>4
<1>12. CASE CreateInsert(t)
  <2> DEFINE g == [f EXCEPT !.at = "create_record"]
  <2>1. At(t, "create_insert") /\ UNCHANGED metrics /\ InsertSession(t) /\ Goto(t, g)
    BY <1>12 DEF CreateInsert
  <2>2. g.at = "create_record"
    BY <1>4, <2>1 DEF IdFrame
  <2>3. OnlyTask(t) /\ stack[t] # <<>> /\ Label(t) = "create_insert"
    BY <2>1, SoleTask
  <2> HIDE DEF g
  <2>4. Alone' /\ OnlyTask(t)' /\ Label(t)' = "create_record"
    BY <2>1, <2>2, <2>3, SoleGoto
  <2>5. PICK i \in SessionId : i = registering[t].id
    BY <2>1 DEF InsertSession, TableTypeOK, SessionMetadata
  <2>6. /\ Fresh(t)' /\ Owed(t) = {} /\ Label(t)' \notin Updated \cup Removed
    BY <2>3, <2>4 DEF Fresh, Updated, Removed, Owed
  <2>7. Actual(i) = "Absent"
    BY <2>1, <2>5 DEF InsertSession, IdsDistinct, Actual
  <2>8. Actual(i)' = "Connecting" /\ \A j \in SessionId : j # i => Actual(j)' = Actual(j)
    BY <2>1, <2>5, ActualMoves DEF Actual
  <2>9. GaugesMove("Absent", "Connecting")
    BY <2>1 DEF GaugesMove, Counted, GaugeOf, Gauge
  <2>10. /\ Owed(t) \subseteq {i} /\ i \notin Owed(t) /\ "Connecting" \in Standing
         /\ i \in Owed(t) => "Absent" = OldStatus(t)
         /\ i \notin Owed(t) => "Absent" = Actual(i)
    BY <2>6, <2>7 DEF Standing, SessionStatus
  <2> QED
    BY <2>3, <2>4, <2>6, <2>8, <2>9, <2>10, SerialSettles
<1>13. CASE CreateRecord(t)
  <2>1. At(t, "create_record") /\ RecordSessionCreated /\ Still /\ Returns
    BY <1>1, <1>13 DEF CreateRecord, tableState, Returns
  <2>2. GaugesStay
    BY <2>1, GaugeRecords DEF GaugesStay
  <2> QED
    BY <1>3, <2>1, <2>2 DEF Updated, Removed
<1>14. CASE ConnectOrCreate(t)
  <2>1. At(t, "connect_or_create") /\ UNCHANGED metrics /\ Still
    BY <1>1, <1>14 DEF ConnectOrCreate, tableState
  <2>2. (\E i : Goto(t, UseFrame(i))) \/ Goto(t, CreateFrame(f.name, f.key))
    BY <1>14 DEF ConnectOrCreate
  <2>3. (\A i : UseFrame(i).at = "use_mark") /\ CreateFrame(f.name, f.key).at = "create_check"
    BY DEF UseFrame, CreateFrame
  <2> QED
    BY <1>2, <2>1, <2>2, <2>3 DEF Updated, Removed
<1>15. CASE UpdateMetadata(t)
  <2>1. Label(t) = "update_metadata" /\ Fresh(t)
    BY <1>15, SoleTask DEF UpdateMetadata
  <2> QED
    BY <2>1 DEF Fresh
<1> QED
  BY <1>5, <1>6, <1>7, <1>8, <1>9, <1>10, <1>11, <1>12, <1>13, <1>14, <1>15
  DEF UseSession, CloseSession, CreateSession

\* The cleanup task, undisturbed.
LEMMA SerialCleanup ==
    ASSUME ManagerTypeOK, FiledUnderId, Connecting, SerialInv, ~disturbed, NEW t \in Task,
           Cleanup(t), ~CleanupStart(t)
    PROVE  SerialInv'
<1> USE DEF ManagerTypeOK
<1> DEFINE f == Top(t)
<1>1. CASE CleanupExpire(t)
  <2>1. At(t, "cleanup") /\ UNCHANGED metrics
    BY <1>1 DEF CleanupExpire
  <2>2. f \in CleanupFrame
    BY <2>1, TopFrame, FrameLocals
  <2>3. ASSUME NEW m \in f.snapshot, UNCHANGED sessions,
               Goto(t, [f EXCEPT !.snapshot = f.snapshot \ {m}])
        PROVE  SerialInv'
    <3>1. [f EXCEPT !.snapshot = f.snapshot \ {m}].at = "cleanup"
      BY <2>2 DEF CleanupFrame
    <3>2. GaugesStay /\ \A j \in SessionId : Actual(j)' = Actual(j)
      BY <2>1, <2>3, ActualMoves DEF GaugesStay
    <3> QED
      BY <2>1, <2>3, <3>1, <3>2, QuietGoto DEF Updated, Removed
  <2>4. ASSUME NEW m \in f.snapshot, DropSession(m.id),
               Goto(t, [at |-> "cleanup_pool_remove", snapshot |-> f.snapshot \ {m},
                        removed |-> sessions[m.id]])
        PROVE  SerialInv'
    <3> DEFINE g == [at |-> "cleanup_pool_remove", snapshot |-> f.snapshot \ {m},
                     removed |-> sessions[m.id]]
    <3>1. PICK i \in SessionId : i = m.id
      BY <2>4 DEF DropSession, Registered
    <3>2. g.at \in Removed /\ g.removed = sessions[i] /\ "cleanup" \notin Updated \cup Removed
      BY <3>1 DEF Updated, Removed
    <3>3. Goto(t, g) /\ DropSession(i)
      BY <2>4, <3>1
    <3> HIDE DEF g
    <3> QED
      BY <2>1, <3>2, <3>3, SerialRemoves
  <2> QED
    BY <1>1, <2>3, <2>4 DEF CleanupExpire, tableState
<1>2. CASE CleanupPoolRemove(t)
  <2> DEFINE g == [f EXCEPT !.at = "cleanup_record"]
  <2>1. At(t, "cleanup_pool_remove") /\ UNCHANGED <<metrics, sessions>> /\ Goto(t, g)
    BY <1>2 DEF CleanupPoolRemove, tableState
  <2>2. f \in ExpireFrame
    BY <2>1, TopFrame, FrameLocals
  <2>3. g.at = "cleanup_record" /\ g.removed = f.removed
    BY <2>2 DEF ExpireFrame
  <2>4. OnlyTask(t) /\ stack[t] # <<>> /\ Label(t) = "cleanup_pool_remove" /\ Fresh(t)
    BY <2>1, SoleTask
  <2> HIDE DEF g
  <2>5. Alone' /\ OnlyTask(t)' /\ Label(t)' = "cleanup_record" /\ Top(t)' = g
    BY <2>1, <2>3, <2>4, SoleGoto
  <2>6. Registered' = Registered /\ sessions' = sessions
    BY <2>1 DEF Registered
  <2>7. Fresh(t)' /\ Owed(t)' = Owed(t) /\ OldStatus(t)' = OldStatus(t)
    BY <2>3, <2>4, <2>5, <2>6 DEF Fresh, Owed, OldStatus, Updated, Removed
  <2> QED
    BY <2>1, <2>4, <2>5, <2>7, SerialStillOwes
<1>3. CASE CleanupRecord(t)
  <2> DEFINE g == [at |-> "cleanup", snapshot |-> f.snapshot]
  <2>1. /\ At(t, "cleanup_record") /\ RecordSessionClosed(f.removed) /\ UNCHANGED sessions
        /\ Goto(t, g) /\ g.at = "cleanup"
    BY <1>3 DEF CleanupRecord, tableState
  <2>2. f.removed \in SessionMetadata
    BY <2>1, TopFrame, FrameLocals DEF ExpireFrame
  <2>3. OnlyTask(t) /\ stack[t] # <<>>
    BY <2>1, SoleTask
  <2> HIDE DEF g
  <2>4. Alone' /\ OnlyTask(t)' /\ Label(t)' = "cleanup"
    BY <2>1, <2>3, SoleGoto
  <2> QED
    BY <2>1, <2>2, <2>4, SerialRecords DEF Updated, Removed
<1>4. CASE CleanupSweep(t)
  <2>1. At(t, "cleanup") /\ UNCHANGED <<metrics, sessions>> /\ Goto(t, [at |-> "cleanup_sweep"])
    BY <1>4 DEF CleanupSweep, tableState
  <2>2. GaugesStay /\ \A j \in SessionId : Actual(j)' = Actual(j)
    BY <2>1, ActualMoves DEF GaugesStay
  <2> QED
    BY <2>1, <2>2, QuietGoto DEF Updated, Removed
<1>5. CASE CleanupSweepStep(t)
  <2>1. At(t, "cleanup_sweep") /\ UNCHANGED <<metrics, sessions>>
    BY <1>5 DEF CleanupSweepStep, tableState
  <2>2. GaugesStay /\ \A j \in SessionId : Actual(j)' = Actual(j)
    BY <2>1, ActualMoves DEF GaugesStay
  <2>3. CASE UNCHANGED stack
    <3>1. OnlyTask(t) /\ stack[t] # <<>> /\ Label(t) = "cleanup_sweep"
      BY <2>1, SoleTask
    <3>2. Alone' /\ OnlyTask(t)' /\ Label(t)' = "cleanup_sweep"
      BY <2>3, <3>1 DEF Alone, OnlyTask, Label, Top
    <3>3. Fresh(t)' /\ Label(t) \notin Updated \cup Removed /\ Label(t)' \notin Updated \cup Removed
      BY <3>1, <3>2 DEF Fresh, Updated, Removed
    <3> QED
      BY <2>2, <3>1, <3>2, <3>3, SerialQuiet
  <2>4. CASE \E ok, i : Return(t, ok, i)
    BY <2>1, <2>2, <2>4, QuietReturn DEF Updated, Removed
  <2> QED
    BY <1>5, <2>3, <2>4, Zenon DEF CleanupSweepStep
<1> QED
  BY <1>1, <1>2, <1>3, <1>4, <1>5 DEF Cleanup

\* A call that finds nobody in a method.
LEMMA SerialEnters ==
    ASSUME ManagerTypeOK, SerialInv, NEW t \in Task, NEW f, Enters(t, f), ~disturbed',
           f.at \notin Updated \cup Removed \cup {"status_update"}, UNCHANGED <<metrics, sessions>>
    PROVE  SerialInv'
<1>1. /\ ~disturbed /\ f.at # "update_metadata" /\ \A u \in Task : stack[u] = <<>>
      /\ Alone' /\ OnlyTask(t)' /\ Label(t)' = f.at
  BY SoleEnters DEF ManagerTypeOK
<1>2. OnlyTask(t) /\ Label(t) = "idle"
  BY <1>1 DEF OnlyTask, Label
<1>3. Fresh(t)' /\ Label(t) \notin Updated \cup Removed /\ Label(t)' \notin Updated \cup Removed
  BY <1>1, <1>2 DEF Fresh, Updated, Removed
<1>4. GaugesStay /\ \A j \in SessionId : Actual(j)' = Actual(j)
  BY DEF GaugesStay, Actual, Registered
<1> QED
  BY <1>1, <1>2, <1>3, <1>4, SerialQuiet

\* Only a new call can disturb.
LEMMA MethodsKeepQuiet ==
    ASSUME NEW t \in Task, ManagerStep(t) \/ (Cleanup(t) /\ ~CleanupStart(t)), ~disturbed'
    PROVE  ~disturbed
<1>1. ASSUME disturbed' = disturbed PROVE ~disturbed
  BY <1>1
<1> QED
  BY <1>1 DEF ManagerStep, UpdateSessionStatus, StatusGet, StatusUpdate, StatusPoolGet,
     StatusPoolCheck, StatusPoolInsert, StatusPoolRemove, StatusRecord, UseSession, UseMark,
     UseGet, CloseSession, CloseStart, ClosePoolRemove, CloseUnregister, CloseRecord,
     CreateSession, CreateCheck, CreateInsert, CreateRecord, ConnectOrCreate, UpdateMetadata,
     Cleanup, CleanupExpire, CleanupPoolRemove, CleanupRecord, CleanupSweep, CleanupSweepStep,
     Goto, CallThen, Return

\* Every step keeps the books, as long as calls do not overlap.
LEMMA SerialKept ==
    ASSUME ManagerTypeOK, IdsDistinct, FiledUnderId, Connecting, SerialInv,
           [ManagerNext]_managerVars
    PROVE  SerialInv'
<1> SUFFICES ASSUME ~disturbed' PROVE SerialInv'
  BY DEF SerialInv
<1>1. ASSUME NEW t \in Task, CallManager(t) PROVE SerialInv'
  <2>1. ASSUME NEW f, Begin(t, f),
               f.at \in {"create_check", "connect_or_create", "status_get", "use_mark", "close",
                        "update_metadata"}
        PROVE  SerialInv'
    BY <2>1, SerialEnters DEF Begin, tableState, Updated, Removed
  <2>2. /\ \A n, k : /\ CreateFrame(n, k).at = "create_check"
                     /\ [at |-> "connect_or_create", name |-> n, key |-> k].at = "connect_or_create"
        /\ \A i, status : UpdateStatusFrame(i, status).at = "status_get"
        /\ \A i : UseFrame(i).at = "use_mark" /\ CloseFrame(i).at = "close"
        /\ \A m : [at |-> "update_metadata", metadata |-> m].at = "update_metadata"
    BY DEF CreateFrame, UpdateStatusFrame, UseFrame, CloseFrame
  <2> QED
    BY <1>1, <2>1, <2>2 DEF CallManager
<1>2. ASSUME NEW t \in Task, CleanupStart(t) PROVE SerialInv'
  <2> DEFINE f == [at |-> "cleanup", snapshot |-> {sessions[i] : i \in Registered}]
  <2>1. f.at = "cleanup" /\ Enters(t, f) /\ UNCHANGED <<metrics, sessions>>
    BY <1>2 DEF CleanupStart, tableState
  <2> HIDE DEF f
  <2> QED
    BY <2>1, SerialEnters DEF Updated, Removed
<1>3. ASSUME NEW t \in Task, ManagerStep(t) \/ (Cleanup(t) /\ ~CleanupStart(t))
      PROVE  ~disturbed
  BY <1>3, MethodsKeepQuiet
<1>4. ASSUME NEW t \in Task, ManagerStep(t) PROVE SerialInv'
  BY <1>3, <1>4, SerialUpdateStatus, SerialMethods DEF ManagerStep
<1>5. ASSUME NEW t \in Task, Cleanup(t), ~CleanupStart(t) PROVE SerialInv'
  BY <1>3, <1>5, SerialCleanup
<1>6. CASE ManagerClockStep \/ UNCHANGED managerVars
  <2>1. UNCHANGED <<sessions, metrics, stack, disturbed>>
    BY <1>6 DEF ManagerClockStep, managerVars, tableState
  <2> QED
    BY <2>1 DEF SerialInv, Alone, Fresh, Booked, Label, Top, Owed, OldStatus, Actual, Registered
<1> QED
  BY <1>1, <1>2, <1>4, <1>5, <1>6 DEF ManagerNext

\* When nobody is in a method, the books are the statuses.
LEMMA SettledBooks ==
    ASSUME ManagerTypeOK, SerialInv
    PROVE  GaugesMatch
<1> SUFFICES ASSUME Quiescent, ~disturbed
             PROVE  \A status \in Counted : metrics[GaugeOf(status)] = Cardinality(InStatus(status))
  BY DEF GaugesMatch, Counted, GaugeOf
<1>1. PICK b \in [SessionId -> Standing] : Booked(b)
  BY DEF SerialInv
<1>2. \A t \in Task : Owed(t) = {}
  BY DEF Quiescent, Owed, Label, Updated, Removed
<1>3. \A i \in SessionId : b[i] = Actual(i)
  BY <1>1, <1>2 DEF Booked
<1>4. \A status \in Counted : Under(b, status) = InStatus(status)
  BY <1>3 DEF Under, InStatus, Actual, Registered, Counted
<1> QED
  BY <1>1, <1>4 DEF Booked

\* As long as calls do not overlap, the only task in a method has read what is
\* still so, and the gauges count every session under its status but for the
\* change it has yet to record.
THEOREM BooksAlwaysKept == ManagerSpec => []Connecting /\ []SerialInv
<1>1. ManagerInit => Connecting /\ SerialInv
  <2> SUFFICES ASSUME ManagerInit PROVE Connecting /\ SerialInv
    OBVIOUS
  <2>1. Registered = {} /\ \A t \in Task : stack[t] = <<>> /\ registering[t] = None
    BY DEF ManagerInit, TableInit, Registered
  <2>2. \A t \in Task : Label(t) = "idle" /\ Owed(t) = {} /\ Fresh(t)
    BY <2>1 DEF Label, Owed, Fresh, Updated, Removed
  <2> DEFINE b == [i \in SessionId |-> "Absent"]
  <2>3. b \in [SessionId -> Standing] /\ \A i \in SessionId : b[i] = Actual(i)
    BY <2>1 DEF Standing, Actual
  <2>4. \A status \in Counted : Under(b, status) = {} /\ metrics[GaugeOf(status)] = 0
    BY DEF Under, Counted, GaugeOf, ManagerInit
  <2> HIDE DEF b
  <2>5. Booked(b)
    BY <2>2, <2>3, <2>4, FS_EmptySet DEF Booked
  <2> QED
    BY <2>1, <2>2, <2>3, <2>5 DEF SerialInv, Alone, Connecting
<1>2. ManagerTypeOK /\ Connecting /\ [ManagerNext]_managerVars => Connecting'
  BY ManagerStepsTable, StaysConnecting DEF ManagerTypeOK
<1>3. ManagerTypeOK /\ IdsDistinct /\ FiledUnderId /\ Connecting /\ SerialInv
      /\ [ManagerNext]_managerVars => SerialInv'
  BY SerialKept
<1> QED
  BY <1>1, <1>2, <1>3, ManagerTypeCorrect, ManagerSessions, ManagerImplementsTable,
     TableFiledUnderId, PTL DEF ManagerSpec

\* The three gauges are the numbers of active, idle and failed sessions between
\* calls, whatever sequence of creations, status updates, uses, closures and
\* cleanups came before, as long as no two of them overlapped: record_status_change
\* and record_session_closed always get the status the gauges count.
THEOREM GaugesAlwaysMatch == ManagerSpec => []GaugesMatch
<1>1. ManagerTypeOK /\ SerialInv => GaugesMatch
  BY SettledBooks
<1> QED
  BY <1>1, BooksAlwaysKept, ManagerTypeCorrect, PTL

-----------------------------------------------------------------------------
(* The pool, when calls do not overlap.                                     *)

\* The statuses for which update_session_status has a rule for the pool.
PoolStatuses == {"Idle", "Active", "Failed", "Closed"}

\* The steps of update_session_status.
StatusSteps == Updated \cup {"status_get", "status_update"}

\* The session a task will take out of the pool before its method ends.
Evicting(t) ==
    IF \/ Label(t) = "status_pool_remove"
       \/ Label(t) = "status_record" /\ Tail(stack[t]) # <<>>
       \/ Label(t) = "close_pool_remove" /\ ret[t].ok
    THEN {Top(t).id}
    ELSE IF Label(t) = "cleanup_pool_remove" THEN {Top(t).removed.id} ELSE {}

\* What a task knows of the session it takes into the pool or out of it.
Served(t) ==
    /\ Label(t) = "close_unregister" => Top(t).id \notin Pooled
    /\ Label(t) \in StatusSteps =>
          \/ Tail(stack[t]) = <<>> /\ Top(t).status \in PoolStatuses
          \/ /\ Tail(stack[t]) # <<>> /\ Top(t).status = "Closing"
             /\ Head(Tail(stack[t])).id = Top(t).id
    /\ Label(t) \in {"status_pool_get", "status_pool_check", "status_pool_insert"} =>
          Top(t).status = "Idle"
    /\ Label(t) = "status_pool_check" => Top(t).copy.id = Top(t).id
    /\ Label(t) = "status_pool_insert" => adding[t].id = Top(t).id

\* A pooled session is idle, or about to leave the pool.
PoolServed == \A i \in Pooled : Actual(i) = "Idle" \/ \E t \in Task : i \in Evicting(t)

PoolSerialInv == ~disturbed => PoolServed /\ \A t \in Task : Served(t)

PoolShape ==
    /\ pool_metadata = [i \in SessionId |-> pool_metadata[i]]
    /\ adding = [t \in Task |-> adding[t]]

\* What the operations of the pool do to the set of pooled sessions.
LEMMA PoolMoves ==
    ASSUME PoolShape
    PROVE  /\ UNCHANGED pool_metadata => Pooled' = Pooled
           /\ \A i : RemoveSession(i) => Pooled' = Pooled \ {i}
           /\ \A i : Removal(i) => Pooled' \subseteq Pooled
           /\ \A t \in Task : \A m : AddCheck(t, m) => Pooled' = Pooled /\ adding'[t] = m
           /\ \A t \in Task : AddInsert(t) => Pooled' \subseteq Pooled \cup {adding[t].id}
<1>1. ASSUME NEW i, NEW v, pool_metadata' = [pool_metadata EXCEPT ![i] = v]
      PROVE  /\ Pooled' \subseteq Pooled \cup {i}
             /\ v = None => Pooled' = Pooled \ {i}
  BY <1>1 DEF PoolShape, Pooled
<1>2. UNCHANGED pool_metadata => Pooled' = Pooled
  BY DEF Pooled
<1>3. ASSUME NEW i, Removal(i) PROVE Pooled' = Pooled \ {i}
  BY <1>1, <1>3 DEF Removal
<1>4. ASSUME NEW t \in Task, NEW m, AddCheck(t, m) PROVE Pooled' = Pooled /\ adding'[t] = m
  BY <1>2, <1>4 DEF AddCheck, PoolShape
<1>5. ASSUME NEW t \in Task, AddInsert(t) PROVE Pooled' \subseteq Pooled \cup {adding[t].id}
  BY <1>1, <1>5 DEF AddInsert
<1> QED
  BY <1>2, <1>3, <1>4, <1>5 DEF RemoveSession

\* The pool's maps keep their domains.
LEMMA PoolShapeKept ==
    ASSUME PoolShape, [ManagerNext]_managerVars
    PROVE  PoolShape'
<1>1. /\ \A i, v : pool_metadata' = [pool_metadata EXCEPT ![i] = v]
                   => pool_metadata' = [j \in SessionId |-> pool_metadata'[j]]
      /\ \A t, v : adding' = [adding EXCEPT ![t] = v] => adding' = [u \in Task |-> adding'[u]]
  BY DEF PoolShape
<1>2. UNCHANGED <<pool_metadata, adding>> => PoolShape'
  BY DEF PoolShape
<1>3. ASSUME NEW i, Removal(i), UNCHANGED adding PROVE PoolShape'
  BY <1>1, <1>3 DEF Removal, PoolShape
<1>4. ASSUME NEW t, NEW m, AddCheck(t, m) PROVE PoolShape'
  BY <1>1, <1>4 DEF AddCheck, PoolShape
<1>5. ASSUME NEW t, AddInsert(t) PROVE PoolShape'
  BY <1>1, <1>5 DEF AddInsert, PoolShape
<1>6. ASSUME NEW t \in Task, ManagerStep(t) \/ Cleanup(t) \/ CallManager(t) PROVE PoolShape'
  <2>1. CASE CallManager(t)
    BY <1>2, <2>1 DEF CallManager, Begin, poolState
  <2>2. CASE Cleanup(t)
    BY <1>2, <1>3, <2>2 DEF Cleanup, CleanupStart, CleanupExpire, CleanupPoolRemove, CleanupRecord,
       CleanupSweep, CleanupScan, CleanupSweepStep, CleanupRemove, RemoveSession, poolState
  <2>3. CASE UpdateSessionStatus(t)
    BY <1>2, <1>3, <1>4, <1>5, <2>3 DEF UpdateSessionStatus, StatusGet, StatusUpdate,
       StatusPoolGet, StatusPoolCheck, StatusPoolInsert, StatusPoolRemove, StatusRecord,
       RemoveSession, poolState
  <2>4. CASE ManagerStep(t) /\ ~UpdateSessionStatus(t)
    BY <1>2, <1>3, <2>4 DEF ManagerStep, UseSession, UseMark, UseGet, CloseSession, CloseStart,
       ClosePoolRemove, CloseUnregister, CloseRecord, CreateSession, CreateCheck, CreateInsert,
       CreateRecord, ConnectOrCreate, UpdateMetadata, RemoveSession, poolState
  <2> QED
    BY <1>6, <2>1, <2>2, <2>3, <2>4
<1> QED
  BY <1>2, <1>6 DEF ManagerNext, ManagerClockStep, managerVars, poolState

\* With one task in a method, only its evictions matter.
LEMMA SolePool ==
    ASSUME NEW t \in Task, OnlyTask(t), PoolSerialInv, ~disturbed
    PROVE  Served(t) /\ \A i \in Pooled : Actual(i) = "Idle" \/ i \in Evicting(t)
<1>1. \A u \in Task : u # t => Evicting(u) = {}
  BY DEF OnlyTask, Evicting, Label
<1> QED
  BY <1>1 DEF PoolSerialInv, PoolServed

\* And conversely, after a step.
LEMMA NewPool ==
    ASSUME NEW t \in Task, OnlyTask(t)', Served(t)',
           \A i \in Pooled' : Actual(i)' = "Idle" \/ i \in Evicting(t)'
    PROVE  PoolSerialInv'
<1>1. \A u \in Task : u # t => Served(u)'
  BY DEF OnlyTask, Served, Label, StatusSteps, Updated
<1> QED
  BY <1>1 DEF PoolSerialInv, PoolServed

IdleStays == \A i \in Pooled' : Actual(i) = "Idle" => Actual(i)' = "Idle"

\* The labels at which a task may still have to take a session out of the pool.
EvictionSteps == {"status_pool_remove", "status_record", "close_pool_remove",
                  "cleanup_pool_remove"}

\* A step that takes nothing into the pool and makes no pooled session busy.
LEMMA PoolRests ==
    ASSUME NEW t \in Task, OnlyTask(t), PoolSerialInv, ~disturbed, Label(t) \notin EvictionSteps,
           OnlyTask(t)', Served(t)', Pooled' \subseteq Pooled, IdleStays
    PROVE  PoolSerialInv'
<1>1. Evicting(t) = {}
  BY DEF Evicting, EvictionSteps
<1> QED
  BY <1>1, SolePool, NewPool DEF IdleStays

\* A step that takes the session out of the pool.
LEMMA PoolEvicts ==
    ASSUME NEW t \in Task, OnlyTask(t), PoolSerialInv, ~disturbed,
           OnlyTask(t)', Served(t)', NEW i, Evicting(t) \subseteq {i}, Pooled' = Pooled \ {i},
           UNCHANGED sessions
    PROVE  PoolSerialInv'
<1>1. \A j : Actual(j)' = Actual(j)
  BY DEF Actual, Registered
<1> QED
  BY <1>1, SolePool, NewPool

\* Elsewhere a task need not know anything of the pool.
LEMMA ServedElsewhere ==
    ASSUME NEW t, Label(t)' \notin StatusSteps \cup {"close_unregister"}
    PROVE  Served(t)'
BY DEF Served, StatusSteps, Updated

\* A quiet step from one label to another.
LEMMA PoolGoto ==
    ASSUME ManagerTypeOK, SerialInv, PoolSerialInv, ~disturbed, NEW t \in Task, NEW label,
           At(t, label), label \notin EvictionSteps, NEW f, Goto(t, f),
           f.at \notin StatusSteps \cup {"close_unregister"}, Pooled' \subseteq Pooled, IdleStays
    PROVE  PoolSerialInv'
<1>1. OnlyTask(t) /\ stack[t] # <<>> /\ Label(t) = label
  BY SoleTask
<1>2. OnlyTask(t)' /\ Label(t)' = f.at
  BY <1>1, SoleGoto DEF ManagerTypeOK
<1>3. Served(t)'
  BY <1>2, ServedElsewhere
<1>4. Label(t) \notin EvictionSteps
  BY <1>1
<1> QED
  BY <1>1, <1>2, <1>3, <1>4, PoolRests

\* A quiet step at which a method returns.
LEMMA PoolReturn ==
    ASSUME ManagerTypeOK, SerialInv, PoolSerialInv, ~disturbed, NEW t \in Task, NEW label,
           At(t, label), label \notin EvictionSteps, NEW ok, NEW i, Return(t, ok, i),
           Pooled' \subseteq Pooled, IdleStays
    PROVE  PoolSerialInv'
<1>1. OnlyTask(t) /\ stack[t] # <<>> /\ Label(t) = label
  BY SoleTask
<1>2. OnlyTask(t)' /\ Label(t)' \in {"idle", "close_pool_remove"}
  BY <1>1, SoleReturn DEF ManagerTypeOK
<1>3. Served(t)'
  BY <1>2, ServedElsewhere DEF StatusSteps, Updated
<1>4. Label(t) \notin EvictionSteps
  BY <1>1
<1> QED
  BY <1>1, <1>2, <1>3, <1>4, PoolRests

\* A step of update_session_status to the next one.
LEMMA ServedNext ==
    ASSUME ManagerTypeOK, NEW t \in Task, OnlyTask(t), stack[t] # <<>>, Served(t),
           Label(t) \in StatusSteps, NEW f, Goto(t, f), f.at \in StatusSteps,
           f.id = Top(t).id, f.status = Top(t).status,
           f.at \in {"status_pool_get", "status_pool_check", "status_pool_insert"} =>
               f.status = "Idle",
           f.at = "status_pool_check" => f.copy.id = f.id,
           f.at = "status_pool_insert" => adding'[t].id = f.id
    PROVE  OnlyTask(t)' /\ Label(t)' = f.at /\ Top(t)' = f /\ Served(t)'
           /\ Tail(stack'[t]) = Tail(stack[t])
<1>1. OnlyTask(t)' /\ Label(t)' = f.at /\ Top(t)' = f /\ Tail(stack'[t]) = Tail(stack[t])
  BY SoleGoto DEF ManagerTypeOK
<1>2. Label(t)' # "close_unregister"
  BY <1>1 DEF StatusSteps, Updated
<1> QED
  BY <1>1, <1>2 DEF Served

\* Where update_session_status goes after the update.
LEMMA UpdateGoesOn ==
    ASSUME NEW t, StatusUpdate(t), Top(t).status \in PoolStatuses \cup {"Closing"}
    PROVE  \/ /\ SetSessionStatus(Top(t).id, Top(t).status)
              /\ \/ Top(t).status = "Idle" /\ Goto(t, [Top(t) EXCEPT !.at = "status_pool_get"])
                 \/ /\ Top(t).status \in {"Active", "Failed", "Closed"}
                    /\ Goto(t, [Top(t) EXCEPT !.at = "status_pool_remove"])
                 \/ Top(t).status = "Closing" /\ Goto(t, [Top(t) EXCEPT !.at = "status_record"])
           \/ UNCHANGED sessions /\ \E ok, i : Return(t, ok, i)
<1> DEFINE next == CASE Top(t).status = "Idle" -> "status_pool_get"
                     [] Top(t).status \in {"Active", "Failed", "Closed"} -> "status_pool_remove"
                     [] OTHER -> "status_record"
<1>1. \/ SetSessionStatus(Top(t).id, Top(t).status) /\ Goto(t, [Top(t) EXCEPT !.at = next])
      \/ UNCHANGED sessions /\ \E ok, i : Return(t, ok, i)
  BY Zenon DEF StatusUpdate, tableState
<1>2. /\ Top(t).status = "Idle" => next = "status_pool_get"
      /\ Top(t).status \in {"Active", "Failed", "Closed"} => next = "status_pool_remove"
      /\ Top(t).status = "Closing" => next = "status_record"
  OBVIOUS
<1> HIDE DEF next
<1> QED
  BY <1>1, <1>2 DEF PoolStatuses

\* update_session_status, undisturbed.
LEMMA PoolUpdateStatus ==
    ASSUME ManagerTypeOK, FiledUnderId, Connecting, PoolShape, SerialInv, PoolSerialInv,
           ~disturbed, NEW t \in Task, UpdateSessionStatus(t)
    PROVE  PoolSerialInv'
<1> USE DEF ManagerTypeOK
<1> DEFINE f == Top(t)
           Returns == \E ok, i : Return(t, ok, i)
<1>1. UNCHANGED sessions => \A i : Actual(i)' = Actual(i)
  BY DEF Actual, Registered
<1>2. ASSUME NEW label \in StatusSteps, At(t, label)
      PROVE  /\ OnlyTask(t) /\ stack[t] # <<>> /\ Label(t) = label /\ Fresh(t) /\ Served(t)
             /\ \A i \in Pooled : Actual(i) = "Idle" \/ i \in Evicting(t)
  BY <1>2, SoleTask, SolePool
<1>3. ASSUME f \in StatusFrame
      PROVE  \A next : LET g == [f EXCEPT !.at = next]
                       IN  g.at = next /\ g.id = f.id /\ g.status = f.status
  BY <1>3 DEF StatusFrame
<1>4. CASE StatusGet(t)
  <2> DEFINE g == [at |-> "status_update", id |-> f.id, status |-> f.status,
                   old |-> sessions[f.id].status]
  <2>1. At(t, "status_get") /\ UNCHANGED <<sessions, pool_metadata>>
    BY <1>4 DEF StatusGet, tableState, poolState
  <2>2. Pooled' = Pooled /\ IdleStays /\ "status_get" \notin EvictionSteps
    BY <1>1, <2>1, PoolMoves DEF IdleStays, EvictionSteps
  <2>3. CASE Returns
    BY <2>1, <2>2, <2>3, PoolReturn
  <2>4. CASE Goto(t, g)
    <3>1. g.at = "status_update" /\ g.id = f.id /\ g.status = f.status
      OBVIOUS
    <3> HIDE DEF g
    <3>2. OnlyTask(t) /\ stack[t] # <<>> /\ Label(t) = "status_get" /\ Served(t)
      BY <1>2, <2>1 DEF StatusSteps
    <3>3. OnlyTask(t)' /\ Served(t)'
      BY <2>4, <3>1, <3>2, ServedNext DEF StatusSteps
    <3> QED
      BY <2>2, <3>2, <3>3, PoolRests
  <2> QED
    BY <1>4, <2>3, <2>4, Zenon DEF StatusGet
<1>5. CASE StatusUpdate(t)
  <2>1. At(t, "status_update") /\ UNCHANGED pool_metadata
    BY <1>5 DEF StatusUpdate, poolState
  <2>2. f \in StatusFrame
    BY <2>1, TopFrame, FrameLocals
  <2>3. /\ OnlyTask(t) /\ stack[t] # <<>> /\ Label(t) = "status_update" /\ Served(t)
        /\ \A i \in Pooled : Actual(i) = "Idle" \/ i \in Evicting(t)
    BY <1>2, <2>1 DEF StatusSteps
  <2>4. /\ f.status \in PoolStatuses \cup {"Closing"}
        /\ f.status = "Closing" => Tail(stack[t]) # <<>>
    BY <2>3 DEF Served, StatusSteps, PoolStatuses
  <2>5. Pooled' = Pooled
    BY <2>1, PoolMoves
  <2>6. CASE UNCHANGED sessions /\ Returns
    BY <1>1, <2>1, <2>5, <2>6, PoolReturn DEF IdleStays, EvictionSteps
  <2>7. ASSUME SetSessionStatus(f.id, f.status),
               NEW next \in {"status_pool_get", "status_pool_remove", "status_record"},
               Goto(t, [f EXCEPT !.at = next]),
               \/ next = "status_pool_get" /\ f.status = "Idle"
               \/ next = "status_pool_remove"
               \/ next = "status_record" /\ f.status = "Closing"
        PROVE  PoolSerialInv'
    <3> DEFINE g == [f EXCEPT !.at = next]
    <3>1. g.at = next /\ g.id = f.id /\ g.status = f.status
      BY <1>3, <2>2
    <3>2. Goto(t, g)
      BY <2>7
    <3> HIDE DEF g
    <3>3. /\ OnlyTask(t)' /\ Label(t)' = next /\ Top(t)' = g /\ Served(t)'
          /\ Tail(stack'[t]) = Tail(stack[t])
      BY <2>3, <2>7, <3>1, <3>2, ServedNext DEF StatusSteps, Updated
    <3>4. PICK i \in SessionId : i = f.id
      BY <2>2 DEF StatusFrame
    <3>5. /\ \A j \in SessionId : j # i => Actual(j)' = Actual(j)
          /\ Actual(i)' = f.status
      BY <2>2, <2>7, <3>4, ActualMoves DEF StatusFrame, Actual
    <3>6. i \in Evicting(t)' \/ Actual(i)' = "Idle"
      BY <2>4, <2>7, <3>1, <3>3, <3>4, <3>5 DEF Evicting
    <3>7. \A j \in Pooled : Actual(j) = "Idle" /\ j \in SessionId
      BY <2>3 DEF Evicting, Pooled
    <3>8. \A j \in Pooled' : Actual(j)' = "Idle" \/ j \in Evicting(t)'
      BY <2>5, <3>5, <3>6, <3>7
    <3> QED
      BY <3>3, <3>8, NewPool
  <2> QED
    BY <1>5, <2>4, <2>6, <2>7, UpdateGoesOn
<1>6. CASE StatusPoolGet(t)
  <2>1. /\ At(t, "status_pool_get") /\ UNCHANGED <<sessions, pool_metadata>> /\ f \in StatusFrame
    BY <1>6, TopFrame, FrameLocals DEF StatusPoolGet, tableState, poolState
  <2>2. /\ OnlyTask(t) /\ stack[t] # <<>> /\ Label(t) = "status_pool_get" /\ Served(t)
        /\ Fresh(t)
    BY <1>2, <2>1 DEF StatusSteps, Updated
  <2>3. f.status = "Idle" /\ f.id \in Registered /\ sessions[f.id].id = f.id
    BY <2>2 DEF Served, Fresh, Updated, FiledUnderId
  <2> DEFINE g == [at |-> "status_pool_check", id |-> f.id, status |-> f.status,
                   old |-> f.old, copy |-> sessions[f.id]]
  <2>4. Goto(t, g)
    BY <1>6, <2>3 DEF StatusPoolGet
  <2>5. g.at = "status_pool_check" /\ g.id = f.id /\ g.status = f.status /\ g.copy.id = f.id
    BY <2>3
  <2> HIDE DEF g
  <2>6. OnlyTask(t)' /\ Served(t)'
    BY <2>2, <2>3, <2>4, <2>5, ServedNext DEF StatusSteps, Updated
  <2>7. Pooled' = Pooled /\ IdleStays /\ Label(t) \notin EvictionSteps
    BY <1>1, <2>1, <2>2, PoolMoves DEF IdleStays, EvictionSteps
  <2> QED
    BY <2>2, <2>6, <2>7, PoolRests
<1>7. CASE StatusPoolCheck(t)
  <2> DEFINE done == [at |-> "status_record", id |-> f.id, status |-> f.status, old |-> f.old]
             next == [done EXCEPT !.at = "status_pool_insert"]
  <2>1. At(t, "status_pool_check") /\ UNCHANGED sessions
    BY <1>7 DEF StatusPoolCheck, tableState
  <2>2. /\ OnlyTask(t) /\ stack[t] # <<>> /\ Label(t) = "status_pool_check" /\ Served(t)
    BY <1>2, <2>1 DEF StatusSteps, Updated
  <2>3. f.status = "Idle" /\ f.copy.id = f.id
    BY <2>2 DEF Served
  <2>4. /\ done.at = "status_record" /\ done.id = f.id /\ done.status = f.status
        /\ next.at = "status_pool_insert" /\ next.id = f.id /\ next.status = f.status
    OBVIOUS
  <2>5. \/ AddCheck(t, f.copy) /\ Goto(t, next)
        \/ UNCHANGED pool_metadata /\ Goto(t, done)
    BY <1>7 DEF StatusPoolCheck, poolState
  <2> HIDE DEF done, next
  <2>6. Pooled' = Pooled
    BY <2>5, PoolMoves
  <2>7. OnlyTask(t)' /\ Served(t)'
    <3>1. CASE AddCheck(t, f.copy) /\ Goto(t, next)
      <4>1. adding'[t].id = f.id
        BY <2>3, <3>1, PoolMoves
      <4> QED
        BY <2>2, <2>3, <2>4, <3>1, <4>1, ServedNext DEF StatusSteps, Updated
    <3>2. CASE Goto(t, done)
      BY <2>2, <2>3, <2>4, <3>2, ServedNext DEF StatusSteps, Updated
    <3> QED
      BY <2>5, <3>1, <3>2
  <2>8. IdleStays /\ Label(t) \notin EvictionSteps
    BY <1>1, <2>1, <2>2 DEF IdleStays, EvictionSteps
  <2> QED
    BY <2>2, <2>6, <2>7, <2>8, PoolRests
<1>8. CASE StatusPoolInsert(t)
  <2>1. At(t, "status_pool_insert") /\ UNCHANGED sessions /\ AddInsert(t)
        /\ Goto(t, [f EXCEPT !.at = "status_record"])
    BY <1>8 DEF StatusPoolInsert, tableState
  <2>2. f \in StatusFrame
    BY <2>1, TopFrame, FrameLocals
  <2>3. /\ OnlyTask(t) /\ stack[t] # <<>> /\ Label(t) = "status_pool_insert" /\ Served(t)
        /\ Fresh(t) /\ \A i \in Pooled : Actual(i) = "Idle" \/ i \in Evicting(t)
    BY <1>2, <2>1 DEF StatusSteps, Updated
  <2>4. f.status = "Idle" /\ adding[t].id = f.id /\ Actual(f.id) = "Idle"
    BY <2>3 DEF Served, Fresh, Updated, Actual
  <2>5. Pooled' \subseteq Pooled \cup {f.id}
    BY <2>1, <2>4, PoolMoves
  <2> DEFINE g == [f EXCEPT !.at = "status_record"]
  <2>6. g.at = "status_record" /\ g.id = f.id /\ g.status = f.status /\ Goto(t, g)
    BY <1>3, <2>1, <2>2
  <2> HIDE DEF g
  <2>7. OnlyTask(t)' /\ Served(t)'
    BY <2>3, <2>6, ServedNext DEF StatusSteps, Updated
  <2>8. Evicting(t) = {}
    BY <2>3 DEF Evicting
  <2>9. \A i \in Pooled \cup {f.id} : Actual(i) = "Idle"
    BY <2>3, <2>4, <2>8
  <2>10. \A i \in Pooled' : Actual(i)' = "Idle"
    BY <1>1, <2>1, <2>5, <2>9
  <2> QED
    BY <2>7, <2>10, NewPool
<1>9. CASE StatusPoolRemove(t)
  <2>1. At(t, "status_pool_remove") /\ UNCHANGED sessions /\ RemoveSession(f.id)
        /\ Goto(t, [f EXCEPT !.at = "status_record"])
    BY <1>9 DEF StatusPoolRemove, tableState
  <2>2. f \in StatusFrame
    BY <2>1, TopFrame, FrameLocals
  <2>3. /\ OnlyTask(t) /\ stack[t] # <<>> /\ Label(t) = "status_pool_remove" /\ Served(t)
    BY <1>2, <2>1 DEF StatusSteps, Updated
  <2> DEFINE g == [f EXCEPT !.at = "status_record"]
  <2>4. g.at = "status_record" /\ g.id = f.id /\ g.status = f.status /\ Goto(t, g)
    BY <1>3, <2>1, <2>2
  <2> HIDE DEF g
  <2>5. OnlyTask(t)' /\ Served(t)'
    BY <2>3, <2>4, ServedNext DEF StatusSteps, Updated
  <2>6. PICK i : i = f.id
    OBVIOUS
  <2>7. Evicting(t) \subseteq {i} /\ Pooled' = Pooled \ {i}
    BY <2>1, <2>3, <2>6, PoolMoves DEF Evicting
  <2> QED
    BY <2>1, <2>3, <2>5, <2>7, PoolEvicts
<1>10. CASE StatusRecord(t)
  <2>1. /\ At(t, "status_record") /\ UNCHANGED <<sessions, pool_metadata>>
        /\ Return(t, TRUE, f.id)
    BY <1>10 DEF StatusRecord, tableState, poolState
  <2>2. /\ OnlyTask(t) /\ stack[t] # <<>> /\ Label(t) = "status_record" /\ Served(t)
        /\ \A i \in Pooled : Actual(i) = "Idle" \/ i \in Evicting(t)
    BY <1>2, <2>1 DEF StatusSteps, Updated
  <2>3. /\ OnlyTask(t)' /\ stack'[t] = Tail(stack[t])
        /\ Label(t)' = IF Tail(stack[t]) = <<>> THEN "idle" ELSE "close_pool_remove"
    BY <2>1, <2>2, SoleReturn
  <2>4. Served(t)'
    BY <2>3, ServedElsewhere DEF StatusSteps, Updated
  <2>5. ret'[t].ok
    BY <2>1 DEF Return, ControlTypeOK
  <2>6. Evicting(t) \subseteq Evicting(t)'
    <3>1. CASE Tail(stack[t]) = <<>>
      BY <2>2, <3>1 DEF Evicting
    <3>2. CASE Tail(stack[t]) # <<>>
      <4>1. Top(t)' = Head(Tail(stack[t])) /\ Label(t)' = "close_pool_remove"
        BY <2>3, <3>2 DEF Top
      <4>2. Head(Tail(stack[t])).id = f.id
        BY <2>2, <3>2 DEF Served, StatusSteps, Updated
      <4>3. Evicting(t) = {f.id}
        BY <2>2, <3>2 DEF Evicting
      <4>4. Evicting(t)' = {Top(t)'.id}
        BY <2>5, <4>1 DEF Evicting
      <4> QED
        BY <4>1, <4>2, <4>3, <4>4
    <3> QED
      BY <3>1, <3>2
  <2>7. Pooled' = Pooled
    BY <2>1, PoolMoves
  <2>8. \A i \in Pooled' : Actual(i)' = "Idle" \/ i \in Evicting(t)'
    BY <1>1, <2>1, <2>2, <2>6, <2>7
  <2> QED
    BY <2>3, <2>4, <2>8, NewPool
<1> QED
  BY <1>4, <1>5, <1>6, <1>7, <1>8, <1>9, <1>10 DEF UpdateSessionStatus

\* The other methods, undisturbed.
LEMMA PoolMethods ==
    ASSUME ManagerTypeOK, IdsDistinct, Connecting, PoolShape, SerialInv, PoolSerialInv,
           ~disturbed, NEW t \in Task,
           UseSession(t) \/ CloseSession(t) \/ CreateSession(t) \/ ConnectOrCreate(t)
           \/ UpdateMetadata(t)
    PROVE  PoolSerialInv'
<1> USE DEF ManagerTypeOK
<1> DEFINE f == Top(t)
           Returns == \E ok, i : Return(t, ok, i)
<1>1. /\ UNCHANGED sessions => \A i : Actual(i)' = Actual(i)
      /\ UNCHANGED sessions => IdleStays
      /\ UNCHANGED pool_metadata => Pooled' = Pooled
  BY PoolMoves DEF Actual, Registered, IdleStays
<1>2. \A i \in Pooled : i \in SessionId
  BY DEF Pooled
<1>3. ASSUME NEW label, At(t, label), label \notin EvictionSteps, Returns,
             Pooled' = Pooled, IdleStays
      PROVE  PoolSerialInv'
  BY <1>3, PoolReturn
<1> HIDE DEF Returns
<1>4. ASSUME NEW label, At(t, label), label \notin EvictionSteps, NEW g, Goto(t, g),
             g.at \notin StatusSteps \cup {"close_unregister"}, Pooled' = Pooled, IdleStays
      PROVE  PoolSerialInv'
  BY <1>4, PoolGoto
<1>5. ASSUME NEW label \in {"use_mark", "use_get", "close", "close_pool_remove",
                             "close_unregister", "create_insert", "create_record"},
             At(t, label)
      PROVE  /\ OnlyTask(t) /\ stack[t] # <<>> /\ Label(t) = label /\ Served(t)
             /\ f \in IdFrame /\ f.id \in SessionId /\ f \notin UpdateStatusFrames
             /\ Tail(stack[t]) = <<>>
  <2>1. f \in Frame /\ f.at = label /\ StackShape(stack[t]) /\ stack[t] # <<>>
    BY <1>5, TopFrame
  <2>2. f \in IdFrame
    BY <2>1, FrameLocals
  <2>3. f \notin UpdateStatusFrames
    BY <2>1, StatusLabels
  <2>4. Tail(stack[t]) = <<>>
    BY <2>1, <2>3, TopOfStack DEF Top
  <2> QED
    BY <1>5, <2>1, <2>2, <2>3, <2>4, SoleTask, SolePool DEF IdFrame
<1>6. CASE UseMark(t)
  <2>1. At(t, "use_mark") /\ Pooled' = Pooled
    BY <1>1, <1>6 DEF UseMark, poolState
  <2>2. IdleStays
    BY <1>1, <1>2, <1>6, <2>1, ActualMoves DEF UseMark, tableState, IdleStays
  <2>3. Goto(t, [at |-> "use_get", id |-> f.id]) \/ Returns
    BY <1>6, Zenon DEF UseMark, Returns
  <2> QED
    BY <1>3, <1>4, <2>1, <2>2, <2>3 DEF EvictionSteps, StatusSteps, Updated
<1>7. CASE UseGet(t)
  <2> DEFINE g == UpdateStatusFrame(f.id, "Active")
  <2>1. At(t, "use_get") /\ Pooled' = Pooled /\ IdleStays
    BY <1>1, <1>7 DEF UseGet, tableState, poolState
  <2>2. Goto(t, g) \/ Returns
    BY <1>7, Zenon DEF UseGet, Returns
  <2>3. CASE Returns
    BY <1>3, <2>1, <2>3 DEF EvictionSteps
  <2>4. CASE Goto(t, g)
    <3>1. g.at = "status_get" /\ g.status = "Active"
      BY DEF UpdateStatusFrame
    <3>2. /\ OnlyTask(t) /\ stack[t] # <<>> /\ Label(t) = "use_get" /\ Tail(stack[t]) = <<>>
      BY <1>5, <2>1
    <3> HIDE DEF g
    <3>3. /\ OnlyTask(t)' /\ Label(t)' = "status_get" /\ Top(t)' = g /\ Tail(stack'[t]) = <<>>
      BY <2>4, <3>1, <3>2, SoleGoto
    <3>4. Served(t)'
      BY <3>1, <3>3 DEF Served, StatusSteps, Updated, PoolStatuses
    <3> QED
      BY <2>1, <3>2, <3>3, <3>4, PoolRests DEF EvictionSteps
  <2> QED
    BY <2>2, <2>3, <2>4
<1>8. CASE CloseStart(t)
  <2> DEFINE g == UpdateStatusFrame(f.id, "Closing")
             h == [at |-> "close_pool_remove", id |-> f.id]
  <2>1. At(t, "close") /\ Pooled' = Pooled /\ IdleStays /\ CallThen(t, g, h)
    BY <1>1, <1>8 DEF CloseStart, tableState, poolState
  <2>2. g.at = "status_get" /\ g.status = "Closing" /\ g.id = f.id /\ h.id = f.id
    BY DEF UpdateStatusFrame
  <2>3. /\ OnlyTask(t) /\ stack[t] # <<>> /\ Label(t) = "close" /\ f \notin UpdateStatusFrames
    BY <1>5, <2>1
  <2> HIDE DEF g, h
  <2>4. /\ OnlyTask(t)' /\ Label(t)' = "status_get" /\ Top(t)' = g /\ Tail(stack'[t]) = <<h>>
    BY <2>1, <2>2, <2>3, SoleCallThen
  <2>5. Tail(stack'[t]) # <<>> /\ Head(Tail(stack'[t])) = h
    <3>1. <<h>> # <<>> /\ Head(<<h>>) = h
      OBVIOUS
    <3> QED
      BY <2>4, <3>1, Zenon
  <2>6. Served(t)'
    BY <2>2, <2>4, <2>5 DEF Served, StatusSteps, Updated
  <2> QED
    BY <2>1, <2>3, <2>4, <2>6, PoolRests DEF EvictionSteps
<1>9. CASE ClosePoolRemove(t)
  <2>1. At(t, "close_pool_remove") /\ UNCHANGED sessions
    BY <1>9 DEF ClosePoolRemove, tableState
  <2>2. /\ OnlyTask(t) /\ stack[t] # <<>> /\ Label(t) = "close_pool_remove"
        /\ Tail(stack[t]) = <<>>
    BY <1>5, <2>1
  <2>3. PICK i : i = f.id
    OBVIOUS
  <2> DEFINE g == [at |-> "close_unregister", id |-> i]
  <2>4. CASE RemoveSession(i) /\ Goto(t, g)
    <3>1. g.at = "close_unregister" /\ g.id = i
      OBVIOUS
    <3> HIDE DEF g
    <3>2. Pooled' = Pooled \ {i}
      BY <2>4, PoolMoves
    <3>3. OnlyTask(t)' /\ Label(t)' = "close_unregister" /\ Top(t)' = g
      BY <2>2, <2>4, <3>1, SoleGoto
    <3>4. Served(t)'
      BY <3>1, <3>2, <3>3 DEF Served, StatusSteps, Updated
    <3>5. Evicting(t) \subseteq {i}
      BY <2>2, <2>3 DEF Evicting
    <3> QED
      BY <2>1, <2>2, <3>2, <3>3, <3>4, <3>5, PoolEvicts
  <2>5. CASE ~ret[t].ok /\ UNCHANGED pool_metadata /\ Returns
    <3>1. PICK ok, j : Return(t, ok, j)
      BY <2>5 DEF Returns
    <3>2. OnlyTask(t)' /\ Label(t)' = "idle"
      BY <2>2, <3>1, SoleReturn
    <3>3. Served(t)'
      BY <3>2, ServedElsewhere DEF StatusSteps, Updated
    <3>4. Evicting(t) = {}
      BY <2>2, <2>5 DEF Evicting
    <3>5. \A k \in Pooled' : Actual(k)' = "Idle"
      BY <1>1, <2>1, <2>2, <2>5, <3>4, SolePool
    <3> QED
      BY <3>2, <3>3, <3>5, NewPool
  <2>6. \/ RemoveSession(i) /\ Goto(t, g)
        \/ ~ret[t].ok /\ UNCHANGED pool_metadata /\ Returns
    BY <1>9, <2>3, Zenon DEF ClosePoolRemove, poolState, Returns
  <2> QED
    BY <2>4, <2>5, <2>6
<1>10. CASE CloseUnregister(t)
  <2>1. At(t, "close_unregister") /\ Pooled' = Pooled
    BY <1>1, <1>10 DEF CloseUnregister, poolState
  <2>2. PICK i \in SessionId : i = f.id
    BY <1>5, <2>1
  <2>3. i \notin Pooled
    BY <1>5, <2>1, <2>2 DEF Served
  <2>4. DropSession(i) => IdleStays
    BY <1>2, <2>1, <2>3, ActualMoves DEF IdleStays
  <2>5. \/ DropSession(i) /\ Goto(t, [at |-> "close_record", removed |-> sessions[i]])
        \/ UNCHANGED sessions /\ Returns
    BY <1>10, <2>2, Zenon DEF CloseUnregister, tableState, Returns
  <2>6. CASE UNCHANGED sessions /\ Returns
    BY <1>1, <1>3, <2>1, <2>6 DEF EvictionSteps
  <2>7. CASE DropSession(i) /\ Goto(t, [at |-> "close_record", removed |-> sessions[i]])
    BY <1>4, <2>1, <2>4, <2>7 DEF EvictionSteps, StatusSteps, Updated
  <2> QED
    BY <2>5, <2>6, <2>7
<1>11. CASE CloseRecord(t) \/ CreateRecord(t)
  <2>1. /\ At(t, "close_record") \/ At(t, "create_record")
        /\ Pooled' = Pooled /\ IdleStays /\ Returns
    BY <1>1, <1>11, Zenon DEF CloseRecord, CreateRecord, tableState, poolState, Returns
  <2> QED
    BY <1>3, <2>1 DEF EvictionSteps
<1>12. CASE CreateCheck(t)
  <2>1. At(t, "create_check") /\ Pooled' = Pooled /\ IdleStays
    BY <1>1, <1>12 DEF CreateCheck, AdmitSession, tableState, poolState
  <2>2. (\E i : Goto(t, [at |-> "create_insert", id |-> i])) \/ Returns
    BY <1>12, Zenon DEF CreateCheck, Returns
  <2>3. ASSUME NEW i, Goto(t, [at |-> "create_insert", id |-> i]) PROVE PoolSerialInv'
    BY <1>4, <2>1, <2>3 DEF EvictionSteps, StatusSteps, Updated
  <2> QED
    BY <1>3, <2>1, <2>2, <2>3 DEF EvictionSteps
<1>13. CASE CreateInsert(t)
  <2>1. /\ At(t, "create_insert") /\ Pooled' = Pooled /\ InsertSession(t)
        /\ Goto(t, [f EXCEPT !.at = "create_record"])
    BY <1>1, <1>13 DEF CreateInsert, poolState
  <2>2. [f EXCEPT !.at = "create_record"].at = "create_record"
    BY <1>5, <2>1 DEF IdFrame
  <2>3. PICK i \in SessionId : i = registering[t].id
    BY <2>1 DEF InsertSession, TableTypeOK, SessionMetadata
  <2>4. Actual(i) = "Absent"
    BY <2>1, <2>3 DEF InsertSession, IdsDistinct, Actual
  <2>5. \A j \in SessionId : j # i => Actual(j)' = Actual(j)
    BY <2>1, <2>3, ActualMoves
  <2>6. IdleStays
    BY <1>2, <2>1, <2>4, <2>5 DEF IdleStays
  <2> QED
    BY <1>4, <2>1, <2>2, <2>6 DEF EvictionSteps, StatusSteps, Updated
<1>14. CASE ConnectOrCreate(t)
  <2>1. At(t, "connect_or_create") /\ Pooled' = Pooled /\ IdleStays
    BY <1>1, <1>14 DEF ConnectOrCreate, tableState, poolState
  <2>2. (\E i : Goto(t, UseFrame(i))) \/ Goto(t, CreateFrame(f.name, f.key))
    BY <1>14 DEF ConnectOrCreate
  <2>3. (\A i : UseFrame(i).at = "use_mark") /\ CreateFrame(f.name, f.key).at = "create_check"
    BY DEF UseFrame, CreateFrame
  <2> QED
    BY <1>4, <2>1, <2>2, <2>3 DEF EvictionSteps, StatusSteps, Updated
<1>15. CASE UpdateMetadata(t)
  <2>1. Label(t) = "update_metadata" /\ Fresh(t)
    BY <1>15, SoleTask DEF UpdateMetadata
  <2> QED
    BY <2>1 DEF Fresh
<1> QED
  BY <1>6, <1>7, <1>8, <1>9, <1>10, <1>11, <1>12, <1>13, <1>14, <1>15
  DEF UseSession, CloseSession, CreateSession

\* The cleanup task, undisturbed.
LEMMA PoolCleanup ==
    ASSUME ManagerTypeOK, FiledUnderId, Connecting, PoolShape, SerialInv, PoolSerialInv,
           ~disturbed, NEW t \in Task, Cleanup(t), ~CleanupStart(t)
    PROVE  PoolSerialInv'
<1> USE DEF ManagerTypeOK
<1> DEFINE f == Top(t)
<1>1. /\ UNCHANGED sessions => IdleStays
      /\ UNCHANGED pool_metadata => Pooled' = Pooled
  BY PoolMoves DEF Actual, Registered, IdleStays
<1>2. ASSUME NEW label, At(t, label), label \notin EvictionSteps, NEW g, Goto(t, g),
             g.at \notin StatusSteps \cup {"close_unregister"}, Pooled' = Pooled, IdleStays
      PROVE  PoolSerialInv'
  BY <1>2, PoolGoto
<1>3. CASE CleanupExpire(t)
  <2>1. At(t, "cleanup") /\ Pooled' = Pooled
    BY <1>1, <1>3 DEF CleanupExpire, poolState
  <2>2. f \in CleanupFrame
    BY <2>1, TopFrame, FrameLocals
  <2>3. ASSUME NEW m \in f.snapshot, UNCHANGED sessions,
               Goto(t, [f EXCEPT !.snapshot = f.snapshot \ {m}])
        PROVE  PoolSerialInv'
    <3>1. [f EXCEPT !.snapshot = f.snapshot \ {m}].at = "cleanup"
      BY <2>2 DEF CleanupFrame
    <3> QED
      BY <1>1, <1>2, <2>1, <2>3, <3>1 DEF EvictionSteps, StatusSteps, Updated
  <2>4. ASSUME NEW m \in f.snapshot, DropSession(m.id),
               Goto(t, [at |-> "cleanup_pool_remove", snapshot |-> f.snapshot \ {m},
                        removed |-> sessions[m.id]])
        PROVE  PoolSerialInv'
    <3> DEFINE g == [at |-> "cleanup_pool_remove", snapshot |-> f.snapshot \ {m},
                     removed |-> sessions[m.id]]
    <3>1. PICK i \in SessionId : i = m.id
      BY <2>4 DEF DropSession, Registered
    <3>2. g.at = "cleanup_pool_remove" /\ g.removed.id = i
      BY <2>4, <3>1 DEF DropSession, FiledUnderId
    <3>3. Goto(t, g) /\ DropSession(i)
      BY <2>4, <3>1
    <3> HIDE DEF g
    <3>4. OnlyTask(t) /\ stack[t] # <<>> /\ Label(t) = "cleanup"
      BY <2>1, SoleTask
    <3>5. OnlyTask(t)' /\ Label(t)' = "cleanup_pool_remove" /\ Top(t)' = g
      BY <3>2, <3>3, <3>4, SoleGoto
    <3>6. Served(t)'
      BY <3>5, ServedElsewhere DEF StatusSteps, Updated
    <3>7. Evicting(t)' = {i} /\ Evicting(t) = {}
      BY <3>2, <3>4, <3>5 DEF Evicting
    <3>8. \A j \in SessionId : j # i => Actual(j)' = Actual(j)
      BY <3>3, ActualMoves
    <3>9. \A j \in Pooled : Actual(j) = "Idle" /\ j \in SessionId
      BY <3>4, <3>7, SolePool DEF Pooled
    <3>10. \A j \in Pooled' : Actual(j)' = "Idle" \/ j \in Evicting(t)'
      BY <2>1, <3>7, <3>8, <3>9
    <3> QED
      BY <3>5, <3>6, <3>10, NewPool
  <2> QED
    BY <1>3, <2>3, <2>4 DEF CleanupExpire, tableState
<1>4. CASE CleanupPoolRemove(t)
  <2> DEFINE g == [f EXCEPT !.at = "cleanup_record"]
  <2>1. /\ At(t, "cleanup_pool_remove") /\ UNCHANGED sessions /\ Goto(t, g)
        /\ RemoveSession(f.removed.id)
    BY <1>4 DEF CleanupPoolRemove, tableState
  <2>2. f \in ExpireFrame
    BY <2>1, TopFrame, FrameLocals
  <2>3. g.at = "cleanup_record"
    BY <2>2 DEF ExpireFrame
  <2>4. OnlyTask(t) /\ stack[t] # <<>> /\ Label(t) = "cleanup_pool_remove"
    BY <2>1, SoleTask
  <2> HIDE DEF g
  <2>5. OnlyTask(t)' /\ Label(t)' = "cleanup_record"
    BY <2>1, <2>3, <2>4, SoleGoto
  <2>6. Served(t)'
    BY <2>5, ServedElsewhere DEF StatusSteps, Updated
  <2>7. PICK i : i = f.removed.id
    OBVIOUS
  <2>8. Evicting(t) \subseteq {i} /\ Pooled' = Pooled \ {i}
    BY <2>1, <2>4, <2>7, PoolMoves DEF Evicting
  <2> QED
    BY <2>1, <2>4, <2>5, <2>6, <2>8, PoolEvicts
<1>5. CASE CleanupRecord(t)
  <2>1. /\ At(t, "cleanup_record") /\ Pooled' = Pooled /\ IdleStays
        /\ Goto(t, [at |-> "cleanup", snapshot |-> f.snapshot])
    BY <1>1, <1>5 DEF CleanupRecord, tableState, poolState
  <2> QED
    BY <1>2, <2>1 DEF EvictionSteps, StatusSteps, Updated
<1>6. CASE CleanupSweep(t)
  <2>1. /\ At(t, "cleanup") /\ Pooled' = Pooled /\ IdleStays
        /\ Goto(t, [at |-> "cleanup_sweep"])
    BY <1>1, <1>6 DEF CleanupSweep, CleanupScan, tableState
  <2> QED
    BY <1>2, <2>1 DEF EvictionSteps, StatusSteps, Updated
<1>7. CASE CleanupSweepStep(t)
  <2>1. At(t, "cleanup_sweep") /\ IdleStays
    BY <1>1, <1>7 DEF CleanupSweepStep, tableState
  <2>2. Pooled' \subseteq Pooled
    BY <1>1, <1>7, PoolMoves DEF CleanupSweepStep, CleanupRemove, poolState
  <2>3. CASE UNCHANGED stack
    <3>1. OnlyTask(t) /\ Label(t) = "cleanup_sweep"
      BY <2>1, SoleTask
    <3>2. OnlyTask(t)' /\ Label(t)' = "cleanup_sweep"
      BY <2>3, <3>1 DEF OnlyTask, Label, Top
    <3>3. Served(t)'
      BY <3>2, ServedElsewhere DEF StatusSteps, Updated
    <3> QED
      BY <2>1, <2>2, <3>1, <3>2, <3>3, PoolRests DEF EvictionSteps
  <2>4. CASE \E ok, i : Return(t, ok, i)
    BY <2>1, <2>2, <2>4, PoolReturn DEF EvictionSteps
  <2> QED
    BY <1>7, <2>3, <2>4, Zenon DEF CleanupSweepStep
<1> QED
  BY <1>3, <1>4, <1>5, <1>6, <1>7 DEF Cleanup

\* The frames of calls from outside.
EntryFrame(f) ==
    \/ f.at \notin StatusSteps \cup {"close_unregister"}
    \/ f.at = "status_get" /\ f.status \in PoolStatuses

\* A call that finds nobody in a method.
LEMMA PoolEnters ==
    ASSUME ManagerTypeOK, PoolShape, PoolSerialInv, NEW t \in Task, NEW f, Enters(t, f),
           ~disturbed', UNCHANGED <<sessions, pool_metadata>>,
           EntryFrame(f)
    PROVE  PoolSerialInv'
<1>1. /\ ~disturbed /\ \A u \in Task : stack[u] = <<>>
      /\ OnlyTask(t)' /\ Label(t)' = f.at /\ Top(t)' = f /\ Tail(stack'[t]) = <<>>
  BY SoleEnters DEF ManagerTypeOK
<1>2. OnlyTask(t) /\ Label(t) = "idle"
  BY <1>1 DEF OnlyTask, Label
<1>3. Served(t)'
  BY <1>1 DEF Served, EntryFrame, StatusSteps, Updated
<1>4. Pooled' = Pooled /\ IdleStays
  BY PoolMoves DEF IdleStays, Actual, Registered
<1> QED
  BY <1>1, <1>2, <1>3, <1>4, PoolRests DEF EvictionSteps

\* Every step keeps the pool in order, as long as calls do not overlap and the
\* callers set statuses that have a rule for the pool.
LEMMA PoolKept ==
    ASSUME Statuses \subseteq PoolStatuses, ManagerTypeOK, IdsDistinct, FiledUnderId, Connecting,
           PoolShape, SerialInv, PoolSerialInv, [ManagerNext]_managerVars
    PROVE  PoolSerialInv'
<1> SUFFICES ASSUME ~disturbed' PROVE PoolSerialInv'
  BY DEF PoolSerialInv
<1>1. ASSUME NEW t \in Task, CallManager(t) PROVE PoolSerialInv'
  <2>1. ASSUME NEW f, Begin(t, f), EntryFrame(f) PROVE PoolSerialInv'
    BY <2>1, PoolEnters DEF Begin, tableState, poolState
  <2>2. /\ \A n, k : /\ EntryFrame(CreateFrame(n, k))
                     /\ EntryFrame([at |-> "connect_or_create", name |-> n, key |-> k])
        /\ \A i : \A status \in Statuses : EntryFrame(UpdateStatusFrame(i, status))
        /\ \A i : EntryFrame(UseFrame(i)) /\ EntryFrame(CloseFrame(i))
        /\ \A m : EntryFrame([at |-> "update_metadata", metadata |-> m])
    BY DEF EntryFrame, CreateFrame, UpdateStatusFrame, UseFrame, CloseFrame, StatusSteps, Updated
  <2> QED
    BY <1>1, <2>1, <2>2 DEF CallManager
<1>2. ASSUME NEW t \in Task, CleanupStart(t) PROVE PoolSerialInv'
  <2> DEFINE f == [at |-> "cleanup", snapshot |-> {sessions[i] : i \in Registered}]
  <2>1. f.at = "cleanup" /\ Enters(t, f) /\ UNCHANGED <<sessions, pool_metadata>>
    BY <1>2 DEF CleanupStart, tableState, poolState
  <2>2. EntryFrame(f)
    BY <2>1 DEF EntryFrame, StatusSteps, Updated
  <2> HIDE DEF f
  <2> QED
    BY <2>1, <2>2, PoolEnters
<1>3. ASSUME NEW t \in Task, ManagerStep(t) \/ (Cleanup(t) /\ ~CleanupStart(t))
      PROVE  ~disturbed
  BY <1>3, MethodsKeepQuiet
<1>4. ASSUME NEW t \in Task, ManagerStep(t) PROVE PoolSerialInv'
  BY <1>3, <1>4, PoolUpdateStatus, PoolMethods DEF ManagerStep
<1>5. ASSUME NEW t \in Task, Cleanup(t), ~CleanupStart(t) PROVE PoolSerialInv'
  BY <1>3, <1>5, PoolCleanup
<1>6. CASE ManagerClockStep \/ UNCHANGED managerVars
  <2>1. UNCHANGED <<sessions, pool_metadata, adding, stack, ret, disturbed>>
    BY <1>6 DEF ManagerClockStep, managerVars, tableState, poolState
  <2> QED
    BY <2>1 DEF PoolSerialInv, PoolServed, Served, Evicting, Pooled, Label, Top, Actual, Registered
<1> QED
  BY <1>1, <1>2, <1>4, <1>5, <1>6 DEF ManagerNext

\* Between calls the pool holds only registered idle sessions, whatever sequence of
\* calls came before, as long as no two overlapped and the callers set only
\* statuses for which update_session_status has a rule for the pool.  It has none
\* for the others: a pooled session that is set to Reconnecting, say, stays pooled.
\* (The daemon's handler sets Connecting, for sessions it has just created only.)
THEOREM PooledAlwaysIdle ==
    ASSUME Statuses \subseteq PoolStatuses
    PROVE  ManagerSpec => []PooledIsIdle
<1>1. ManagerInit => PoolShape /\ PoolSerialInv
  <2> SUFFICES ASSUME ManagerInit PROVE PoolShape /\ PoolSerialInv
    OBVIOUS
  <2>1. PoolShape /\ Pooled = {}
    BY DEF ManagerInit, PoolInit, PoolShape, Pooled
  <2>2. \A t \in Task : Label(t) = "idle"
    BY DEF ManagerInit, Label
  <2> QED
    BY <2>1, <2>2 DEF PoolSerialInv, PoolServed, Served, StatusSteps, Updated
<1>2. PoolShape /\ [ManagerNext]_managerVars => PoolShape'
  BY PoolShapeKept
<1>3. ManagerTypeOK /\ IdsDistinct /\ FiledUnderId /\ Connecting /\ PoolShape /\ SerialInv
      /\ PoolSerialInv /\ [ManagerNext]_managerVars => PoolSerialInv'
  BY PoolKept
<1>4. PoolSerialInv => PooledIsIdle
  <2> SUFFICES ASSUME PoolSerialInv, Quiescent, ~disturbed, NEW i \in Pooled
               PROVE  i \in InStatus("Idle")
    BY DEF PooledIsIdle
  <2>1. \A t \in Task : Evicting(t) = {}
    BY DEF Quiescent, Evicting, Label
  <2>2. Actual(i) = "Idle"
    BY <2>1 DEF PoolSerialInv, PoolServed
  <2> QED
    BY <2>2 DEF Actual, InStatus
<1> QED
  BY <1>1, <1>2, <1>3, <1>4, BooksAlwaysKept, ManagerTypeCorrect, ManagerSessions,
     ManagerImplementsTable, TableFiledUnderId, PTL DEF ManagerSpec
=============================================================================
