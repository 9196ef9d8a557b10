---------------------------- MODULE RemoteProofs ----------------------------
(* What the remote server and its connection to the client promise, for any *)
(* number of ports, connections, chunks, client tasks and messages: the     *)
(* events of a connection come in order, its end is reported, and the       *)
(* polling loop gets them all (PortForward, RemoteProtocol); the channel    *)
(* under the protocol hands over whole messages in order (MessageChannel).  *)
EXTENDS RemoteProtocol, MessageChannel, SequenceFacts, FiniteSetTheorems, TLAPS

-----------------------------------------------------------------------------
(* Counting events.                                                        *)

\* The positions of a kind of event in a sequence are finitely many.
LEMMA CountType ==
    ASSUME NEW s \in Seq(EventKind), NEW kind
    PROVE  /\ IsFiniteSet({n \in DOMAIN s : s[n] = kind})
           /\ Count(kind, s) \in Nat
<1>1. IsFiniteSet(1..Len(s))
  BY FS_Interval
<1>2. {n \in DOMAIN s : s[n] = kind} \subseteq 1..Len(s)
  OBVIOUS
<1>3. IsFiniteSet({n \in DOMAIN s : s[n] = kind})
  BY <1>1, <1>2, FS_Subset
<1> QED
  BY <1>3, FS_CardinalityType DEF Count

\* Appending an event adds one to the count of its kind and leaves the others.
LEMMA CountAppend ==
    ASSUME NEW s \in Seq(EventKind), NEW kind \in EventKind, NEW new \in EventKind
    PROVE  Count(kind, Append(s, new)) = Count(kind, s) + IF new = kind THEN 1 ELSE 0
<1> DEFINE at == {n \in DOMAIN s : s[n] = kind}
           t == Append(s, new)
<1>1. /\ Len(t) = Len(s) + 1 /\ DOMAIN t = 1..(Len(s) + 1) /\ DOMAIN s = 1..Len(s)
      /\ \A n \in 1..Len(s) : t[n] = s[n]
      /\ t[Len(s) + 1] = new
  OBVIOUS
<1>2. {n \in DOMAIN t : t[n] = kind} = IF new = kind THEN at \cup {Len(s) + 1} ELSE at
  <2> HIDE DEF t
  <2> QED
    BY <1>1
<1>3. IsFiniteSet(at) /\ Cardinality(at) \in Nat
  BY CountType, Zenon DEF Count
<1>4. Len(s) + 1 \notin at
  BY <1>1
<1>5. Cardinality(at \cup {Len(s) + 1}) = Cardinality(at) + 1
  BY <1>3, <1>4, FS_AddElement
<1>6. Count(kind, t) = Cardinality(IF new = kind THEN at \cup {Len(s) + 1} ELSE at)
  BY <1>2, Zenon DEF Count
<1>7. Count(kind, s) = Cardinality(at)
  BY Zenon DEF Count
<1> HIDE DEF at, t
<1>8. Count(kind, t) = Count(kind, s) + IF new = kind THEN 1 ELSE 0
  BY <1>3, <1>5, <1>6, <1>7
<1> QED
  BY <1>8 DEF t

\* Nothing has happened yet.
LEMMA CountNone == ASSUME NEW kind PROVE Count(kind, <<>>) = 0
<1>1. {n \in DOMAIN <<>> : <<>>[n] = kind} = {}
  OBVIOUS
<1> QED
  BY <1>1, FS_EmptySet DEF Count

-----------------------------------------------------------------------------
\* How far a connection's task is says what has been reported of it.  h is its
\* history, t its task, and the flags say whether it is in the map of senders
\* and whether a stop request has cut it.
Phases(begun, t, active, was_cut) ==
    /\ t \in {"none", "accepted"} <=> ~begun
    /\ active <=> t \in InHandler /\ ~was_cut
    /\ was_cut => t \in InHandler \cup {"removed", "done"}

Positions(h, t, was_cut) ==
    /\ \A n \in DOMAIN h : h[n] = "New" <=> n = 1
    /\ ~was_cut /\ t # "done" => \A n \in DOMAIN h : h[n] # "Close"
    /\ ~was_cut => \A n \in DOMAIN h : h[n] = "Close" => n = Len(h)

Closes(t, was_cut) == (IF was_cut THEN 1 ELSE 0) + (IF t = "done" THEN 1 ELSE 0)

Reported(h, t, active, was_cut) ==
    /\ h \in Seq(EventKind)
    /\ Phases(h # <<>>, t, active, was_cut)
    /\ Positions(h, t, was_cut)
    /\ Count("Close", h) = Closes(t, was_cut)

ForwardInv ==
    /\ next_connection_id \in Nat \ {0}
    /\ task \in [ConnectionId -> TaskPhase]
    /\ history \in [ConnectionId -> Seq(EventKind)]
    /\ active_connections \subseteq ConnectionId
    /\ \A i \in ConnectionId : i >= next_connection_id => task[i] = "none"
    /\ \A i \in ConnectionId :
          Reported(history[i], task[i], i \in active_connections, i \in cut)

\* Nothing is reported of a connection that is not there.
LEMMA NothingReported == Reported(<<>>, "none", FALSE, FALSE)
BY CountNone DEF Reported, Phases, Positions, Closes, TaskPhase, InHandler

\* The invariant holds at first.
LEMMA ForwardInitially == ASSUME ForwardInit PROVE ForwardInv
<1>1. \A i \in ConnectionId : Reported(history[i], task[i], i \in active_connections, i \in cut)
  <2>1. ASSUME NEW i \in ConnectionId
        PROVE  /\ history[i] = <<>> /\ task[i] = "none"
               /\ (i \in active_connections) = FALSE /\ (i \in cut) = FALSE
    BY <2>1 DEF ForwardInit
  <2> QED
    BY <2>1, NothingReported, Zenon
<1> QED
  BY <1>1 DEF ForwardInit, ForwardInv, TaskPhase

\* A step of one connection's task that keeps what is reported of it keeps the
\* invariant.
LEMMA OneConnection ==
    ASSUME ForwardInv, NEW i \in ConnectionId, NEW t \in TaskPhase, NEW h \in Seq(EventKind),
           task' = [task EXCEPT ![i] = t], history' = [history EXCEPT ![i] = h],
           next_connection_id' \in Nat \ {0}, next_connection_id' >= next_connection_id,
           i >= next_connection_id' => t = "none",
           active_connections' \subseteq ConnectionId,
           \A j \in ConnectionId \ {i} :
              (j \in active_connections)' = (j \in active_connections),
           UNCHANGED cut,
           Reported(h, t, (i \in active_connections)', i \in cut)
    PROVE  ForwardInv'
<1>1. /\ task' \in [ConnectionId -> TaskPhase] /\ history' \in [ConnectionId -> Seq(EventKind)]
      /\ task'[i] = t /\ history'[i] = h
      /\ \A j \in ConnectionId \ {i} : task'[j] = task[j] /\ history'[j] = history[j]
  BY DEF ForwardInv
<1>2. \A j \in ConnectionId : j >= next_connection_id' => task'[j] = "none"
  BY <1>1 DEF ForwardInv, ConnectionId
<1>3. ASSUME NEW j \in ConnectionId
      PROVE  Reported(history'[j], task'[j], (j \in active_connections)', j \in cut)
  <2>1. CASE j = i
    BY <1>1, <2>1, Zenon
  <2>2. CASE j # i
    <3>1. /\ history'[j] = history[j] /\ task'[j] = task[j]
          /\ (j \in active_connections)' = (j \in active_connections)
      BY <1>1, <2>2
    <3> QED
      BY <3>1, Zenon DEF ForwardInv
  <2> QED
    BY <2>1, <2>2
<1> QED
  BY <1>1, <1>2, <1>3, Zenon DEF ForwardInv

\* So does a step of an accepted connection's task, which leaves the others' places
\* in the map alone.
LEMMA TaskMoves ==
    ASSUME ForwardInv, NEW i \in ConnectionId, NEW t \in TaskPhase, NEW h, NEW active,
           task[i] # "none",
           task' = [task EXCEPT ![i] = t], history' = [history EXCEPT ![i] = h],
           UNCHANGED <<next_connection_id, cut>>,
           active_connections' \cup {i} = active_connections \cup {i},
           (i \in active_connections)' = active,
           Reported(h, t, active, i \in cut)
    PROVE  ForwardInv'
<1>1. h \in Seq(EventKind)
  BY DEF Reported
<1>2. /\ active_connections' \subseteq ConnectionId
      /\ \A j \in ConnectionId \ {i} : (j \in active_connections)' = (j \in active_connections)
  BY DEF ForwardInv
<1>3. next_connection_id' \in Nat \ {0} /\ next_connection_id' >= next_connection_id
  BY DEF ForwardInv
<1>4. i >= next_connection_id' => t = "none"
  BY DEF ForwardInv
<1>5. Reported(h, t, (i \in active_connections)', i \in cut)
  BY Zenon
<1>6. UNCHANGED cut
  OBVIOUS
<1> QED
  BY <1>1, <1>2, <1>3, <1>4, <1>5, <1>6, OneConnection, Zenon

\* What an appended event does to a history.
LEMMA AppendEvent ==
    ASSUME NEW h \in Seq(EventKind), NEW kind \in EventKind
    PROVE  LET g == Append(h, kind) IN
           /\ g \in Seq(EventKind) /\ g # <<>> /\ Len(h) \in Nat
           /\ Len(g) = Len(h) + 1 /\ DOMAIN g = 1..(Len(h) + 1) /\ DOMAIN h = 1..Len(h)
           /\ \A n \in 1..Len(h) : g[n] = h[n]
           /\ g[Len(h) + 1] = kind
           /\ h # <<>> => Len(h) > 0
           /\ h = <<>> => Len(h) = 0
           /\ Count("Close", h) \in Nat
           /\ Count("Close", g) = Count("Close", h) + IF kind = "Close" THEN 1 ELSE 0
<1>1. /\ Append(h, kind) \in Seq(EventKind) /\ Len(h) \in Nat
      /\ Len(Append(h, kind)) = Len(h) + 1 /\ DOMAIN Append(h, kind) = 1..(Len(h) + 1)
      /\ DOMAIN h = 1..Len(h)
      /\ \A n \in 1..Len(h) : Append(h, kind)[n] = h[n]
      /\ Append(h, kind)[Len(h) + 1] = kind
      /\ h # <<>> => Len(h) > 0
      /\ h = <<>> => Len(h) = 0
  OBVIOUS
<1>2. Append(h, kind) # <<>>
  BY <1>1
<1>3. "Close" \in EventKind
  BY DEF EventKind
<1>4. Count("Close", h) \in Nat
  BY CountType
<1>5. Count("Close", Append(h, kind)) = Count("Close", h) + IF kind = "Close" THEN 1 ELSE 0
  BY <1>3, CountAppend
<1> QED
  BY <1>1, <1>2, <1>4, <1>5, Zenon

\* The steps of a task, and a stop request, keep what is reported in line with
\* how far the task is.
LEMMA ReportedAnnounce ==
    ASSUME NEW h, NEW active, NEW was_cut, Reported(h, "accepted", active, was_cut)
    PROVE  Reported(Append(h, "New"), "connecting", active, was_cut)
<1> DEFINE g == Append(h, "New")
<1>1. h \in Seq(EventKind) /\ "New" \in EventKind /\ h = <<>> /\ ~was_cut /\ ~active
  BY DEF Reported, Phases, InHandler, EventKind
<1>2. /\ g \in Seq(EventKind) /\ g # <<>> /\ Len(h) = 0
      /\ Len(g) = Len(h) + 1 /\ DOMAIN g = 1..(Len(h) + 1) /\ g[Len(h) + 1] = "New"
  BY <1>1, AppendEvent
<1>3. Count("Close", h) \in Nat
  BY <1>1, AppendEvent
<1>4. Count("Close", g) = Count("Close", h) + IF "New" = "Close" THEN 1 ELSE 0
  BY <1>1, AppendEvent, Zenon
<1> HIDE DEF g
<1>5. Phases(g # <<>>, "connecting", active, was_cut)
  BY <1>1, <1>2 DEF Phases, InHandler
<1>6. Positions(g, "connecting", was_cut)
  BY <1>1, <1>2 DEF Positions
<1>7. Count("Close", g) = Closes("connecting", was_cut)
  BY <1>1, <1>3, <1>4 DEF Closes, Reported
<1>8. Reported(g, "connecting", active, was_cut)
  BY <1>2, <1>5, <1>6, <1>7 DEF Reported
<1> QED
  BY <1>8 DEF g

\* Events after the first.
LEMMA ReportedAppend ==
    ASSUME NEW h, NEW t, NEW active, NEW was_cut, Reported(h, t, active, was_cut),
           t \notin {"none", "accepted"}
    PROVE  /\ t \in {"connecting", "removed"}
              => Reported(Append(h, "Close"), "done", active, was_cut)
           /\ t = "relaying" => Reported(Append(h, "Data"), "open", active, was_cut)
           /\ active => Reported(Append(h, "Close"), t, FALSE, TRUE)
<1>1. h \in Seq(EventKind) /\ "Close" \in EventKind /\ "Data" \in EventKind /\ h # <<>>
  BY DEF Reported, Phases, InHandler, EventKind
<1>2. ASSUME NEW kind \in {"Close", "Data"}, NEW g, g = Append(h, kind)
      PROVE  /\ g \in Seq(EventKind) /\ g # <<>> /\ Len(h) \in Nat /\ Len(h) > 0
             /\ Len(g) = Len(h) + 1 /\ DOMAIN g = 1..(Len(h) + 1) /\ DOMAIN h = 1..Len(h)
             /\ \A n \in 1..Len(h) : g[n] = h[n]
             /\ g[Len(h) + 1] = kind
             /\ Count("Close", h) \in Nat
             /\ Count("Close", g) = Count("Close", h) + IF kind = "Close" THEN 1 ELSE 0
  BY <1>1, <1>2, AppendEvent
<1>3. ASSUME NEW g, g = Append(h, "Close"), t \in {"connecting", "removed"}
      PROVE  Reported(g, "done", active, was_cut)
  <2>1. /\ g \in Seq(EventKind) /\ g # <<>> /\ Len(h) \in Nat /\ Len(h) > 0
        /\ Len(g) = Len(h) + 1 /\ DOMAIN g = 1..(Len(h) + 1) /\ DOMAIN h = 1..Len(h)
        /\ \A n \in 1..Len(h) : g[n] = h[n]
        /\ g[Len(h) + 1] = "Close"
    BY <1>2, <1>3
  <2>2. /\ Count("Close", h) \in Nat /\ Count("Close", h) = Closes(t, was_cut)
        /\ Count("Close", g) = Count("Close", h) + IF "Close" = "Close" THEN 1 ELSE 0
    BY <1>2, <1>3 DEF Reported
  <2>3. Phases(g # <<>>, "done", active, was_cut)
    BY <1>1, <1>3, <2>1 DEF Reported, Phases, InHandler
  <2>4. Positions(g, "done", was_cut)
    BY <1>3, <2>1 DEF Reported, Phases, InHandler, Positions
  <2>5. Count("Close", g) = Closes("done", was_cut)
    BY <1>3, <2>2 DEF Reported, Phases, InHandler, Closes
  <2> QED
    BY <2>1, <2>3, <2>4, <2>5 DEF Reported
<1>4. ASSUME NEW g, g = Append(h, "Data"), t = "relaying"
      PROVE  Reported(g, "open", active, was_cut)
  <2>1. /\ g \in Seq(EventKind) /\ g # <<>> /\ Len(h) \in Nat /\ Len(h) > 0
        /\ Len(g) = Len(h) + 1 /\ DOMAIN g = 1..(Len(h) + 1) /\ DOMAIN h = 1..Len(h)
        /\ \A n \in 1..Len(h) : g[n] = h[n]
        /\ g[Len(h) + 1] = "Data"
    BY <1>2, <1>4
  <2>2. /\ Count("Close", h) \in Nat /\ Count("Close", h) = Closes(t, was_cut)
        /\ Count("Close", g) = Count("Close", h) + IF "Data" = "Close" THEN 1 ELSE 0
    BY <1>2, <1>4 DEF Reported
  <2>3. Phases(g # <<>>, "open", active, was_cut)
    BY <1>1, <1>4, <2>1 DEF Reported, Phases, InHandler
  <2>4. Positions(g, "open", was_cut)
    BY <1>4, <2>1 DEF Reported, Phases, InHandler, Positions
  <2>5. Count("Close", g) = Closes("open", was_cut)
    BY <1>4, <2>2 DEF Reported, Phases, InHandler, Closes
  <2> QED
    BY <2>1, <2>3, <2>4, <2>5 DEF Reported
<1>5. ASSUME NEW g, g = Append(h, "Close"), active
      PROVE  Reported(g, t, FALSE, TRUE)
  <2>1. /\ g \in Seq(EventKind) /\ g # <<>> /\ Len(h) \in Nat /\ Len(h) > 0
        /\ Len(g) = Len(h) + 1 /\ DOMAIN g = 1..(Len(h) + 1) /\ DOMAIN h = 1..Len(h)
        /\ \A n \in 1..Len(h) : g[n] = h[n]
        /\ g[Len(h) + 1] = "Close"
    BY <1>2, <1>5
  <2>2. /\ Count("Close", h) \in Nat /\ Count("Close", h) = Closes(t, was_cut)
        /\ Count("Close", g) = Count("Close", h) + IF "Close" = "Close" THEN 1 ELSE 0
    BY <1>2, <1>5 DEF Reported
  <2>3. Phases(g # <<>>, t, FALSE, TRUE)
    BY <1>1, <1>5, <2>1 DEF Reported, Phases, InHandler
  <2>4. Positions(g, t, TRUE)
    BY <1>5, <2>1 DEF Reported, Phases, InHandler, Positions
  <2>5. Count("Close", g) = Closes(t, TRUE)
    BY <1>5, <2>2 DEF Reported, Phases, InHandler, Closes
  <2> QED
    BY <2>1, <2>3, <2>4, <2>5 DEF Reported
<1> QED
  BY <1>3, <1>4, <1>5

\* Steps of a task that report nothing.
LEMMA ReportedSilent ==
    ASSUME NEW h, NEW active, NEW was_cut
    PROVE  /\ Reported(h, "none", active, was_cut) => Reported(h, "accepted", active, was_cut)
           /\ Reported(h, "connecting", active, was_cut) => Reported(h, "open", TRUE, was_cut)
           /\ Reported(h, "leaving", active, was_cut) => Reported(h, "removed", FALSE, was_cut)
BY DEF Reported, Phases, InHandler, Positions, Closes

\* Nor does anything in the loop of handle_connection but data from the target.
LEMMA ReportedInHandler ==
    ASSUME NEW h, NEW active, NEW was_cut, NEW t \in InHandler, NEW u \in InHandler,
           Reported(h, t, active, was_cut)
    PROVE  Reported(h, u, active, was_cut)
BY DEF Reported, Phases, InHandler, Positions, Closes

-----------------------------------------------------------------------------
\* Every step of the remote server's tasks and requests keeps the invariant.
LEMMA ForwardKept == ASSUME ForwardInv, [ForwardNext]_forwardVars PROVE ForwardInv'
<1> USE DEF TaskPhase, connectionState, ports, buffer
<1>0. ASSUME NEW i \in ConnectionId
      PROVE  /\ history[i] \in Seq(EventKind)
             /\ Reported(history[i], task[i], i \in active_connections, i \in cut)
             /\ task[i] # "none" => ~(i >= next_connection_id)
             /\ next_connection_id \in Nat \ {0} /\ i \in Nat
             /\ history \in [ConnectionId -> Seq(EventKind)]
             /\ task \in [ConnectionId -> TaskPhase]
             /\ active_connections \subseteq ConnectionId
  BY ForwardAssumption DEF ForwardInv, ConnectionId
<1>1. ASSUME NEW p, AcceptForward(p) PROVE ForwardInv'
  <2> DEFINE i == next_connection_id
  <2>1. i \in ConnectionId /\ task[i] = "none"
    BY <1>1, ForwardAssumption DEF AcceptForward, ForwardInv, ConnectionId
  <2>2. /\ task' = [task EXCEPT ![i] = "accepted"] /\ next_connection_id' = i + 1
        /\ UNCHANGED <<history, active_connections, cut>>
    BY <1>1 DEF AcceptForward
  <2>3. history' = [history EXCEPT ![i] = history[i]]
    BY <1>0, <2>1, <2>2
  <2>4. Reported(history[i], "accepted", i \in active_connections, i \in cut)
    BY <1>0, <2>1, ReportedSilent
  <2>5. i + 1 \in Nat \ {0} /\ i + 1 >= i /\ ~(i >= i + 1) /\ history[i] \in Seq(EventKind)
    BY <1>0, <2>1
  <2> QED
    BY <2>1, <2>2, <2>3, <2>4, <2>5, OneConnection DEF ForwardInv
<1>2. ASSUME NEW i \in ConnectionId, Announce(i) PROVE ForwardInv'
  <2>1. /\ task[i] = "accepted" /\ task' = [task EXCEPT ![i] = "connecting"]
        /\ history' = [history EXCEPT ![i] = Append(history[i], "New")]
        /\ UNCHANGED <<next_connection_id, cut>>
        /\ active_connections' \cup {i} = active_connections \cup {i}
        /\ (i \in active_connections)' = (i \in active_connections)
    BY <1>0, <1>2 DEF Announce, AddNewConnection, AddItem
  <2>2. Reported(Append(history[i], "New"), "connecting", i \in active_connections, i \in cut)
    BY <1>0, <2>1, ReportedAnnounce
  <2> QED
    BY <2>1, <2>2, TaskMoves
<1>3. ASSUME NEW i \in ConnectionId, ConnectTarget(i) PROVE ForwardInv'
  <2>1. /\ task[i] = "connecting" /\ task' = [task EXCEPT ![i] = "open"]
        /\ history' = [history EXCEPT ![i] = history[i]]
        /\ UNCHANGED <<next_connection_id, cut>>
        /\ active_connections' \cup {i} = active_connections \cup {i}
        /\ (i \in active_connections)' = (TRUE)
    BY <1>0, <1>3 DEF ConnectTarget
  <2>2. Reported(history[i], "open", TRUE, i \in cut)
    BY <1>0, <2>1, ReportedSilent
  <2> QED
    BY <2>1, <2>2, TaskMoves
<1>4. ASSUME NEW i \in ConnectionId, ConnectTargetFails(i) PROVE ForwardInv'
  <2>1. /\ task[i] = "connecting" /\ task' = [task EXCEPT ![i] = "done"]
        /\ history' = [history EXCEPT ![i] = Append(history[i], "Close")]
        /\ UNCHANGED <<next_connection_id, cut>>
        /\ active_connections' \cup {i} = active_connections \cup {i}
        /\ (i \in active_connections)' = (i \in active_connections)
    BY <1>0, <1>4 DEF ConnectTargetFails, AddCloseConnection, AddItem
  <2>2. Reported(Append(history[i], "Close"), "done", i \in active_connections, i \in cut)
    BY <1>0, <2>1, ReportedAppend
  <2> QED
    BY <2>1, <2>2, TaskMoves
<1>5. ASSUME NEW i \in ConnectionId, task[i] = "relaying", WriteDone(i) PROVE ForwardInv'
  <2>1. /\ task' = [task EXCEPT ![i] = "open"]
        /\ history' = [history EXCEPT ![i] = Append(history[i], "Data")]
        /\ UNCHANGED <<next_connection_id, cut>>
        /\ active_connections' \cup {i} = active_connections \cup {i}
        /\ (i \in active_connections)' = (i \in active_connections)
    BY <1>0, <1>5 DEF WriteDone, AddPortForwardData, AddItem
  <2>2. Reported(Append(history[i], "Data"), "open", i \in active_connections, i \in cut)
    BY <1>0, <1>5, ReportedAppend
  <2> QED
    BY <1>5, <2>1, <2>2, TaskMoves
<1>6. ASSUME NEW i \in ConnectionId,
             \/ ReceiveBranch(i) \/ ReadClient(i) \/ ReadTarget(i) \/ StreamEnds(i)
             \/ WriteFails(i) \/ (task[i] = "writing" /\ WriteDone(i))
      PROVE  ForwardInv'
  <2>1. PICK u \in InHandler :
           /\ task[i] \in InHandler /\ task' = [task EXCEPT ![i] = u]
           /\ UNCHANGED <<history, next_connection_id, cut, active_connections>>
    BY <1>6 DEF ReceiveBranch, QueuedData, SenderDropped, StreamEnds, ReadClient, ReadTarget,
                WriteFails, WriteDone, InHandler
  <2>2. /\ history' = [history EXCEPT ![i] = history[i]]
        /\ active_connections' \cup {i} = active_connections \cup {i}
        /\ (i \in active_connections)' = (i \in active_connections)
    BY <1>0, <2>1
  <2>3. Reported(history[i], u, i \in active_connections, i \in cut)
    BY <1>0, <2>1, ReportedInHandler
  <2>4. u \in TaskPhase /\ task[i] # "none"
    BY <2>1 DEF InHandler
  <2> QED
    BY <2>1, <2>2, <2>3, <2>4, TaskMoves
<1>7. ASSUME NEW i \in ConnectionId, RemoveConnection(i) PROVE ForwardInv'
  <2>1. /\ task[i] = "leaving" /\ task' = [task EXCEPT ![i] = "removed"]
        /\ history' = [history EXCEPT ![i] = history[i]]
        /\ UNCHANGED <<next_connection_id, cut>>
        /\ active_connections' \cup {i} = active_connections \cup {i}
        /\ (i \in active_connections)' = (FALSE)
    BY <1>0, <1>7 DEF RemoveConnection
  <2>2. Reported(history[i], "removed", FALSE, i \in cut)
    BY <1>0, <2>1, ReportedSilent
  <2> QED
    BY <2>1, <2>2, TaskMoves
<1>8. ASSUME NEW i \in ConnectionId, ReportClosed(i) PROVE ForwardInv'
  <2>1. /\ task[i] = "removed" /\ task' = [task EXCEPT ![i] = "done"]
        /\ history' = [history EXCEPT ![i] = Append(history[i], "Close")]
        /\ UNCHANGED <<next_connection_id, cut>>
        /\ active_connections' \cup {i} = active_connections \cup {i}
        /\ (i \in active_connections)' = (i \in active_connections)
    BY <1>0, <1>8 DEF ReportClosed, AddCloseConnection, AddItem
  <2>2. Reported(Append(history[i], "Close"), "done", i \in active_connections, i \in cut)
    BY <1>0, <2>1, ReportedAppend
  <2> QED
    BY <2>1, <2>2, TaskMoves
<1>9. ASSUME NEW p, StopPortForward(p) PROVE ForwardInv'
  <2>1. /\ history' = [i \in ConnectionId |-> IF i \in active_connections
                                              THEN Append(history[i], "Close")
                                              ELSE history[i]]
        /\ active_connections' = {} /\ cut' = cut \cup active_connections
        /\ UNCHANGED <<next_connection_id, task>>
    BY <1>9, Zenon DEF StopPortForward, AddCloseConnections
  <2>2. ASSUME NEW i \in ConnectionId
        PROVE  Reported(history'[i], task'[i], (i \in active_connections)', (i \in cut)')
    <3>1. CASE i \in active_connections
      <4>1. (i \in active_connections) = TRUE
        BY <3>1
      <4>2. Reported(history[i], task[i], TRUE, i \in cut)
        BY <1>0, <4>1, Zenon
      <4>3. task[i] \notin {"none", "accepted"}
        BY <4>2 DEF Reported, Phases, InHandler
      <4>4. Reported(Append(history[i], "Close"), task[i], FALSE, TRUE)
        BY <4>2, <4>3, ReportedAppend
      <4>5. /\ history'[i] = Append(history[i], "Close") /\ task'[i] = task[i]
            /\ (i \in active_connections)' = FALSE /\ (i \in cut)' = TRUE
        BY <2>1, <3>1
      <4> QED
        BY <4>4, <4>5, Zenon
    <3>2. CASE i \notin active_connections
      <4>1. (i \in active_connections) = FALSE
        BY <3>2
      <4>2. Reported(history[i], task[i], FALSE, i \in cut)
        BY <1>0, <4>1, Zenon
      <4>3. /\ history'[i] = history[i] /\ task'[i] = task[i]
            /\ (i \in active_connections)' = FALSE /\ (i \in cut)' = (i \in cut)
        BY <2>1, <3>2
      <4> QED
        BY <4>2, <4>3, Zenon
    <3> QED
      BY <3>1, <3>2
  <2>3. history' \in [ConnectionId -> Seq(EventKind)]
    BY <2>1, <2>2 DEF Reported
  <2> QED
    BY <2>1, <2>2, <2>3 DEF ForwardInv
<1>10. ASSUME UNCHANGED <<next_connection_id, task, active_connections, history, cut>>
       PROVE  ForwardInv'
  BY <1>10 DEF ForwardInv
<1>11. ASSUME NEW p, StartPortForward(p) \/ ListenerFails(p) PROVE ForwardInv'
  BY <1>10, <1>11 DEF StartPortForward, ListenerFails
<1>12. ASSUME TakeItems PROVE ForwardInv'
  BY <1>10, <1>12 DEF TakeItems
<1>13. ASSUME UNCHANGED forwardVars PROVE ForwardInv'
  BY <1>10, <1>13 DEF forwardVars
<1>14. ASSUME NEW i \in ConnectionId, ConnectionStep(i) PROVE ForwardInv'
  BY <1>2, <1>3, <1>4, <1>7, <1>8, <1>14 DEF ConnectionStep
<1>15. ASSUME NEW i \in ConnectionId, ReceiveBranch(i) \/ PeerStep(i) PROVE ForwardInv'
  BY <1>5, <1>6, <1>15 DEF PeerStep, WriteDone
<1>16. ASSUME ForwardingStep PROVE ForwardInv'
  BY <1>1, <1>11, <1>14, <1>15, <1>16 DEF ForwardingStep
<1>17. ASSUME NEW i \in ConnectionId, ForwardData(i) PROVE ForwardInv'
  BY <1>10, <1>17 DEF ForwardData
<1> QED
  BY <1>9, <1>11, <1>12, <1>13, <1>16, <1>17 DEF ForwardNext

\* The invariant gives the properties of PortForward.
LEMMA ForwardProperties ==
    ASSUME ForwardInv PROVE EventOrder /\ ClosedIsReported /\ ActiveIsOpen
<1>1. ASSUME NEW i \in ConnectionId
      PROVE  Reported(history[i], task[i], i \in active_connections, i \in cut)
  BY DEF ForwardInv
<1>2. EventOrder
  BY <1>1 DEF EventOrder, Reported, Positions, Closes
<1>3. ASSUME NEW i \in ConnectionId, task[i] = "done"
      PROVE  Count("New", history[i]) = 1 /\ Count("Close", history[i]) >= 1
  <2> DEFINE h == history[i]
  <2>1. h \in Seq(EventKind) /\ h # <<>> /\ \A n \in DOMAIN h : h[n] = "New" <=> n = 1
    BY <1>1, <1>3 DEF Reported, Phases, Positions
  <2>2. {n \in DOMAIN h : h[n] = "New"} = {1}
    <3>1. 1 \in DOMAIN h
      BY <2>1
    <3> HIDE DEF h
    <3> QED
      BY <2>1, <3>1
  <2>3. Count("New", h) = 1
    BY <2>2, FS_Singleton, Zenon DEF Count
  <2>4. Count("Close", h) >= 1
    BY <1>1, <1>3 DEF Reported, Closes
  <2> QED
    BY <2>3, <2>4
<1>4. ActiveIsOpen
  BY <1>1 DEF ForwardInv, ActiveIsOpen, Reported, Phases, InHandler
<1> QED
  BY <1>2, <1>3, <1>4 DEF ClosedIsReported

-----------------------------------------------------------------------------
\* The tasks and the requests on their own keep the invariant, fair or not.
THEOREM ForwardKeepsInv ==
    ForwardInit /\ [][ForwardNext]_forwardVars => []ForwardInv
<1>1. ForwardInit => ForwardInv
  BY ForwardInitially
<1>2. ForwardInv /\ [ForwardNext]_forwardVars => ForwardInv'
  BY ForwardKept
<1> QED
  BY <1>1, <1>2, PTL

-----------------------------------------------------------------------------
(* The channel's mutex.                                                    *)
Client == Caller \cup {Poller}

ValidRequest ==
    {r \in [kind : RequestKind, target : Port \cup ConnectionId \cup {None}] :
        /\ r.kind \in {"StartPortForward", "StopPortForward"} => r.target \in Port
        /\ r.kind = "PortForwardData" => r.target \in ConnectionId}

\* A client task queues exactly while it waits for an answer, and once; while the
\* server works on a request there is one.
QueueInv ==
    /\ queue \in Seq(Client)
    /\ wanting \in [Client -> ValidRequest \cup {None}]
    /\ \A m, n \in DOMAIN queue : queue[m] = queue[n] => m = n
    /\ \A c \in Client : wanting[c] # None <=> \E n \in DOMAIN queue : queue[n] = c
    /\ server \in {"handling", "waiting", "responding"} => queue # <<>>

\* A task that does not wait joins the queue.
LEMMA EnqueueKeeps ==
    ASSUME QueueInv, NEW c \in Client, NEW r \in ValidRequest, Enqueue(c, r)
    PROVE  QueueInv'
<1> DEFINE q == Append(queue, c)
<1>1. /\ queue' = q /\ wanting' = [wanting EXCEPT ![c] = r] /\ wanting[c] = None
      /\ server' = server
  BY DEF Enqueue
<1>2. /\ queue \in Seq(Client) /\ q \in Seq(Client) /\ Len(queue) \in Nat
      /\ DOMAIN q = 1..(Len(queue) + 1) /\ DOMAIN queue = 1..Len(queue)
      /\ \A n \in 1..Len(queue) : q[n] = queue[n]
      /\ q[Len(queue) + 1] = c
  BY DEF QueueInv
<1>3. q # <<>>
  BY <1>2
<1> HIDE DEF q
<1>4. r # None
  BY NoneIsNoRequest DEF ValidRequest
<1>5. \A n \in DOMAIN queue : queue[n] # c
  BY <1>1, <1>2 DEF QueueInv
<1>6. wanting' \in [Client -> ValidRequest \cup {None}]
  BY <1>1 DEF QueueInv
<1>7. \A m, n \in DOMAIN q : q[m] = q[n] => m = n
  BY <1>2, <1>5 DEF QueueInv
<1>8. \A d \in Client : wanting'[d] # None <=> \E n \in DOMAIN q : q[n] = d
  <2>1. ASSUME NEW d \in Client \ {c}
        PROVE  wanting'[d] # None <=> \E n \in DOMAIN q : q[n] = d
    <3>1. wanting'[d] = wanting[d]
      BY <1>1, <2>1 DEF QueueInv
    <3>2. (\E n \in DOMAIN q : q[n] = d) <=> \E n \in DOMAIN queue : queue[n] = d
      BY <1>2, <2>1
    <3> QED
      BY <3>1, <3>2 DEF QueueInv
  <2>2. wanting'[c] # None /\ \E n \in DOMAIN q : q[n] = c
    BY <1>1, <1>2, <1>4 DEF QueueInv
  <2> QED
    BY <2>1, <2>2
<1> QED
  BY <1>1, <1>2, <1>3, <1>6, <1>7, <1>8 DEF QueueInv

\* The holder of the channel leaves the queue with its answer or an error.
LEMMA ReleaseKeeps ==
    ASSUME QueueInv, Release, queue # <<>>, server' \notin {"handling", "waiting", "responding"}
    PROVE  QueueInv'
<1> DEFINE q == Tail(queue)
           c == Head(queue)
<1>1. queue' = q /\ wanting' = [wanting EXCEPT ![c] = None]
  BY DEF Release
<1>2. /\ queue \in Seq(Client) /\ q \in Seq(Client) /\ Len(queue) \in Nat \ {0}
      /\ DOMAIN q = 1..(Len(queue) - 1) /\ DOMAIN queue = 1..Len(queue)
      /\ \A n \in 1..(Len(queue) - 1) : q[n] = queue[n + 1]
      /\ c = queue[1] /\ c \in Client
  BY DEF QueueInv
<1> HIDE DEF q, c
<1>3. \A m \in 1..Len(queue), n \in 1..Len(queue) : queue[m] = queue[n] => m = n
  BY <1>2 DEF QueueInv
<1>4. wanting' \in [Client -> ValidRequest \cup {None}]
  BY <1>1, <1>2 DEF QueueInv
<1>5. \A m, n \in DOMAIN q : q[m] = q[n] => m = n
  BY <1>2, <1>3
<1>6. \A d \in Client : wanting'[d] # None <=> \E n \in DOMAIN q : q[n] = d
  <2>1. ASSUME NEW d \in Client \ {c}
        PROVE  wanting'[d] # None <=> \E n \in DOMAIN q : q[n] = d
    <3>1. wanting'[d] = wanting[d]
      BY <1>1, <2>1 DEF QueueInv
    <3>2. ASSUME NEW n \in DOMAIN queue, queue[n] = d PROVE \E m \in DOMAIN q : q[m] = d
      <4>1. n # 1
        BY <1>2, <2>1, <3>2
      <4>2. n - 1 \in DOMAIN q /\ q[n - 1] = d
        BY <1>2, <3>2, <4>1
      <4> QED
        BY <4>2
    <3>3. ASSUME NEW n \in DOMAIN q, q[n] = d PROVE \E m \in DOMAIN queue : queue[m] = d
      <4>1. n + 1 \in DOMAIN queue /\ queue[n + 1] = d
        BY <1>2, <3>3
      <4> QED
        BY <4>1
    <3> QED
      BY <3>1, <3>2, <3>3 DEF QueueInv
  <2>2. wanting'[c] = None /\ \A n \in DOMAIN q : q[n] # c
    <3>1. wanting'[c] = None
      BY <1>1, <1>2 DEF QueueInv
    <3>2. ASSUME NEW n \in DOMAIN q PROVE q[n] # c
      BY <1>2, <1>3, <3>2
    <3> QED
      BY <3>1, <3>2
  <2> QED
    BY <2>1, <2>2
<1> QED
  BY <1>1, <1>2, <1>4, <1>5, <1>6 DEF QueueInv

\* The client tasks and the server's loop keep it.
LEMMA QueueKept == ASSUME QueueInv, [ProtocolNext]_protocolVars PROVE QueueInv'
<1>1. ASSUME NEW c \in Caller, Call(c) PROVE QueueInv'
  <2>1. PICK r \in ValidRequest : Enqueue(c, r)
    <3>1. PICK kind \in Requests :
             \/ /\ kind \in {"StartPortForward", "StopPortForward"}
                /\ \E p \in Port : Enqueue(c, Request(kind, p))
             \/ /\ kind = "PortForwardData"
                /\ \E i \in ConnectionId : Enqueue(c, Request(kind, i))
             \/ /\ kind \in {"GetClipboard", "SetClipboard", "OpenBrowser"}
                /\ Enqueue(c, Request(kind, None))
      BY <1>1 DEF Call
    <3>2. kind \in RequestKind
      BY ProtocolAssumption
    <3>3. ASSUME NEW x \in Port \cup ConnectionId \cup {None},
                 \/ kind \in {"StartPortForward", "StopPortForward"} /\ x \in Port
                 \/ kind = "PortForwardData" /\ x \in ConnectionId
                 \/ kind \in {"GetClipboard", "SetClipboard", "OpenBrowser"}
          PROVE  Request(kind, x) \in ValidRequest
      BY <3>2, <3>3 DEF Request, ValidRequest
    <3> QED
      BY <3>1, <3>3
  <2> QED
    BY <2>1, EnqueueKeeps DEF Client
<1>2. ASSUME Poll PROVE QueueInv'
  <2>1. Request("PollData", None) \in ValidRequest
    BY DEF Request, ValidRequest, RequestKind
  <2> QED
    BY <1>2, <2>1, EnqueueKeeps DEF Poll, Client
<1>3. ASSUME ReceiveRequest PROVE QueueInv'
  BY <1>3 DEF ReceiveRequest, clientState, QueueInv
<1>4. ASSUME HandleRequest PROVE QueueInv'
  <2>1. UNCHANGED clientState
    BY <1>4, Zenon DEF HandleRequest, HandlePoll, WaitForData, HandleStart, HandleStop,
                       HandleForwardData, HandleGetClipboard, HandleLocal, Respond
  <2>2. server \in {"handling", "waiting"}
    BY <1>4 DEF HandleRequest, HandlePoll, WaitForData, HandleStart, HandleStop,
                HandleForwardData, HandleGetClipboard, HandleLocal, Handling
  <2> QED
    BY <2>1, <2>2 DEF clientState, QueueInv
<1>5. ASSUME SendOverflows \/ ChannelFails PROVE QueueInv'
  BY <1>5 DEF SendOverflows, ChannelFails, clientState, QueueInv
<1>6. ASSUME ReceiveResponse PROVE QueueInv'
  <2>1. server = "responding" /\ server' = "receiving" /\ Release
    BY <1>6, Zenon DEF ReceiveResponse
  <2> QED
    BY <2>1, ReleaseKeeps DEF QueueInv
<1>7. ASSUME ReceiveError PROVE QueueInv'
  <2>1. /\ server \in {"closed", "overflowed"} /\ server' = server
        /\ queue # <<>> /\ Release
    BY <1>7 DEF ReceiveError, Gone
  <2> QED
    BY <2>1, ReleaseKeeps
<1>8. ASSUME Forwarding PROVE QueueInv'
  BY <1>8 DEF Forwarding, clientState, QueueInv
<1>9. ASSUME UNCHANGED protocolVars PROVE QueueInv'
  BY <1>9 DEF protocolVars, QueueInv
<1> QED
  BY <1>1, <1>2, <1>3, <1>4, <1>5, <1>6, <1>7, <1>8, <1>9 DEF ProtocolNext, ServerLoop

\* A task of the client is in the queue of the channel's mutex exactly while it
\* waits for an answer, and once; the server never works on a request that nobody
\* waits for.
THEOREM ProtocolKeepsQueue == ProtocolSpec => []QueueInv
<1>1. ASSUME ProtocolInit PROVE QueueInv
  <2>1. queue = <<>> /\ wanting = [c \in Client |-> None] /\ server = "receiving"
    BY <1>1 DEF ProtocolInit, Client
  <2> QED
    BY <2>1 DEF QueueInv
<1>2. QueueInv /\ [ProtocolNext]_protocolVars => QueueInv'
  BY QueueKept
<1> QED
  BY <1>1, <1>2, PTL DEF ProtocolSpec

\* A request to start or to stop a forwarding names a port.
LEMMA AskedPort ==
  ASSUME QueueInv, NEW kind, Handling(kind)
  PROVE  /\ kind \in {"StartPortForward", "StopPortForward"} => Asked.target \in Port
         /\ kind = "PortForwardData" => Asked.target \in ConnectionId
<1>1. queue # <<>> /\ Asked.kind = kind
  BY DEF QueueInv, Handling
<1>2. 1 \in DOMAIN queue /\ Head(queue) = queue[1] /\ Head(queue) \in Client
  BY <1>1 DEF QueueInv
<1>3. wanting[Head(queue)] # None
  BY <1>2 DEF QueueInv
<1>4. Asked \in ValidRequest
  BY <1>2, <1>3 DEF Asked, QueueInv
<1> QED
  BY <1>1, <1>4 DEF ValidRequest

\* The whole protocol implements the forwarding on its own: every step of the
\* client, of the server's loop and of the tasks is, for the forwarding, a step
\* that PortForward allows or none.
THEOREM ProtocolImplementsForward ==
    ProtocolSpec => ForwardInit /\ [][ForwardNext]_forwardVars
<1>1. ProtocolInit => ForwardInit
  BY DEF ProtocolInit
<1>2. ASSUME QueueInv, [ProtocolNext]_protocolVars PROVE [ForwardNext]_forwardVars
  <2>1. ASSUME NEW kind \in {"StartPortForward", "StopPortForward"}, Handling(kind)
        PROVE  Asked.target \in Port
    BY <1>2, <2>1, AskedPort
  <2>2. ASSUME HandleStart PROVE [ForwardNext]_forwardVars
    <3>1. Asked.target \in Port
      BY <2>1, <2>2 DEF HandleStart
    <3> QED
      BY <2>2, <3>1, Zenon DEF HandleStart, ForwardNext
  <2>3. ASSUME HandleStop PROVE ForwardNext
    <3>1. Asked.target \in Port
      BY <2>1, <2>3 DEF HandleStop
    <3> QED
      BY <2>3, <3>1, Zenon DEF HandleStop, ForwardNext
  <2>4. ASSUME HandlePoll \/ WaitForData \/ HandleGetClipboard \/ HandleLocal
        PROVE  [ForwardNext]_forwardVars
    BY <2>4, Zenon DEF HandlePoll, WaitForData, HandleGetClipboard, HandleLocal, ForwardNext
  <2>5. ASSUME NEW c \in Caller, Call(c) PROVE UNCHANGED forwardVars
    BY <2>5, Zenon DEF Call, Enqueue
  <2>6. ASSUME Poll PROVE UNCHANGED forwardVars
    BY <2>6, Zenon DEF Poll, Enqueue
  <2>7. ASSUME \/ ReceiveRequest \/ SendOverflows \/ ReceiveResponse \/ ReceiveError
               \/ ChannelFails
        PROVE  UNCHANGED forwardVars
    BY <2>7, Zenon DEF ReceiveRequest, SendOverflows, ReceiveResponse, ReceiveError,
                       ChannelFails, Release
  <2>8. ASSUME Forwarding PROVE ForwardNext
    BY <2>8, Zenon DEF Forwarding, ForwardNext
  <2>9. ASSUME UNCHANGED protocolVars PROVE UNCHANGED forwardVars
    BY <2>9 DEF protocolVars, forwardVars
  <2>10. ASSUME HandleForwardData PROVE ForwardNext
    <3>1. Asked.target \in ConnectionId
      BY <1>2, <2>10, AskedPort DEF HandleForwardData
    <3> QED
      BY <2>10, <3>1, Zenon DEF HandleForwardData, ForwardNext
  <2>11. ASSUME ServerLoop PROVE [ForwardNext]_forwardVars
    BY <2>2, <2>3, <2>4, <2>7, <2>10, <2>11, Zenon DEF ServerLoop, HandleRequest
  <2> QED
    BY <1>2, <2>5, <2>6, <2>7, <2>8, <2>9, <2>11, Zenon DEF ProtocolNext
<1> QED
  BY <1>1, <1>2, ProtocolKeepsQueue, PTL DEF ProtocolSpec

\* So the invariant holds in every run of the protocol, whatever the clients ask
\* for and however the connection to them ends, and with it the properties.
THEOREM ProtocolKeepsInv == ProtocolSpec => []ForwardInv
BY ProtocolImplementsForward, ForwardKeepsInv, PTL

\* The client learns of a connection first and once, of its data, and of its end
\* last and once; only what a stop request cut may go on and end twice.
THEOREM EventsInOrder == ProtocolSpec => []EventOrder
BY ProtocolKeepsInv, ForwardProperties, PTL

\* A connection whose task is over was announced and was reported closed, whichever
\* way it ended.
THEOREM ClosedAlwaysReported == ProtocolSpec => []ClosedIsReported
BY ProtocolKeepsInv, ForwardProperties, PTL

\* The map of senders holds the connections that are open and not cut, and no
\* other.
THEOREM ActiveAlwaysOpen == ProtocolSpec => []ActiveIsOpen
BY ProtocolKeepsInv, ForwardProperties, PTL

-----------------------------------------------------------------------------
(* Nothing lost.  What the polling loop got of a connection, what is in the *)
(* response on its way and what is in the buffer are, put together, the     *)
(* connection's history; a step moves events from one to the next or adds   *)
(* the same to the buffer and to the history.                               *)

\* An event of a connection, or the clipboard's, which has no connection.
BufferedEvent == [kind : EventKind, id : ConnectionId \cup {0}]

\* What each event of s says of connection i, as a sequence of one kind or of none.
Own(s, i) == [n \in DOMAIN s |-> IF s[n].id = i THEN <<s[n].kind>> ELSE <<>>]

\* The same for one event.
OwnOf(e, i) == IF e.id = i THEN <<e.kind>> ELSE <<>>

\* It is a sequence of kinds.
LEMMA OwnOfType ==
  ASSUME NEW e \in BufferedEvent, NEW i
  PROVE  OwnOf(e, i) \in Seq(EventKind)
<1>1. e.kind \in EventKind
  BY DEF BufferedEvent
<1>2. <<e.kind>> \in Seq(EventKind) /\ <<>> \in Seq(EventKind)
  BY <1>1
<1> QED
  BY <1>2 DEF OwnOf

\* There is one for each event.
LEMMA OwnType ==
  ASSUME NEW s \in Seq(BufferedEvent), NEW i
  PROVE  Own(s, i) \in Seq(Seq(EventKind)) /\ Len(Own(s, i)) = Len(s)
         /\ \A n \in 1..Len(s) : Own(s, i)[n] = OwnOf(s[n], i)
<1>1. PICK k \in Nat : k = Len(s) /\ DOMAIN s = 1..k
  BY LenProperties
<1>2. \A n \in 1..k : OwnOf(s[n], i) \in Seq(EventKind)
  BY <1>1, ElementOfSeq, OwnOfType
<1>3. PICK f : f = Own(s, i)
  OBVIOUS
<1>4. f = [n \in 1..k |-> OwnOf(s[n], i)]
  BY <1>1, <1>3 DEF Own, OwnOf
<1>5. f \in [1..k -> Seq(EventKind)] /\ \A n \in 1..k : f[n] = OwnOf(s[n], i)
  BY <1>2, <1>4
<1>6. f \in Seq(Seq(EventKind)) /\ Len(f) = k
  BY <1>5
<1> QED
  BY <1>1, <1>3, <1>5, <1>6

\* The events of a connection are a sequence of kinds.
LEMMA EventsOfType ==
  ASSUME NEW s \in Seq(BufferedEvent), NEW i
  PROVE  EventsOf(s, i) \in Seq(EventKind)
<1>1. EventsOf(s, i) = FlattenSeq(Own(s, i))
  BY DEF EventsOf, Own
<1> QED
  BY <1>1, OwnType, FlattenSeqType

\* An empty buffer has no event of any connection.
LEMMA EventsOfEmpty == ASSUME NEW i PROVE EventsOf(<<>>, i) = <<>>
<1>1. EventsOf(<<>>, i) = FlattenSeq(Own(<<>>, i))
  BY DEF EventsOf, Own
<1>2. Own(<<>>, i) = <<>>
  <2>1. <<>> \in Seq(BufferedEvent) /\ Len(<<>>) = 0
    BY EmptySeq
  <2>2. Own(<<>>, i) \in Seq(Seq(EventKind)) /\ Len(Own(<<>>, i)) = 0
    BY <2>1, OwnType
  <2> QED
    BY <2>2, EmptySeq
<1> QED
  BY <1>1, <1>2, FlattenSeqEmpty

\* One more event is one more of its connection and none of the others.
LEMMA EventsOfAppend ==
  ASSUME NEW s \in Seq(BufferedEvent), NEW e \in BufferedEvent, NEW i
  PROVE  EventsOf(Append(s, e), i) = EventsOf(s, i) \o OwnOf(e, i)
<1>1. PICK n \in Nat : n = Len(s)
  BY LenProperties
<1>2. PICK t \in Seq(BufferedEvent) : t = Append(s, e)
  BY AppendProperties
<1>3. Len(t) = n + 1 /\ t[n + 1] = e /\ \A k \in 1..n : t[k] = s[k]
  BY <1>1, <1>2, AppendProperties
<1>4. PICK u \in Seq(Seq(EventKind)) : u = Append(Own(s, i), OwnOf(e, i))
  BY OwnType, OwnOfType, AppendProperties
<1>5. /\ Len(u) = n + 1 /\ u[n + 1] = OwnOf(e, i)
      /\ \A k \in 1..n : u[k] = OwnOf(s[k], i)
  BY <1>1, <1>4, OwnType, OwnOfType, AppendProperties
<1>6. PICK f \in Seq(Seq(EventKind)) : f = Own(t, i)
  BY OwnType
<1>7. Len(f) = n + 1 /\ \A k \in 1..(n + 1) : f[k] = OwnOf(t[k], i)
  BY <1>3, <1>6, OwnType
<1>8. \A k \in 1..(n + 1) : f[k] = u[k]
  <2> TAKE k \in 1..(n + 1)
  <2>1. CASE k \in 1..n
    BY <2>1, <1>3, <1>5, <1>7
  <2>2. CASE k = n + 1
    BY <2>2, <1>3, <1>5, <1>7
  <2> QED
    BY <2>1, <2>2
<1>9. f = u
  BY <1>5, <1>7, <1>8, SeqEqual
<1>10. FlattenSeq(u) = FlattenSeq(Own(s, i)) \o OwnOf(e, i)
  BY <1>4, OwnType, OwnOfType, FlattenSeqAppend
<1>11. EventsOf(s, i) = FlattenSeq(Own(s, i)) /\ EventsOf(t, i) = FlattenSeq(Own(t, i))
  BY DEF EventsOf, Own
<1> QED
  BY <1>2, <1>6, <1>9, <1>10, <1>11

\* A buffer with events of other connections only has none of this one.
LEMMA EventsOfOthers ==
  ASSUME NEW s \in Seq(BufferedEvent), NEW i, \A n \in 1..Len(s) : s[n].id # i
  PROVE  EventsOf(s, i) = <<>>
<1> DEFINE P(t) == (\A n \in 1..Len(t) : t[n].id # i) => EventsOf(t, i) = <<>>
           T == {k \in Nat : \A t \in Seq(BufferedEvent) : Len(t) = k => P(t)}
<1>1. 0 \in T
  <2>1. ASSUME NEW t \in Seq(BufferedEvent), Len(t) = 0 PROVE EventsOf(t, i) = <<>>
    BY <2>1, EmptySeq, EventsOfEmpty
  <2> QED
    BY <2>1
<1>2. ASSUME NEW k \in Nat, k \in T PROVE k + 1 \in T
  <2>1. ASSUME NEW t \in Seq(BufferedEvent), Len(t) = k + 1, \A n \in 1..Len(t) : t[n].id # i
        PROVE  EventsOf(t, i) = <<>>
    <3>1. t # <<>>
      BY <2>1
    <3>2. PICK u \in Seq(BufferedEvent), e \in BufferedEvent : t = Append(u, e)
      BY <3>1, SequenceEmptyOrAppend
    <3>3. /\ Len(u) = k /\ t[k + 1] = e
          /\ \A n \in 1..k : t[n] = u[n]
      BY <2>1, <3>2, AppendProperties, LenProperties
    <3>4. EventsOf(u, i) = <<>>
      BY <3>3, <2>1, <1>2
    <3>5. OwnOf(e, i) = <<>>
      BY <3>3, <2>1 DEF OwnOf
    <3>6. EventsOf(t, i) = EventsOf(u, i) \o OwnOf(e, i)
      BY <3>2, EventsOfAppend
    <3>7. <<>> \o <<>> = <<>>
      OBVIOUS
    <3> QED
      BY <3>4, <3>5, <3>6, <3>7
  <2> QED
    BY <2>1
<1>3. Nat \subseteq T
  <2> HIDE DEF T
  <2> QED BY <1>1, <1>2, SetInduction
<1>4. Len(s) \in Nat
  BY LenProperties
<1> QED
  BY <1>3, <1>4

\* The sequence of a finite set has each of its elements once.
LEMMA SetToSeqIs ==
  ASSUME NEW S, IsFiniteSet(S)
  PROVE  /\ SetToSeq(S) \in Seq(S)
         /\ \A m, n \in 1..Len(SetToSeq(S)) : SetToSeq(S)[m] = SetToSeq(S)[n] => m = n
         /\ \A x \in S : \E n \in 1..Len(SetToSeq(S)) : SetToSeq(S)[n] = x
<1> DEFINE k == Cardinality(S)
<1>1. k \in Nat /\ ExistsBijection(1..k, S)
  BY FS_CardinalityType
<1>2. \E f \in [1..k -> S] : IsInjective(f)
  BY <1>1 DEF ExistsBijection, Bijection, Injection
<1>3. PICK f : f = SetToSeq(S)
  OBVIOUS
<1>4. f \in [1..k -> S] /\ IsInjective(f)
  BY <1>2, <1>3, Zenon DEF SetToSeq
<1>5. f \in Injection(1..k, S)
  BY <1>4 DEF Injection
<1>6. Cardinality(1..k) = k
  BY <1>1, FS_Interval
<1>7. f \in Surjection(1..k, S)
  BY <1>5, <1>6, FS_Injection
<1>8. f \in Seq(S) /\ Len(f) = k
  BY <1>1, <1>4
<1>9. \A m, n \in 1..k : f[m] = f[n] => m = n
  BY <1>4 DEF IsInjective
<1>10. \A x \in S : \E n \in 1..k : f[n] = x
  BY <1>7 DEF Surjection
<1> HIDE DEF k
<1> QED
  BY <1>3, <1>8, <1>9, <1>10

\* The ends of the connections in order.
CloseEvents(order) == [n \in 1..Len(order) |-> Event("Close", order[n])]

\* They are events.
LEMMA CloseEventsType ==
  ASSUME NEW o \in Seq(ConnectionId)
  PROVE  CloseEvents(o) \in Seq(BufferedEvent) /\ Len(CloseEvents(o)) = Len(o)
         /\ \A n \in 1..Len(o) : CloseEvents(o)[n] = Event("Close", o[n])
<1>1. PICK k \in Nat : k = Len(o)
  BY LenProperties
<1>2. \A n \in 1..k : Event("Close", o[n]) \in BufferedEvent
  BY <1>1, ElementOfSeq DEF Event, BufferedEvent, EventKind
<1>3. PICK f : f = CloseEvents(o)
  OBVIOUS
<1>4. f \in [1..k -> BufferedEvent] /\ \A n \in 1..k : f[n] = Event("Close", o[n])
  BY <1>1, <1>2, <1>3 DEF CloseEvents
<1>5. f \in Seq(BufferedEvent) /\ Len(f) = k
  BY <1>4
<1> QED
  BY <1>1, <1>3, <1>4, <1>5

\* One more connection, one more event.
LEMMA CloseEventsAppend ==
  ASSUME NEW o \in Seq(ConnectionId), NEW x \in ConnectionId
  PROVE  CloseEvents(Append(o, x)) = Append(CloseEvents(o), Event("Close", x))
<1>1. PICK n \in Nat : n = Len(o)
  BY LenProperties
<1>2. PICK t \in Seq(ConnectionId) : t = Append(o, x)
  BY AppendProperties
<1>3. Len(t) = n + 1 /\ t[n + 1] = x /\ \A k \in 1..n : t[k] = o[k]
  BY <1>1, <1>2, AppendProperties
<1>4. Event("Close", x) \in BufferedEvent
  BY DEF Event, BufferedEvent, EventKind
<1>5. PICK u \in Seq(BufferedEvent) : u = Append(CloseEvents(o), Event("Close", x))
  BY <1>4, CloseEventsType, AppendProperties
<1>6. /\ Len(u) = n + 1 /\ u[n + 1] = Event("Close", x)
      /\ \A k \in 1..n : u[k] = Event("Close", o[k])
  BY <1>1, <1>4, <1>5, CloseEventsType, AppendProperties
<1>7. PICK f \in Seq(BufferedEvent) : f = CloseEvents(t)
  BY CloseEventsType
<1>8. Len(f) = n + 1 /\ \A k \in 1..(n + 1) : f[k] = Event("Close", t[k])
  BY <1>3, <1>7, CloseEventsType
<1>9. \A k \in 1..(n + 1) : f[k] = u[k]
  <2> TAKE k \in 1..(n + 1)
  <2>1. CASE k \in 1..n
    BY <2>1, <1>3, <1>6, <1>8
  <2>2. CASE k = n + 1
    BY <2>2, <1>3, <1>6, <1>8
  <2> QED
    BY <2>1, <2>2
<1>10. f = u
  BY <1>6, <1>8, <1>9, SeqEqual
<1> QED
  BY <1>2, <1>5, <1>7, <1>10

\* The events of s followed by the ends of the connections in o.
WithCloses(s, o) == s \o CloseEvents(o)

\* And one more in the buffer.
LEMMA WithClosesAppend ==
  ASSUME NEW s \in Seq(BufferedEvent), NEW o \in Seq(ConnectionId), NEW x \in ConnectionId
  PROVE  /\ WithCloses(s, o) \in Seq(BufferedEvent)
         /\ WithCloses(s, Append(o, x)) = Append(WithCloses(s, o), Event("Close", x))
<1>1. PICK c \in Seq(BufferedEvent) : c = CloseEvents(o)
  BY CloseEventsType
<1>2. PICK e \in BufferedEvent : e = Event("Close", x)
  BY DEF Event, BufferedEvent, EventKind
<1>3. CloseEvents(Append(o, x)) = Append(c, e)
  BY <1>1, <1>2, CloseEventsAppend
<1>4. s \o Append(c, e) = Append(s \o c, e)
  BY ConcatProperties, AppendProperties
<1>5. s \o c \in Seq(BufferedEvent)
  BY ConcatProperties
<1> QED
  BY <1>1, <1>2, <1>3, <1>4, <1>5 DEF WithCloses

\* Connection i gets one end if it is in o, and nothing otherwise.
EndsAdded(s, o, i) ==
    EventsOf(WithCloses(s, o), i)
        = IF \E n \in 1..Len(o) : o[n] = i THEN Append(EventsOf(s, i), "Close") ELSE EventsOf(s, i)

\* stop_port_forward reports every connection that it closes once.
LEMMA EventsOfCloses ==
  ASSUME NEW s \in Seq(BufferedEvent), NEW i \in ConnectionId, NEW o \in Seq(ConnectionId),
         \A m, n \in 1..Len(o) : o[m] = o[n] => m = n
  PROVE  EndsAdded(s, o, i)
<1> DEFINE P(t) == (\A m, n \in 1..Len(t) : t[m] = t[n] => m = n) => EndsAdded(s, t, i)
           T == {k \in Nat : \A t \in Seq(ConnectionId) : Len(t) = k => P(t)}
<1>0. PICK es \in Seq(EventKind) : es = EventsOf(s, i)
  BY EventsOfType
<1>1. 0 \in T
  <2>1. ASSUME NEW t \in Seq(ConnectionId), Len(t) = 0 PROVE EndsAdded(s, t, i)
    <3>1. CloseEvents(t) = <<>>
      BY <2>1, CloseEventsType, EmptySeq
    <3>2. WithCloses(s, t) = s
      BY <3>1, ConcatEmptySeq DEF WithCloses
    <3>3. ~\E n \in 1..Len(t) : t[n] = i
      BY <2>1
    <3> QED
      BY <3>2, <3>3 DEF EndsAdded
  <2> QED
    BY <2>1
<1>2. ASSUME NEW k \in Nat, k \in T PROVE k + 1 \in T
  <2>1. ASSUME NEW t \in Seq(ConnectionId), Len(t) = k + 1,
               \A m, n \in 1..Len(t) : t[m] = t[n] => m = n
        PROVE  EndsAdded(s, t, i)
    <3>1. t # <<>>
      BY <2>1
    <3>2. PICK u \in Seq(ConnectionId), x \in ConnectionId : t = Append(u, x)
      BY <3>1, SequenceEmptyOrAppend
    <3>3. /\ Len(u) = k /\ t[k + 1] = x
          /\ \A n \in 1..k : t[n] = u[n]
      BY <2>1, <3>2, AppendProperties, LenProperties
    <3>4. EndsAdded(s, u, i)
      BY <3>3, <2>1, <1>2
    <3>5. PICK e \in BufferedEvent : e = Event("Close", x)
      BY DEF Event, BufferedEvent, EventKind
    <3>6. PICK w \in Seq(BufferedEvent) : w = WithCloses(s, u)
      BY WithClosesAppend
    <3>7. EventsOf(WithCloses(s, t), i) = EventsOf(w, i) \o OwnOf(e, i)
      <4>1. WithCloses(s, t) = Append(w, e)
        BY <3>2, <3>5, <3>6, WithClosesAppend
      <4> QED
        BY <4>1, EventsOfAppend
    <3>8. CASE x = i
      <4>1. ~\E n \in 1..Len(u) : u[n] = i
        <5>1. ASSUME NEW n \in 1..k PROVE u[n] # i
          <6>1. n \in 1..(k + 1) /\ k + 1 \in 1..(k + 1) /\ n # k + 1
            OBVIOUS
          <6>2. t[n] # t[k + 1]
            BY <6>1, <2>1
          <6> QED
            BY <6>2, <3>3, <3>8
        <5> QED
          BY <5>1, <3>3
      <4>2. EventsOf(w, i) = es
        BY <1>0, <3>4, <3>6, <4>1 DEF EndsAdded
      <4>3. OwnOf(e, i) = <<"Close">>
        BY <3>5, <3>8 DEF OwnOf, Event
      <4>4. es \o <<"Close">> = Append(es, "Close")
        OBVIOUS
      <4>5. \E n \in 1..Len(t) : t[n] = i
        <5>1. k + 1 \in 1..Len(t) /\ t[k + 1] = i
          BY <3>3, <3>8, <2>1
        <5> QED
          BY <5>1
      <4> QED
        BY <1>0, <3>7, <4>2, <4>3, <4>4, <4>5 DEF EndsAdded
    <3>9. CASE x # i
      <4>1. (\E n \in 1..Len(u) : u[n] = i) <=> (\E n \in 1..Len(t) : t[n] = i)
        <5>1. ASSUME NEW n \in 1..k, u[n] = i PROVE n \in 1..(k + 1) /\ t[n] = i
          <6>1. n \in 1..(k + 1)
            OBVIOUS
          <6>2. t[n] = u[n]
            BY <3>3
          <6> QED
            BY <6>1, <6>2, <5>1
        <5>2. ASSUME NEW n \in 1..(k + 1), t[n] = i PROVE n \in 1..k /\ u[n] = i
          <6>1. n # k + 1
            BY <5>2, <3>3, <3>9
          <6>2. n \in 1..k
            BY <6>1
          <6> QED
            BY <6>2, <5>2, <3>3
        <5> QED
          BY <5>1, <5>2, <3>3, <2>1
      <4>2. OwnOf(e, i) = <<>>
        BY <3>5, <3>9 DEF OwnOf, Event
      <4>3. PICK ew \in Seq(EventKind) : ew = EventsOf(w, i)
        BY EventsOfType
      <4>4. ew \o <<>> = ew
        BY ConcatEmptySeq
      <4> QED
        BY <3>4, <3>6, <3>7, <4>1, <4>2, <4>3, <4>4 DEF EndsAdded
    <3> QED
      BY <3>8, <3>9
  <2> QED
    BY <2>1
<1>3. Nat \subseteq T
  <2> HIDE DEF T
  <2> QED BY <1>1, <1>2, SetInduction
<1>4. Len(o) \in Nat
  BY LenProperties
<1> QED
  BY <1>3, <1>4

\* What the polling loop got, what is on its way, and what is in the buffer.
Ledger(p, a, b) == p \o a \o b

\* What is added to the buffer is added to the whole.
LEMMA LedgerAdd ==
  ASSUME NEW R, NEW p \in Seq(R), NEW a \in Seq(R), NEW b \in Seq(R), NEW x \in Seq(R), NEW bx,
         Joins(b, x, bx)
  PROVE  Joins(Ledger(p, a, b), x, Ledger(p, a, bx))
<1>1. PICK pa \in Seq(R) : pa = p \o a
  BY ConcatProperties
<1>2. Associates(pa, b, x)
  BY ConcatAssociates
<1> QED
  BY <1>1, <1>2 DEF Associates, Ledger, Joins

\* What moves from the empty response's place in the buffer to the response stays.
LEMMA LedgerTake ==
  ASSUME NEW R, NEW p \in Seq(R), NEW b \in Seq(R)
  PROVE  Ledger(p, b, <<>>) = Ledger(p, <<>>, b)
<1>1. PICK pb \in Seq(R) : pb = p \o b
  BY ConcatProperties
<1>2. p \o <<>> = p /\ pb \o <<>> = pb
  BY ConcatEmptySeq
<1> QED
  BY <1>1, <1>2 DEF Ledger

\* So does what moves from the response to the polling loop.
LEMMA LedgerReceive ==
  ASSUME NEW R, NEW p \in Seq(R), NEW a \in Seq(R), NEW b \in Seq(R), NEW pa, Joins(p, a, pa)
  PROVE  pa \in Seq(R) /\ Ledger(pa, <<>>, b) = Ledger(p, a, b)
<1>1. pa = p \o a /\ pa \in Seq(R)
  BY ConcatProperties DEF Joins
<1>2. pa \o <<>> = pa
  BY <1>1, ConcatEmptySeq
<1> QED
  BY <1>1, <1>2 DEF Ledger

\* The step adds x to the buffer and to the history of connection i.
Adds(i, x) ==
    /\ Joins(EventsOf(items, i), x, EventsOf(items, i)')
    /\ Joins(history[i], x, history'[i])

\* The types that the lemmas on the buffer need.
BufferOK ==
    /\ items \in Seq(BufferedEvent)
    /\ history \in [ConnectionId -> Seq(EventKind)]
    /\ active_connections \subseteq ConnectionId

\* A step that leaves the buffer alone adds nothing.
LEMMA NothingAdded ==
  ASSUME BufferOK, UNCHANGED <<items, history>>, NEW i \in ConnectionId
  PROVE  Adds(i, <<>>)
<1>1. PICK e \in Seq(EventKind), h \in Seq(EventKind) : e = EventsOf(items, i) /\ h = history[i]
  BY EventsOfType DEF BufferOK
<1>2. e \o <<>> = e /\ h \o <<>> = h
  BY ConcatEmptySeq
<1> QED
  BY <1>1, <1>2 DEF Adds, Joins

\* add_item adds one event to its connection's history and to the buffer.
LEMMA ItemAdded ==
  ASSUME BufferOK, NEW kind \in EventKind, NEW j \in ConnectionId, AddItem(kind, j)
  PROVE  /\ items' \in Seq(BufferedEvent)
         /\ \A i \in ConnectionId : \E x \in Seq(EventKind) : Adds(i, x)
<1>1. PICK e \in BufferedEvent : e = Event(kind, j)
  BY DEF Event, BufferedEvent
<1>2. /\ items' = Append(items, e) /\ items \in Seq(BufferedEvent)
      /\ history' = [history EXCEPT ![j] = Append(@, kind)]
      /\ history \in [ConnectionId -> Seq(EventKind)]
  BY <1>1 DEF AddItem, BufferOK
<1>3. items' \in Seq(BufferedEvent)
  BY <1>2, AppendProperties
<1>4. ASSUME NEW i \in ConnectionId PROVE \E x \in Seq(EventKind) : Adds(i, x)
  <2>1. OwnOf(e, i) \in Seq(EventKind)
    BY OwnOfType
  <2>2. Joins(EventsOf(items, i), OwnOf(e, i), EventsOf(items, i)')
    BY <1>2, EventsOfAppend DEF Joins
  <2>3. PICK h \in Seq(EventKind) : h = history[i]
    BY <1>2
  <2>4. history'[i] = IF j = i THEN Append(h, kind) ELSE h
    BY <1>2, <2>3
  <2>5. h \o <<>> = h /\ h \o <<kind>> = Append(h, kind)
    BY ConcatEmptySeq
  <2>6. OwnOf(e, i) = IF j = i THEN <<kind>> ELSE <<>>
    BY <1>1 DEF OwnOf, Event
  <2>7. Joins(history[i], OwnOf(e, i), history'[i])
    BY <2>3, <2>4, <2>5, <2>6 DEF Joins
  <2> QED
    BY <2>1, <2>2, <2>7 DEF Adds
<1> QED
  BY <1>3, <1>4

\* So does each close of a stop request.
LEMMA ClosesAdded ==
  ASSUME BufferOK, AddCloseConnections(active_connections)
  PROVE  /\ items' \in Seq(BufferedEvent)
         /\ \A i \in ConnectionId : \E x \in Seq(EventKind) : Adds(i, x)
<1>1. PICK S \in SUBSET ConnectionId : S = active_connections
  BY DEF BufferOK
<1>2. IsFiniteSet(S)
  <2>1. IsFiniteSet(ConnectionId)
    BY FS_Interval, ForwardAssumption DEF ConnectionId
  <2> QED
    BY <2>1, FS_Subset
<1>3. PICK o \in Seq(S) : o = SetToSeq(S)
  BY <1>2, SetToSeqIs
<1>4. /\ \A m, n \in 1..Len(o) : o[m] = o[n] => m = n
      /\ \A x \in S : \E n \in 1..Len(o) : o[n] = x
  BY <1>2, <1>3, SetToSeqIs
<1>5. o \in Seq(ConnectionId)
  BY SeqMonotonic
<1>6. /\ items' = WithCloses(items, o) /\ items \in Seq(BufferedEvent)
      /\ history' = [i \in ConnectionId |-> IF i \in S THEN Append(history[i], "Close")
                                            ELSE history[i]]
      /\ history \in [ConnectionId -> Seq(EventKind)]
  BY <1>1, <1>3 DEF AddCloseConnections, BufferOK, WithCloses, CloseEvents
<1>7. items' \in Seq(BufferedEvent)
  <2>1. PICK c \in Seq(BufferedEvent) : c = CloseEvents(o)
    BY <1>5, CloseEventsType
  <2>2. items \o c \in Seq(BufferedEvent)
    BY <1>6, ConcatProperties
  <2> QED
    BY <1>6, <2>1, <2>2 DEF WithCloses
<1>8. ASSUME NEW i \in ConnectionId PROVE \E x \in Seq(EventKind) : Adds(i, x)
  <2>1. (\E n \in 1..Len(o) : o[n] = i) <=> i \in S
    BY <1>4, ElementOfSeq
  <2>2. EndsAdded(items, o, i)
    BY <1>4, <1>5, <1>6, EventsOfCloses
  <2>3. PICK e \in Seq(EventKind), h \in Seq(EventKind) : e = EventsOf(items, i) /\ h = history[i]
    BY <1>6, EventsOfType
  <2>4. EventsOf(items, i)' = IF i \in S THEN Append(e, "Close") ELSE e
    BY <1>6, <2>1, <2>2, <2>3 DEF EndsAdded
  <2>5. history'[i] = IF i \in S THEN Append(h, "Close") ELSE h
    BY <1>6, <2>3
  <2>6. /\ h \o <<>> = h /\ h \o <<"Close">> = Append(h, "Close")
        /\ e \o <<>> = e /\ e \o <<"Close">> = Append(e, "Close")
    BY ConcatEmptySeq
  <2>7. PICK x \in Seq(EventKind) : x = IF i \in S THEN <<"Close">> ELSE <<>>
    <3>1. "Close" \in EventKind
      BY DEF EventKind
    <3>2. <<"Close">> \in Seq(EventKind) /\ <<>> \in Seq(EventKind)
      BY <3>1
    <3> QED
      BY <3>2
  <2> QED
    BY <2>3, <2>4, <2>5, <2>6, <2>7 DEF Adds, Joins
<1> QED
  BY <1>7, <1>8

\* Whatever the tasks and the requests but those that take items do, what they add to
\* the buffer they add to the histories.
LEMMA BufferGrows ==
  ASSUME BufferOK,
         \/ ForwardingStep \/ UNCHANGED forwardVars
         \/ \E p \in Port : StartPortForward(p) \/ StopPortForward(p)
         \/ \E i \in ConnectionId : ForwardData(i)
  PROVE  /\ items' \in Seq(BufferedEvent)
         /\ \A i \in ConnectionId : \E x \in Seq(EventKind) : Adds(i, x)
<1>1. CASE UNCHANGED <<items, history>>
  <2>1. items' \in Seq(BufferedEvent)
    BY <1>1 DEF BufferOK
  <2>2. \A i \in ConnectionId : Adds(i, <<>>)
    BY <1>1, NothingAdded
  <2>3. <<>> \in Seq(EventKind)
    OBVIOUS
  <2> QED
    BY <2>1, <2>2, <2>3
<1>2. CASE \E j \in ConnectionId, kind \in EventKind : AddItem(kind, j)
  BY <1>2, ItemAdded
<1>3. CASE \E p \in Port : StopPortForward(p)
  BY <1>3, ClosesAdded DEF StopPortForward
<1>4. ASSUME NEW j \in ConnectionId, ConnectionStep(j) \/ ReceiveBranch(j) \/ PeerStep(j)
      PROVE  \/ UNCHANGED <<items, history>>
             \/ \E kind \in EventKind : AddItem(kind, j)
  <2>1. {"New", "Data", "Close"} \subseteq EventKind
    BY DEF EventKind
  <2>2. ASSUME Announce(j) PROVE AddItem("New", j)
    BY <2>2 DEF Announce, AddNewConnection
  <2>3. ASSUME ConnectTargetFails(j) \/ ReportClosed(j) PROVE AddItem("Close", j)
    BY <2>3 DEF ConnectTargetFails, ReportClosed, AddCloseConnection
  <2>4. ASSUME WriteDone(j) PROVE UNCHANGED <<items, history>> \/ AddItem("Data", j)
    BY <2>4, Zenon DEF WriteDone, AddPortForwardData, buffer
  <2>5. ASSUME \/ ConnectTarget(j) \/ RemoveConnection(j) \/ ReceiveBranch(j)
               \/ ReadClient(j) \/ ReadTarget(j) \/ StreamEnds(j) \/ WriteFails(j)
        PROVE  UNCHANGED <<items, history>>
    BY <2>5 DEF ConnectTarget, RemoveConnection, ReceiveBranch, QueuedData, SenderDropped,
                ReadClient, ReadTarget, StreamEnds, WriteFails, buffer
  <2> QED
    BY <1>4, <2>1, <2>2, <2>3, <2>4, <2>5 DEF ConnectionStep, PeerStep
<1>5. ASSUME NEW p \in Port, AcceptForward(p) \/ ListenerFails(p) \/ StartPortForward(p)
      PROVE  UNCHANGED <<items, history>>
  BY <1>5 DEF AcceptForward, ListenerFails, StartPortForward, buffer
<1>6. UNCHANGED forwardVars \/ (\E i \in ConnectionId : ForwardData(i))
         => UNCHANGED <<items, history>>
  BY DEF forwardVars, ForwardData, buffer
<1> QED
  BY <1>1, <1>2, <1>3, <1>4, <1>5, <1>6, Zenon DEF ForwardingStep

\* No event of connection i is missing, doubled or out of order.
Kept(i) == Ledger(polled[i], InFlight(i), EventsOf(items, i)) = history[i]

\* What the server answers.
Responses == [kind : {"Data", "Success", "Error"}, items : Seq(BufferedEvent)]

\* The inductive invariant: there is a response on its way exactly while the server
\* sends one.  NothingLost alone would let a response be replaced by the next.
LossInv ==
    /\ items \in Seq(BufferedEvent)
    /\ polled \in [ConnectionId -> Seq(EventKind)]
    /\ answer \in Responses \cup {None}
    /\ answer # None <=> server = "responding"
    /\ NothingLost

\* While the server is there and the polling loop polls.
Watched == ~Gone /\ poller = "polling"

\* NothingLost in these terms,
LEMMA NothingLostIs == NothingLost <=> (Watched => \A i \in ConnectionId \ dropped : Kept(i))
  BY DEF NothingLost, Watched, Kept, Ledger

\* and after a step.
LEMMA NothingLostNext ==
    NothingLost' <=> (Watched' => \A i \in ConnectionId \ dropped' : Kept(i)')
  BY DEF NothingLost, Watched, Kept, Ledger

\* The events of a connection in the response are a sequence of kinds.
LEMMA InFlightType ==
  ASSUME LossInv, NEW i
  PROVE  InFlight(i) \in Seq(EventKind)
<1>1. CASE answer = None
  BY <1>1, EmptySeq DEF InFlight
<1>2. CASE answer # None
  <2>1. answer.items \in Seq(BufferedEvent)
    BY <1>2 DEF LossInv, Responses
  <2> QED
    BY <1>2, <2>1, EventsOfType DEF InFlight
<1> QED
  BY <1>1, <1>2

\* The steps that leave the polling loop alone and add to the buffer, if anything;
\* the response, if they make one, is empty.
LEMMA GrowthKeeps ==
  ASSUME LossInv, BufferOK, UNCHANGED <<polled, dropped, poller>>,
         items' \in Seq(BufferedEvent),
         \A i \in ConnectionId : \E x \in Seq(EventKind) : Adds(i, x),
         answer' \in Responses \cup {None}, answer' # None <=> server' = "responding",
         Gone => Gone',
         \A i \in ConnectionId : InFlight(i)' = InFlight(i)
  PROVE  LossInv'
<1>1. ASSUME NEW i \in ConnectionId, Kept(i) PROVE Kept(i)'
  <2>1. PICK x \in Seq(EventKind) : Adds(i, x)
    OBVIOUS
  <2>2. PICK p \in Seq(EventKind), a \in Seq(EventKind), b \in Seq(EventKind) :
           p = polled[i] /\ a = InFlight(i) /\ b = EventsOf(items, i)
    BY InFlightType, EventsOfType DEF LossInv
  <2>3. PICK bx : bx = EventsOf(items, i)'
    OBVIOUS
  <2>4. Joins(b, x, bx) /\ Joins(history[i], x, history'[i])
    BY <2>1, <2>2, <2>3 DEF Adds
  <2>5. Joins(Ledger(p, a, b), x, Ledger(p, a, bx))
    BY <2>4, LedgerAdd
  <2>6. Ledger(p, a, b) = history[i]
    BY <1>1, <2>2 DEF Kept
  <2>7. Ledger(p, a, bx) = history'[i]
    BY <2>4, <2>5, <2>6 DEF Joins
  <2>8. polled'[i] = p /\ InFlight(i)' = a
    BY <2>2
  <2> QED
    BY <2>3, <2>7, <2>8 DEF Kept
<1>2. NothingLost'
  <2>1. Watched' => Watched
    BY DEF Watched
  <2>2. Watched' => \A i \in ConnectionId \ dropped' : Kept(i)'
    BY <1>1, <2>1, NothingLostIs DEF LossInv
  <2> QED
    BY <2>2, NothingLostNext
<1> QED
  BY <1>2 DEF LossInv

\* An empty response.
LEMMA EmptyResponse ==
  ASSUME NEW kind \in {"Data", "Success", "Error"}, LossInv, answer = None,
         answer' = Response(kind, <<>>)
  PROVE  /\ answer' \in Responses /\ answer' # None
         /\ \A i \in ConnectionId : InFlight(i)' = InFlight(i)
<1>1. <<>> \in Seq(BufferedEvent)
  BY EmptySeq
<1>2. answer' \in Responses /\ answer'.items = <<>>
  BY <1>1 DEF Response, Responses
<1>3. answer' # None
  BY <1>2, NoneIsNoResponse DEF Responses, BufferedEvent
<1> QED
  BY <1>2, <1>3, EventsOfEmpty DEF InFlight

\* What is taken from the buffer is in the response.
LEMMA TakeKeeps ==
  ASSUME LossInv, BufferOK, UNCHANGED <<polled, dropped, poller, history>>, answer = None,
         items' = <<>>, server' = "responding", ~Gone,
         NEW s \in Seq(BufferedEvent), answer' = Response("Data", s),
         \A i \in ConnectionId : EventsOf(s, i) = EventsOf(items, i)
  PROVE  LossInv'
<1>1. answer' \in Responses /\ answer'.items = s
  BY DEF Response, Responses
<1>2. answer' # None
  BY <1>1, NoneIsNoResponse DEF Responses, BufferedEvent
<1>3. items' \in Seq(BufferedEvent)
  BY EmptySeq
<1>4. ASSUME NEW i \in ConnectionId, Kept(i) PROVE Kept(i)'
  <2>1. PICK p \in Seq(EventKind), b \in Seq(EventKind) : p = polled[i] /\ b = EventsOf(items, i)
    BY EventsOfType DEF LossInv
  <2>2. InFlight(i) = <<>>
    BY DEF InFlight
  <2>3. InFlight(i)' = b
    BY <1>1, <1>2, <2>1 DEF InFlight
  <2>4. EventsOf(items, i)' = <<>>
    BY EventsOfEmpty
  <2>5. Ledger(p, <<>>, b) = history[i]
    BY <1>4, <2>1, <2>2 DEF Kept
  <2>6. Ledger(p, b, <<>>) = history[i]
    BY <2>5, LedgerTake
  <2> QED
    BY <2>1, <2>3, <2>4, <2>6 DEF Kept
<1>5. NothingLost'
  <2>1. Watched' => Watched
    BY DEF Watched
  <2>2. Watched' => \A i \in ConnectionId \ dropped' : Kept(i)'
    BY <1>4, <2>1, NothingLostIs DEF LossInv
  <2> QED
    BY <2>2, NothingLostNext
<1> QED
  BY <1>1, <1>2, <1>3, <1>5 DEF LossInv

\* The polling loop gets the response, or another task does.
LEMMA ReceiveKeeps ==
  ASSUME LossInv, BufferOK, ReceiveResponse
  PROVE  LossInv'
<1>1. /\ server = "responding" /\ server' = "receiving" /\ answer' = None
      /\ ReceivePolled \/ ReceiveOther
      /\ UNCHANGED <<items, history>>
  BY Zenon DEF ReceiveResponse, Release, forwardVars
<1>2. PICK s \in Seq(BufferedEvent) : s = answer.items
  BY <1>1 DEF LossInv, Responses
<1>3. answer # None /\ \A i \in ConnectionId : InFlight(i) = EventsOf(s, i) /\ InFlight(i)' = <<>>
  BY <1>1, <1>2 DEF LossInv, InFlight
<1>4. ~Gone
  BY <1>1 DEF Gone
<1>5. CASE ReceivePolled
  <2>1. PICK m \in 0..Len(s) :
          /\ polled' = [i \in ConnectionId |-> polled[i] \o EventsOf(SubSeq(s, 1, m), i)]
          /\ poller' \in IF m < Len(s) THEN {"stopped"} ELSE IF Len(s) = 0 THEN {poller}
                         ELSE {poller, "stopped"}
    BY <1>2, <1>5 DEF ReceivePolled
  <2>2. dropped' = dropped
    BY <1>5 DEF ReceivePolled
  <2>3. SubSeq(s, 1, m) \in Seq(BufferedEvent)
    <3>1. Len(s) \in Nat
      BY LenProperties
    <3> QED
      BY <3>1, SubSeqProperties
  <2>4. PICK t \in Seq(BufferedEvent) : t = SubSeq(s, 1, m)
    BY <2>3
  <2>5. ASSUME NEW i \in ConnectionId
        PROVE  polled'[i] \in Seq(EventKind) /\ Joins(polled[i], EventsOf(t, i), polled'[i])
    <3>1. PICK p \in Seq(EventKind), e \in Seq(EventKind) : p = polled[i] /\ e = EventsOf(t, i)
      BY EventsOfType DEF LossInv
    <3>2. polled'[i] = p \o e
      BY <2>1, <2>4, <3>1
    <3>3. p \o e \in Seq(EventKind)
      BY ConcatProperties
    <3> QED
      BY <3>1, <3>2, <3>3 DEF Joins
  <2>6. polled' \in [ConnectionId -> Seq(EventKind)]
    BY <2>1, <2>5
  <2>7. NothingLost'
    <3>1. CASE ~Watched'
      BY <3>1, NothingLostNext
    <3>2. CASE Watched'
      <4>1. m = Len(s) /\ poller = "polling"
        BY <2>1, <3>2 DEF Watched
      <4>2. t = s
        BY <2>4, <4>1, SubSeqFull
      <4>3. Watched
        BY <1>4, <4>1 DEF Watched
      <4>4. ASSUME NEW i \in ConnectionId \ dropped' PROVE Kept(i)'
        <5>1. Kept(i)
          BY <2>2, <4>3, NothingLostIs DEF LossInv
        <5>2. PICK p \in Seq(EventKind), a \in Seq(EventKind), b \in Seq(EventKind) :
                p = polled[i] /\ a = EventsOf(s, i) /\ b = EventsOf(items, i)
          BY EventsOfType DEF LossInv
        <5>3. PICK pa : pa = polled'[i]
          OBVIOUS
        <5>4. Joins(p, a, pa)
          BY <2>5, <4>2, <5>2, <5>3
        <5>5. Ledger(pa, <<>>, b) = Ledger(p, a, b)
          BY <5>4, LedgerReceive
        <5>6. Ledger(p, a, b) = history[i]
          BY <1>3, <5>1, <5>2 DEF Kept
        <5>7. InFlight(i)' = <<>> /\ EventsOf(items, i)' = b /\ history'[i] = history[i]
          BY <1>1, <1>3, <5>2
        <5> QED
          BY <5>3, <5>5, <5>6, <5>7 DEF Kept
      <4> QED
        BY <4>4, NothingLostNext
    <3> QED
      BY <3>1, <3>2
  <2> QED
    BY <1>1, <2>6, <2>7 DEF LossInv
<1>6. CASE ReceiveOther
  <2>1. /\ dropped' = dropped \cup {s[n].id : n \in DOMAIN s}
        /\ UNCHANGED <<poller, polled>>
    BY <1>2, <1>6 DEF ReceiveOther
  <2>2. ASSUME NEW i \in ConnectionId \ dropped', Watched' PROVE Kept(i)'
    <3>1. Kept(i)
      <4>1. Watched /\ i \in ConnectionId \ dropped
        BY <1>4, <2>1, <2>2 DEF Watched
      <4> QED
        BY <4>1, NothingLostIs DEF LossInv
    <3>2. \A n \in 1..Len(s) : s[n].id # i
      <4>1. DOMAIN s = 1..Len(s)
        BY LenProperties
      <4> QED
        BY <2>1, <2>2, <4>1
    <3>3. EventsOf(s, i) = <<>>
      BY <3>2, EventsOfOthers
    <3>4. InFlight(i) = <<>> /\ InFlight(i)' = <<>>
      BY <1>3, <3>3
    <3> QED
      BY <1>1, <2>1, <3>1, <3>4 DEF Kept
  <2>3. NothingLost'
    BY <2>2, NothingLostNext
  <2> QED
    BY <1>1, <2>1, <2>3 DEF LossInv
<1> QED
  BY <1>1, <1>5, <1>6

\* Every step of the client, of the server's loop and of the tasks keeps the invariant.
LEMMA LossKept ==
  ASSUME LossInv, ForwardInv, QueueInv, [ProtocolNext]_protocolVars
  PROVE  LossInv'
<1>1. BufferOK
  BY DEF LossInv, ForwardInv, BufferOK
<1>2. ASSUME UNCHANGED <<items, history, answer, polled, dropped, poller>>,
             answer # None <=> server' = "responding", Gone => Gone'
      PROVE  LossInv'
  <2>1. items' \in Seq(BufferedEvent) /\ answer' \in Responses \cup {None}
    BY <1>2 DEF LossInv
  <2>2. \A i \in ConnectionId : Adds(i, <<>>)
    BY <1>1, <1>2, NothingAdded
  <2>3. \A i \in ConnectionId : \E x \in Seq(EventKind) : Adds(i, x)
    BY <2>2, EmptySeq
  <2>4. \A i \in ConnectionId : InFlight(i)' = InFlight(i)
    BY <1>2 DEF InFlight
  <2> QED
    BY <1>1, <1>2, <2>1, <2>3, <2>4, GrowthKeeps
<1>3. ASSUME Gone', answer' = None, UNCHANGED <<items, polled>>
      PROVE  LossInv'
  <2>1. server' # "responding"
    BY <1>3 DEF Gone
  <2>2. NothingLost'
    BY <1>3 DEF NothingLost
  <2> QED
    BY <1>3, <2>1, <2>2 DEF LossInv
<1>4. ASSUME NEW c \in Caller, Call(c) PROVE LossInv'
  <2>1. UNCHANGED <<forwardVars, server, answer, poller, polled, dropped>>
    BY <1>4, Zenon DEF Call, Enqueue
  <2>2. answer # None <=> server' = "responding"
    BY <2>1 DEF LossInv
  <2>3. Gone => Gone'
    BY <2>1 DEF Gone
  <2> QED
    BY <1>2, <2>1, <2>2, <2>3 DEF forwardVars
<1>5. ASSUME Poll PROVE LossInv'
  <2>1. UNCHANGED <<forwardVars, server, answer, poller, polled, dropped>>
    BY <1>5, Zenon DEF Poll, Enqueue
  <2>2. answer # None <=> server' = "responding"
    BY <2>1 DEF LossInv
  <2>3. Gone => Gone'
    BY <2>1 DEF Gone
  <2> QED
    BY <1>2, <2>1, <2>2, <2>3 DEF forwardVars
<1>6. ASSUME ReceiveRequest PROVE LossInv'
  <2>1. /\ UNCHANGED <<forwardVars, answer, clientState>>
        /\ server = "receiving" /\ server' = "handling"
    BY <1>6 DEF ReceiveRequest
  <2>2. answer # None <=> server' = "responding"
    BY <2>1 DEF LossInv
  <2>3. Gone => Gone'
    BY <2>1 DEF Gone
  <2> QED
    BY <1>2, <2>1, <2>2, <2>3 DEF forwardVars, clientState
<1>7. ASSUME SendOverflows \/ ChannelFails PROVE LossInv'
  <2>1. /\ server' \in {"overflowed", "closed"} /\ answer' = None
        /\ UNCHANGED <<forwardVars, clientState>>
    BY <1>7 DEF SendOverflows, ChannelFails
  <2>2. Gone'
    BY <2>1 DEF Gone
  <2> QED
    BY <1>3, <2>1, <2>2 DEF forwardVars, clientState
<1>8. ASSUME ReceiveError PROVE LossInv'
  <2>1. Gone /\ UNCHANGED <<server, answer, polled, forwardVars>>
    BY <1>8 DEF ReceiveError, Release
  <2>2. Gone' /\ answer = None
    BY <2>1 DEF Gone, LossInv
  <2> QED
    BY <1>3, <2>1, <2>2 DEF forwardVars
<1>9. ASSUME Forwarding PROVE LossInv'
  <2>1. ForwardingStep /\ UNCHANGED <<server, answer, clientState>>
    BY <1>9 DEF Forwarding
  <2>2. /\ items' \in Seq(BufferedEvent)
        /\ \A i \in ConnectionId : \E x \in Seq(EventKind) : Adds(i, x)
    BY <1>1, <2>1, BufferGrows
  <2>3. \A i \in ConnectionId : InFlight(i)' = InFlight(i)
    BY <2>1 DEF InFlight
  <2>4. /\ answer' \in Responses \cup {None} /\ (answer' # None <=> server' = "responding")
        /\ UNCHANGED <<polled, dropped, poller>> /\ (Gone => Gone')
    BY <2>1 DEF LossInv, Gone, clientState
  <2> QED
    BY <1>1, <2>2, <2>3, <2>4, GrowthKeeps
<1>10. ASSUME NEW kind \in {"Data", "Success", "Error"}, Respond(Response(kind, <<>>)),
              server \in {"handling", "waiting"},
              \/ UNCHANGED forwardVars
              \/ \E p \in Port : StartPortForward(p) \/ StopPortForward(p)
              \/ \E i \in ConnectionId : ForwardData(i)
       PROVE  LossInv'
  <2>1. /\ server' = "responding" /\ answer' = Response(kind, <<>>)
        /\ UNCHANGED <<polled, dropped, poller>>
    BY <1>10 DEF Respond, clientState
  <2>2. answer = None /\ (Gone => Gone')
    BY <1>10 DEF LossInv, Gone
  <2>3. /\ items' \in Seq(BufferedEvent)
        /\ \A i \in ConnectionId : \E x \in Seq(EventKind) : Adds(i, x)
    BY <1>1, <1>10, BufferGrows
  <2>4. /\ answer' \in Responses /\ answer' # None
        /\ \A i \in ConnectionId : InFlight(i)' = InFlight(i)
    BY <2>1, <2>2, EmptyResponse
  <2> QED
    BY <1>1, <2>1, <2>2, <2>3, <2>4, GrowthKeeps
<1>11. ASSUME NEW s \in Seq(BufferedEvent), Respond(Response("Data", s)),
              server \in {"handling", "waiting"},
              TakeItems \/ (items = <<>> /\ UNCHANGED forwardVars),
              \A i \in ConnectionId : EventsOf(s, i) = EventsOf(items, i)
       PROVE  LossInv'
  <2>1. /\ server' = "responding" /\ answer' = Response("Data", s)
        /\ UNCHANGED <<polled, dropped, poller>>
    BY <1>11 DEF Respond, clientState
  <2>2. items' = <<>> /\ UNCHANGED history
    BY <1>11 DEF TakeItems, forwardVars
  <2>3. answer = None /\ ~Gone
    BY <1>11 DEF LossInv, Gone
  <2> QED
    BY <1>1, <1>11, <2>1, <2>2, <2>3, TakeKeeps
<1>12. items \in Seq(BufferedEvent)
  BY DEF LossInv
<1>13. ASSUME HandlePoll PROVE LossInv'
  <2>1. server = "handling"
    BY <1>13 DEF HandlePoll, Handling
  <2>2. CASE TakeItems /\ Respond(Response("Data", items))
    BY <1>11, <1>12, <2>1, <2>2
  <2>3. CASE items = <<>> /\ server' = "waiting" /\ UNCHANGED <<forwardVars, answer, clientState>>
    <3>1. answer # None <=> server' = "responding"
      BY <2>1, <2>3 DEF LossInv
    <3>2. Gone => Gone'
      BY <2>1 DEF Gone
    <3> QED
      BY <1>2, <2>3, <3>1, <3>2 DEF forwardVars, clientState
  <2> QED
    BY <1>13, <2>2, <2>3 DEF HandlePoll
<1>14. ASSUME WaitForData PROVE LossInv'
  BY <1>11, <1>12, <1>14 DEF WaitForData
<1>15. ASSUME HandleGetClipboard PROVE LossInv'
  <2>1. server = "handling"
    BY <1>15 DEF HandleGetClipboard, Handling
  <2>2. PICK e \in BufferedEvent : e = Event("Clipboard", 0)
    BY DEF Event, BufferedEvent, EventKind
  <2>3. CASE /\ TakeItems \/ (items = <<>> /\ UNCHANGED forwardVars)
             /\ Respond(Response("Data", Append(items, Event("Clipboard", 0))))
    <3>1. PICK s \in Seq(BufferedEvent) : s = Append(items, e)
      BY <1>12, AppendProperties
    <3>2. ASSUME NEW i \in ConnectionId PROVE EventsOf(s, i) = EventsOf(items, i)
      <4>1. OwnOf(e, i) = <<>>
        BY <2>2, ForwardAssumption DEF OwnOf, Event, ConnectionId
      <4>2. EventsOf(s, i) = EventsOf(items, i) \o OwnOf(e, i)
        BY <1>12, <3>1, EventsOfAppend
      <4>3. PICK b \in Seq(EventKind) : b = EventsOf(items, i)
        BY <1>12, EventsOfType
      <4>4. b \o <<>> = b
        BY ConcatEmptySeq
      <4> QED
        BY <4>1, <4>2, <4>3, <4>4
    <3>3. Respond(Response("Data", s))
      BY <2>2, <2>3, <3>1
    <3> QED
      BY <1>11, <2>1, <2>3, <3>2, <3>3
  <2>4. CASE UNCHANGED forwardVars /\ Respond(Response("Error", <<>>))
    BY <1>10, <2>1, <2>4
  <2> QED
    BY <1>15, <2>3, <2>4 DEF HandleGetClipboard
<1>16. ASSUME NEW kind, Handling(kind)
       PROVE  /\ kind \in {"StartPortForward", "StopPortForward"} => Asked.target \in Port
              /\ kind = "PortForwardData" => Asked.target \in ConnectionId
  BY <1>16, AskedPort
<1>17. ASSUME HandleStart PROVE LossInv'
  <2>1. server = "handling" /\ Asked.target \in Port
    BY <1>16, <1>17 DEF HandleStart, Handling
  <2> QED
    BY <1>10, <1>17, <2>1 DEF HandleStart
<1>18. ASSUME HandleStop PROVE LossInv'
  <2>1. server = "handling" /\ Asked.target \in Port
    BY <1>16, <1>18 DEF HandleStop, Handling
  <2> QED
    BY <1>10, <1>18, <2>1 DEF HandleStop
<1>19. ASSUME HandleForwardData \/ HandleLocal PROVE LossInv'
  <2>1. CASE HandleLocal
    BY <1>10, <2>1 DEF HandleLocal, Handling
  <2>2. CASE HandleForwardData
    <3>1. server = "handling" /\ Asked.target \in ConnectionId
      BY <1>16, <2>2 DEF HandleForwardData, Handling
    <3> QED
      BY <1>10, <2>2, <3>1 DEF HandleForwardData
  <2> QED
    BY <1>19, <2>1, <2>2
<1>20. ASSUME ReceiveResponse PROVE LossInv'
  BY <1>1, <1>20, ReceiveKeeps
<1>21. ASSUME UNCHANGED protocolVars PROVE LossInv'
  <2>1. UNCHANGED <<items, history, answer, polled, dropped, poller, server>>
    BY <1>21 DEF protocolVars
  <2>2. (answer # None <=> server' = "responding") /\ (Gone => Gone')
    BY <2>1 DEF LossInv, Gone
  <2> QED
    BY <1>2, <2>1, <2>2
<1>22. ASSUME HandleRequest PROVE LossInv'
  BY <1>13, <1>14, <1>15, <1>17, <1>18, <1>19, <1>22, Zenon DEF HandleRequest
<1> QED
  BY <1>4, <1>5, <1>6, <1>7, <1>8, <1>9, <1>20, <1>21, <1>22, Zenon DEF ProtocolNext, ServerLoop

\* The polling loop gets every event of every connection, once and in order, for any
\* number of connections, chunks, client tasks and requests: between take_items of the
\* long poll, the stop requests and the tasks none is lost, except by get_clipboard
\* or when the loop or the server stops.
THEOREM NothingEverLost == ProtocolSpec => []NothingLost
<1>1. ASSUME ProtocolInit PROVE LossInv
  <2>1. /\ items = <<>> /\ answer = None /\ server = "receiving"
        /\ polled = [i \in ConnectionId |-> <<>>] /\ history = [i \in ConnectionId |-> <<>>]
    BY <1>1 DEF ProtocolInit, ForwardInit
  <2>2. <<>> \in Seq(BufferedEvent) /\ <<>> \in Seq(EventKind)
    BY EmptySeq
  <2>3. ASSUME NEW i \in ConnectionId PROVE Kept(i)
    <3>1. InFlight(i) = <<>> /\ EventsOf(items, i) = <<>>
      BY <2>1, EventsOfEmpty DEF InFlight
    <3>2. <<>> \o <<>> = <<>>
      OBVIOUS
    <3> QED
      BY <2>1, <3>1, <3>2 DEF Kept, Ledger
  <2>4. NothingLost
    BY <2>3, NothingLostIs
  <2>5. polled \in [ConnectionId -> Seq(EventKind)]
    BY <2>1, <2>2
  <2> QED
    BY <2>1, <2>2, <2>4, <2>5 DEF LossInv
<1>2. LossInv /\ ForwardInv /\ QueueInv /\ [ProtocolNext]_protocolVars => LossInv'
  BY LossKept
<1>3. LossInv => NothingLost
  BY DEF LossInv
<1> QED
  BY <1>1, <1>2, <1>3, ProtocolKeepsInv, ProtocolKeepsQueue, PTL DEF ProtocolSpec

-----------------------------------------------------------------------------
(* The message channel.  The two steps that matter are the ones that change *)
(* where frames begin: send puts a frame behind the bytes on their way, and *)
(* receive takes one off their front.                                       *)

\* What write_u16 writes of a length that fits two bytes is read back as that length.
LEMMA DivMod ==
  ASSUME NEW B \in Nat \ {0, 1}, NEW n \in 0..(B * B - 1)
  PROVE  /\ n \div B \in 0..(B - 1) /\ n % B \in 0..(B - 1)
         /\ (n \div B) * B + (n % B) = n
<1>1. n \in Int /\ B \in Int /\ B > 0 /\ n >= 0 /\ n < B * B
  OBVIOUS
<1>2. PICK q \in Int, r \in Int : q = n \div B /\ r = n % B
  BY <1>1
<1>3. n = B * q + r /\ 0 <= r /\ r < B
  BY <1>1, <1>2
<1>4. q >= 0
  BY <1>1, <1>3
<1>5. q < B
  BY <1>1, <1>3
<1>6. B * q = q * B
  BY <1>1
<1> QED
  BY <1>1, <1>2, <1>3, <1>4, <1>5, <1>6

\* A frame announces the length of its payload, and the payload follows.
LEMMA FrameIs ==
  ASSUME NEW p \in Seq(Byte), Len(p) <= MaxPayload
  PROVE  /\ Frame(p) \in Seq(Byte) /\ Len(Frame(p)) = 2 + Len(p)
         /\ Frame(p)[1] \in Nat /\ Frame(p)[2] \in Nat
         /\ Frame(p)[1] * Base + Frame(p)[2] = Len(p)
         /\ \A i \in 1..Len(p) : Frame(p)[i + 2] = p[i]
<1>1. Len(p) \in 0..(Base * Base - 1)
  BY LenProperties, ChannelAssumption DEF MaxPayload
<1>2. PICK h : h = Header(Len(p))
  OBVIOUS
<1>3. /\ h = <<Len(p) \div Base, Len(p) % Base>>
      /\ Len(p) \div Base \in Byte /\ Len(p) % Base \in Byte
      /\ (Len(p) \div Base) * Base + (Len(p) % Base) = Len(p)
  BY <1>1, <1>2, DivMod, ChannelAssumption DEF Header, Byte
<1>4. h \in Seq(Byte) /\ Len(h) = 2 /\ h[1] \in Nat /\ h[2] \in Nat /\ h[1] * Base + h[2] = Len(p)
  BY <1>3, ChannelAssumption DEF Byte
<1>5. /\ h \o p \in Seq(Byte) /\ Len(h \o p) = Len(h) + Len(p)
      /\ \A i \in 1..(Len(h) + Len(p)) : (h \o p)[i] = IF i <= Len(h) THEN h[i] ELSE p[i - Len(h)]
  BY <1>4, ConcatProperties
<1>6. Len(p) \in Nat
  BY LenProperties
<1>7. PICK f : f = h \o p
  OBVIOUS
<1>8. /\ f \in Seq(Byte) /\ Len(f) = 2 + Len(p)
      /\ \A i \in 1..(2 + Len(p)) : f[i] = IF i <= 2 THEN h[i] ELSE p[i - 2]
  BY <1>4, <1>5, <1>7
<1>9. f[1] = h[1] /\ f[2] = h[2]
  BY <1>6, <1>8
<1>10. \A i \in 1..Len(p) : f[i + 2] = p[i]
  <2> TAKE i \in 1..Len(p)
  <2>1. i + 2 \in 1..(2 + Len(p)) /\ ~(i + 2 <= 2) /\ (i + 2) - 2 = i
    BY <1>6
  <2> QED
    BY <2>1, <1>8
<1>11. f = Frame(p)
  BY <1>2, <1>7 DEF Frame
<1> QED
  BY <1>4, <1>8, <1>9, <1>10, <1>11

\* The payloads that send accepts.
Sendable == {p \in Payloads : Len(p) <= MaxPayload}

\* They are payloads, and so are their frames sequences of bytes.
LEMMA SendableIs ==
  /\ Sendable \subseteq Seq(Byte)
  /\ Sendable \subseteq Payloads
  /\ \A p \in Sendable : Frame(p) \in Seq(Byte)
<1>1. Sendable \subseteq Seq(Byte) /\ Sendable \subseteq Payloads
  BY ChannelAssumption DEF Sendable
<1>2. ASSUME NEW p \in Sendable PROVE Frame(p) \in Seq(Byte)
  <2>1. p \in Seq(Byte) /\ Len(p) <= MaxPayload
    BY <1>1 DEF Sendable
  <2> QED
    BY <2>1, FrameIs
<1> QED
  BY <1>1, <1>2

\* The frames of some messages, not yet put together.
Frames(m) == [n \in DOMAIN m |-> Frame(m[n])]

\* There is one for each message.
LEMMA FramesType ==
  ASSUME NEW m \in Seq(Sendable)
  PROVE  Frames(m) \in Seq(Seq(Byte)) /\ Len(Frames(m)) = Len(m)
         /\ \A i \in 1..Len(m) : Frames(m)[i] = Frame(m[i])
<1>1. PICK n \in Nat : n = Len(m) /\ DOMAIN m = 1..n
  BY LenProperties
<1>2. \A i \in 1..n : Frame(m[i]) \in Seq(Byte)
  BY <1>1, ElementOfSeq, SendableIs
<1>3. PICK f : f = Frames(m)
  OBVIOUS
<1>4. f \in [1..n -> Seq(Byte)] /\ \A i \in 1..n : f[i] = Frame(m[i])
  BY <1>1, <1>2, <1>3 DEF Frames
<1>5. f \in Seq(Seq(Byte)) /\ Len(f) = n
  BY <1>4
<1> QED
  BY <1>1, <1>3, <1>4, <1>5

\* Encoded puts them together.
LEMMA EncodedIs ==
  ASSUME NEW m PROVE Encoded(m) = FlattenSeq(Frames(m))
  BY DEF Encoded, Frames

\* The encoding of messages is a sequence of bytes.
LEMMA EncodedType ==
  ASSUME NEW m \in Seq(Sendable)
  PROVE  Encoded(m) \in Seq(Byte)
  BY FramesType, FlattenSeqType, EncodedIs

\* No message, no byte.
LEMMA EncodedEmpty == Encoded(<<>>) = <<>>
<1>1. <<>> \in Seq(Sendable)
  BY EmptySeq
<1>2. Frames(<<>>) = <<>>
  BY <1>1, FramesType, EmptySeq
<1> QED
  BY <1>2, EncodedIs, FlattenSeqEmpty

\* One more message, one more frame at the end.
LEMMA EncodedAppend ==
  ASSUME NEW m \in Seq(Sendable), NEW p \in Sendable
  PROVE  Encoded(Append(m, p)) = Encoded(m) \o Frame(p)
<1>1. PICK n \in Nat : n = Len(m)
  BY LenProperties
<1>2. PICK t \in Seq(Sendable) : t = Append(m, p)
  BY AppendProperties
<1>3. Len(t) = n + 1 /\ t[n + 1] = p /\ \A i \in 1..n : t[i] = m[i]
  BY <1>1, <1>2, AppendProperties
<1>4. PICK u \in Seq(Seq(Byte)) : u = Append(Frames(m), Frame(p))
  BY FramesType, SendableIs, AppendProperties
<1>5. /\ Len(u) = n + 1 /\ u[n + 1] = Frame(p)
      /\ \A i \in 1..n : u[i] = Frame(m[i])
  BY <1>1, <1>4, FramesType, SendableIs, AppendProperties
<1>6. PICK f \in Seq(Seq(Byte)) : f = Frames(t)
  BY FramesType
<1>7. Len(f) = n + 1 /\ \A i \in 1..(n + 1) : f[i] = Frame(t[i])
  BY <1>3, <1>6, FramesType
<1>8. \A i \in 1..(n + 1) : f[i] = u[i]
  <2> TAKE i \in 1..(n + 1)
  <2>1. CASE i \in 1..n
    BY <2>1, <1>3, <1>5, <1>7
  <2>2. CASE i = n + 1
    BY <2>2, <1>3, <1>5, <1>7
  <2> QED
    BY <2>1, <2>2
<1>9. f = u
  BY <1>5, <1>7, <1>8, SeqEqual
<1>10. FlattenSeq(u) = FlattenSeq(Frames(m)) \o Frame(p)
  BY <1>4, FramesType, SendableIs, FlattenSeqAppend
<1> QED
  BY <1>2, <1>6, <1>9, <1>10, EncodedIs

\* The encoding of messages begins with the frame of the first.
LEMMA EncodedHead ==
  ASSUME NEW m \in Seq(Sendable), m # <<>>
  PROVE  Encoded(m) = Frame(Head(m)) \o Encoded(Tail(m))
<1>1. PICK n \in Nat \ {0} : n = Len(m)
  BY EmptySeq
<1>2. /\ Head(m) \in Sendable /\ Head(m) = m[1]
      /\ Tail(m) \in Seq(Sendable) /\ Len(Tail(m)) = n - 1
      /\ \A i \in 1..(n - 1) : Tail(m)[i] = m[i + 1]
  BY <1>1, HeadTailProperties
<1>3. PICK f \in Seq(Seq(Byte)) : f = Frames(m)
  BY FramesType
<1>4. Len(f) = n /\ \A i \in 1..n : f[i] = Frame(m[i])
  BY <1>1, <1>3, FramesType
<1>5. f # <<>>
  BY <1>4, EmptySeq
<1>6. /\ Head(f) = f[1]
      /\ Tail(f) \in Seq(Seq(Byte)) /\ Len(Tail(f)) = n - 1
      /\ \A i \in 1..(n - 1) : Tail(f)[i] = f[i + 1]
  BY <1>4, <1>5, HeadTailProperties
<1>7. PICK g \in Seq(Seq(Byte)) : g = Frames(Tail(m))
  BY <1>2, FramesType
<1>8. Len(g) = n - 1 /\ \A i \in 1..(n - 1) : g[i] = Frame(Tail(m)[i])
  BY <1>2, <1>7, FramesType
<1>9. \A i \in 1..(n - 1) : Tail(f)[i] = g[i]
  <2> TAKE i \in 1..(n - 1)
  <2>1. i + 1 \in 1..n
    BY <1>1
  <2>2. g[i] = Frame(m[i + 1])
    BY <1>2, <1>8
  <2>3. Tail(f)[i] = f[i + 1] /\ f[i + 1] = Frame(m[i + 1])
    BY <2>1, <1>4, <1>6
  <2> QED
    BY <2>2, <2>3
<1>10. Tail(f) = g
  BY <1>6, <1>8, <1>9, SeqEqual
<1>11. Head(f) = Frame(Head(m))
  BY <1>1, <1>2, <1>4, <1>6
<1>12. FlattenSeq(f) = Head(f) \o FlattenSeq(Tail(f))
  BY <1>5, FlattenSeqHead
<1> QED
  BY <1>3, <1>7, <1>10, <1>11, <1>12, EncodedIs

\* The buffer rb holds a whole message of n bytes, by the two bytes it begins with.
Announces(rb, n) ==
    /\ Len(rb) >= 2 /\ n = rb[1] * Base + rb[2]
    /\ Len(rb) >= 2 + n

\* When the buffer and what follows it are the frame of p and the rest, then a message
\* that the buffer holds as a whole is p, and p's frame is what taking it removes:
\* receive_binary never takes the end of a message for the beginning of one.
LEMMA TakenFrame ==
  ASSUME NEW p \in Sendable, NEW rb \in Seq(Byte), NEW tail \in Seq(Byte), NEW rest \in Seq(Byte),
         SameJoin(rb, tail, Frame(p), rest),
         NEW n, Announces(rb, n)
  PROVE  /\ SubSeq(rb, 3, 2 + n) = p
         /\ SubSeq(rb, 3 + n, Len(rb)) \in Seq(Byte)
         /\ Joins(SubSeq(rb, 3 + n, Len(rb)), tail, rest)
<1> USE DEF Announces
<1>0. Len(rb) \in Nat /\ Len(tail) \in Nat /\ Len(rest) \in Nat /\ Len(p) \in Nat
      /\ p \in Seq(Byte) /\ Len(p) <= MaxPayload
  BY LenProperties, SendableIs DEF Sendable
<1>1. PICK f \in Seq(Byte) : f = Frame(p)
  BY SendableIs
<1>2. /\ Len(f) = 2 + Len(p) /\ f[1] * Base + f[2] = Len(p)
      /\ \A i \in 1..Len(p) : f[i + 2] = p[i]
  BY <1>0, <1>1, FrameIs
<1>3. rb[1] = f[1] /\ rb[2] = f[2]
  <2>1. \A i \in 1..(Len(rb) + Len(tail)) : (rb \o tail)[i] = IF i <= Len(rb) THEN rb[i] ELSE tail[i - Len(rb)]
    BY ConcatProperties
  <2>2. \A i \in 1..(Len(f) + Len(rest)) : (f \o rest)[i] = IF i <= Len(f) THEN f[i] ELSE rest[i - Len(f)]
    BY ConcatProperties
  <2>3. (rb \o tail)[1] = rb[1] /\ (rb \o tail)[2] = rb[2]
    BY <2>1, <1>0
  <2>4. (f \o rest)[1] = f[1] /\ (f \o rest)[2] = f[2]
    BY <2>2, <1>0, <1>2
  <2> QED
    BY <2>3, <2>4, <1>1 DEF SameJoin
<1>4. n = Len(p)
  BY <1>2, <1>3
<1>5. Len(f) <= Len(rb) /\ Len(f) + 1 = 3 + n
  BY <1>0, <1>2, <1>4
<1>6. /\ \A i \in 1..Len(f) : rb[i] = f[i]
      /\ rb = f \o SubSeq(rb, Len(f) + 1, Len(rb))
      /\ SubSeq(rb, Len(f) + 1, Len(rb)) \in Seq(Byte)
      /\ SubSeq(rb, Len(f) + 1, Len(rb)) \o tail = rest
  <2>1. SameJoin(rb, tail, f, rest)
    BY <1>1 DEF SameJoin
  <2>2. /\ SubSeq(rb, Len(f) + 1, Len(rb)) \in Seq(Byte)
        /\ SplitsAfter(rb, tail, f, rest, SubSeq(rb, Len(f) + 1, Len(rb)))
    BY <2>1, <1>5, SplitPrefix
  <2> QED
    BY <2>2 DEF SplitsAfter
<1>7. SubSeq(rb, 3, 2 + n) = p
  <2>1. PICK q : q = SubSeq(rb, 3, 2 + n)
    OBVIOUS
  <2>2. 3 \in Int /\ 2 + n \in Int /\ \A i \in 3..(2 + n) : rb[i] \in Byte
    BY <1>0, <1>4, ElementOfSeq
  <2>3. /\ q \in Seq(Byte) /\ Len(q) = IF 3 <= 2 + n THEN (2 + n) - 3 + 1 ELSE 0
        /\ \A i \in 1..((2 + n) - 3 + 1) : q[i] = rb[3 + i - 1]
    BY <2>1, <2>2, SubSeqProperties
  <2>4. Len(q) = Len(p)
    BY <2>3, <1>0, <1>4
  <2>5. \A i \in 1..Len(p) : q[i] = p[i]
    <3> TAKE i \in 1..Len(p)
    <3>1. i \in 1..((2 + n) - 3 + 1) /\ 3 + i - 1 = i + 2 /\ i + 2 \in 1..Len(f)
      BY <1>0, <1>2, <1>4
    <3>2. q[i] = rb[i + 2]
      BY <3>1, <2>3
    <3>3. rb[i + 2] = f[i + 2]
      BY <3>1, <1>6
    <3> QED
      BY <3>2, <3>3, <1>2
  <2>6. q = p
    BY <2>3, <2>4, <2>5, <1>0, SeqEqual
  <2> QED
    BY <2>1, <2>6
<1> QED
  BY <1>1, <1>4, <1>5, <1>6, <1>7 DEF Joins

\* The messages of a behind those of r.
InTransitOf(a, r) == SubSeq(a, Len(r) + 1, Len(a))

\* They are Len(a) - Len(r) messages of a.
LEMMA InTransitType ==
  ASSUME NEW R, NEW a \in Seq(R), NEW r \in Seq(R), Len(r) <= Len(a)
  PROVE  /\ InTransitOf(a, r) \in Seq(R)
         /\ Len(InTransitOf(a, r)) = Len(a) - Len(r)
         /\ \A i \in 1..(Len(a) - Len(r)) : InTransitOf(a, r)[i] = a[Len(r) + i]
<1>1. Len(a) \in Nat /\ Len(r) \in Nat
  BY LenProperties
<1>2. \A i \in (Len(r) + 1)..Len(a) : a[i] \in R
  BY <1>1, ElementOfSeq
<1>3. PICK t : t = InTransitOf(a, r)
  OBVIOUS
<1>4. /\ t \in Seq(R)
      /\ Len(t) = IF Len(r) + 1 <= Len(a) THEN Len(a) - (Len(r) + 1) + 1 ELSE 0
      /\ \A i \in 1..(Len(a) - (Len(r) + 1) + 1) : t[i] = a[(Len(r) + 1) + i - 1]
  BY <1>1, <1>2, <1>3, SubSeqProperties DEF InTransitOf
<1>5. Len(t) = Len(a) - Len(r)
  BY <1>1, <1>4
<1>6. ASSUME NEW i \in 1..(Len(a) - Len(r)) PROVE t[i] = a[Len(r) + i]
  <2>1. i \in 1..(Len(a) - (Len(r) + 1) + 1) /\ (Len(r) + 1) + i - 1 = Len(r) + i
    BY <1>1
  <2> QED
    BY <2>1, <1>4
<1> QED
  BY <1>3, <1>4, <1>5, <1>6

\* A message that is sent comes behind them.
LEMMA InTransitAppend ==
  ASSUME NEW R, NEW a \in Seq(R), NEW r \in Seq(R), Len(r) <= Len(a), NEW p \in R
  PROVE  InTransitOf(Append(a, p), r) = Append(InTransitOf(a, r), p)
<1>1. PICK n \in Nat, k \in Nat : n = Len(a) /\ k = Len(r)
  BY LenProperties
<1>2. PICK b \in Seq(R) : b = Append(a, p)
  BY AppendProperties
<1>3. Len(b) = n + 1 /\ b[n + 1] = p /\ \A i \in 1..n : b[i] = a[i]
  BY <1>1, <1>2, AppendProperties
<1>4. PICK t \in Seq(R) : t = InTransitOf(a, r)
  BY InTransitType
<1>5. Len(t) = n - k /\ \A i \in 1..(n - k) : t[i] = a[k + i]
  BY <1>1, <1>4, InTransitType
<1>6. PICK u \in Seq(R) : u = Append(t, p)
  BY AppendProperties
<1>7. Len(u) = n - k + 1 /\ u[n - k + 1] = p /\ \A i \in 1..(n - k) : u[i] = t[i]
  <2>1. Len(u) = Len(t) + 1 /\ u[Len(t) + 1] = p /\ \A i \in 1..Len(t) : u[i] = t[i]
    BY <1>6, AppendProperties
  <2> QED
    BY <2>1, <1>5
<1>8. Len(r) <= Len(b)
  BY <1>1, <1>3
<1>9. PICK v \in Seq(R) : v = InTransitOf(b, r)
  BY <1>8, InTransitType
<1>10. Len(v) = (n + 1) - k /\ \A i \in 1..((n + 1) - k) : v[i] = b[k + i]
  BY <1>1, <1>3, <1>8, <1>9, InTransitType
<1>11. Len(u) = Len(v)
  BY <1>7, <1>10
<1>12. \A i \in 1..Len(v) : v[i] = u[i]
  <2> TAKE i \in 1..Len(v)
  <2>1. CASE i \in 1..(n - k)
    <3>1. k + i \in 1..n /\ i \in 1..((n + 1) - k)
      BY <2>1, <1>1
    <3>2. v[i] = b[k + i] /\ b[k + i] = a[k + i] /\ u[i] = t[i] /\ t[i] = a[k + i]
      BY <3>1, <2>1, <1>3, <1>5, <1>7, <1>10
    <3> QED
      BY <3>2
  <2>2. CASE i = n - k + 1
    <3>1. k + i = n + 1 /\ i \in 1..((n + 1) - k)
      BY <2>2, <1>1, <1>10
    <3>2. v[i] = b[n + 1]
      BY <3>1, <1>10
    <3> QED
      BY <3>2, <2>2, <1>3, <1>7
  <2>3. i \in 1..(n - k) \/ i = n - k + 1
    <3>1. i \in Int /\ 1 <= i /\ i <= (n + 1) - k
      BY <1>10
    <3> QED
      BY <3>1
  <2> QED
    BY <2>1, <2>2, <2>3
<1>13. v = u
  BY <1>11, <1>12, SeqEqual
<1> QED
  BY <1>2, <1>4, <1>6, <1>9, <1>13

\* A message that is received was the first of them.
LEMMA InTransitTake ==
  ASSUME NEW R, NEW a \in Seq(R), NEW r \in Seq(R), Len(r) < Len(a), NEW p \in R
  PROVE  InTransitOf(a, Append(r, p)) = Tail(InTransitOf(a, r))
<1>1. PICK n \in Nat, k \in Nat : n = Len(a) /\ k = Len(r)
  BY LenProperties
<1>2. PICK q \in Seq(R) : q = Append(r, p) /\ Len(q) = k + 1
  BY <1>1, AppendProperties
<1>3. k + 1 \in 1..Len(a) /\ Len(a) \in (k + 1)..Len(a)
  BY <1>1
<1>4. Tail(SubSeq(a, k + 1, Len(a))) = SubSeq(a, k + 1 + 1, Len(a))
  BY <1>3, HeadTailOfSubSeq
<1> QED
  BY <1>1, <1>2, <1>4 DEF InTransitOf

\* The bytes on their way: in the reader's buffer, on the wire, in the writer's hands.
Stream(b, w, s) == b \o w \o s

\* They are bytes.
LEMMA StreamType ==
  ASSUME NEW R, NEW b \in Seq(R), NEW w \in Seq(R), NEW s \in Seq(R)
  PROVE  Stream(b, w, s) \in Seq(R)
<1>1. b \o w \in Seq(R)
  BY ConcatProperties
<1> QED
  BY <1>1, ConcatProperties DEF Stream

\* What the writer holds comes last.
LEMMA StreamSend ==
  ASSUME NEW R, NEW b \in Seq(R), NEW w \in Seq(R), NEW s \in Seq(R)
  PROVE  Stream(b, w, s) = Stream(b, w, <<>>) \o s
<1>1. b \o w \in Seq(R)
  BY ConcatProperties
<1>2. (b \o w) \o <<>> = b \o w
  BY <1>1, ConcatEmptySeq
<1> QED
  BY <1>2 DEF Stream

\* Writing moves bytes and changes nothing of the stream.
LEMMA StreamWrite ==
  ASSUME NEW R, NEW b \in Seq(R), NEW w \in Seq(R), NEW x \in Seq(R), NEW y \in Seq(R)
  PROVE  Stream(b, w \o x, y) = Stream(b, w, x \o y)
<1>1. PICK wx \in Seq(R), xy \in Seq(R) : wx = w \o x /\ xy = x \o y
  BY ConcatProperties
<1>2. Stream(b, wx, y) = b \o (wx \o y) /\ Stream(b, w, xy) = b \o (w \o xy)
  <2>1. Associates(b, wx, y) /\ Associates(b, w, xy)
    BY ConcatAssociates
  <2> QED
    BY <2>1 DEF Stream, Associates
<1>3. Associates(w, x, y)
  BY ConcatAssociates
<1>4. wx \o y = w \o xy
  BY <1>1, <1>3 DEF Associates
<1> QED
  BY <1>1, <1>2, <1>4

\* Nor does reading.
LEMMA StreamRead ==
  ASSUME NEW R, NEW b \in Seq(R), NEW x \in Seq(R), NEW y \in Seq(R), NEW s \in Seq(R)
  PROVE  Stream(b \o x, y, s) = Stream(b, x \o y, s)
<1>1. Associates(b, x, y)
  BY ConcatAssociates
<1>2. (b \o x) \o y = b \o (x \o y)
  BY <1>1 DEF Associates
<1> QED
  BY <1>2 DEF Stream

\* Bytes in front of the buffer are bytes in front of the stream.
LEMMA StreamPrefix ==
  ASSUME NEW R, NEW a \in Seq(R), NEW b \in Seq(R), NEW w \in Seq(R), NEW s \in Seq(R),
         NEW ab, Joins(a, b, ab)
  PROVE  Joins(a, Stream(b, w, s), Stream(ab, w, s))
<1>1. PICK ws \in Seq(R) : ws = w \o s
  BY ConcatProperties
<1>2. ab \in Seq(R)
  BY ConcatProperties DEF Joins
<1>3. Associates(ab, w, s) /\ Associates(b, w, s) /\ Associates(a, b, ws)
  BY <1>2, ConcatAssociates
<1>4. Stream(ab, w, s) = ab \o ws /\ Stream(b, w, s) = b \o ws
  BY <1>1, <1>3 DEF Stream, Associates
<1>5. ab \o ws = a \o (b \o ws)
  BY <1>3 DEF Associates, Joins
<1> QED
  BY <1>4, <1>5 DEF Joins

\* The messages that were sent and are not yet received.
InTransit == InTransitOf(accepted, received)

\* The inductive invariant: besides the types, the bytes on their way are exactly the
\* frames of the messages on their way, and those complete what was received to what
\* was accepted.  FramesAligned alone does not say where a frame begins.
ChannelInv ==
    /\ sends \in 0..MaxMessages /\ receiving \in BOOLEAN /\ open \in BOOLEAN
    /\ accepted \in Seq(Sendable) /\ received \in Seq(Sendable)
    /\ writing \in Seq(Byte) /\ wire \in Seq(Byte) /\ read_buffer \in Seq(Byte)
    /\ Len(received) <= Len(accepted)
    /\ Stream(read_buffer, wire, writing) = Encoded(InTransit)
    /\ Encoded(received) \o Encoded(InTransit) = Encoded(accepted)

\* It holds when the channel is made.
LEMMA ChannelInitInv == ChannelInit => ChannelInv
<1> SUFFICES ASSUME ChannelInit PROVE ChannelInv
  OBVIOUS
<1> USE DEF ChannelInit
<1>1. <<>> \in Seq(Sendable) /\ <<>> \in Seq(Byte) /\ Len(<<>>) = 0
  BY EmptySeq
<1>2. <<>> \o <<>> = <<>>
  BY <1>1, ConcatEmptySeq
<1>3. InTransitOf(<<>>, <<>>) = <<>>
  BY <1>1, SubSeqEmpty DEF InTransitOf
<1>4. Stream(<<>>, <<>>, <<>>) = <<>>
  BY <1>2 DEF Stream
<1>5. InTransit = <<>>
  BY <1>3 DEF InTransit
<1>6. /\ Stream(read_buffer, wire, writing) = Encoded(InTransit)
      /\ Encoded(received) \o Encoded(InTransit) = Encoded(accepted)
  BY <1>2, <1>4, <1>5, EncodedEmpty
<1>7. sends \in 0..MaxMessages
  BY ChannelAssumption
<1>8. /\ accepted \in Seq(Sendable) /\ received \in Seq(Sendable)
      /\ writing \in Seq(Byte) /\ wire \in Seq(Byte) /\ read_buffer \in Seq(Byte)
      /\ receiving \in BOOLEAN /\ open \in BOOLEAN
  BY <1>1
<1>9. Len(received) <= Len(accepted)
  BY <1>1
<1> HIDE DEF ChannelInit
<1> QED
  BY <1>6, <1>7, <1>8, <1>9 DEF ChannelInv

\* A send that is refused changes nothing; another puts one message on its way.
LEMMA SendInv ==
  ASSUME ChannelInv, NEW payload \in Payloads, Send(payload)
  PROVE  ChannelInv' /\ (InTransit' = InTransit \/ InTransit' = Append(InTransit, payload))
<1> USE DEF ChannelInv
<1>0. sends' \in 0..MaxMessages
  BY ChannelAssumption DEF Send
<1>1. CASE Len(payload) > MaxPayload
  <2>1. UNCHANGED <<writing, accepted, wire, read_buffer, receiving, received, open>>
    BY <1>1 DEF Send
  <2>2. InTransit' = InTransit
    BY <2>1 DEF InTransit
  <2> QED
    BY <1>0, <2>1, <2>2
<1>2. CASE ~(Len(payload) > MaxPayload)
  <2>1. PICK p \in Sendable : p = payload
    <3>1. Len(payload) \in Nat
      BY ChannelAssumption, LenProperties
    <3>2. MaxPayload \in Int
      BY ChannelAssumption DEF MaxPayload
    <3> QED
      BY <1>2, <3>1, <3>2 DEF Sendable
  <2>2. /\ writing = <<>> /\ writing' = Frame(p) /\ accepted' = Append(accepted, p)
        /\ UNCHANGED <<wire, read_buffer, receiving, received, open>>
    BY <1>2, <2>1 DEF Send
  <2>3. PICK it \in Seq(Sendable) : it = InTransit
    BY InTransitType DEF InTransit
  <2>4. InTransit' = Append(it, p)
    BY <2>2, <2>3, InTransitAppend DEF InTransit
  <2>5. Encoded(Append(it, p)) = Encoded(it) \o Frame(p)
        /\ Encoded(Append(accepted, p)) = Encoded(accepted) \o Frame(p)
    BY EncodedAppend
  <2>6. PICK f \in Seq(Byte) : f = Frame(p)
    BY SendableIs
  <2>7. Stream(read_buffer, wire, f) = Stream(read_buffer, wire, <<>>) \o f
    BY StreamSend
  <2>8. Stream(read_buffer, wire, writing)' = Encoded(InTransit)'
    BY <2>2, <2>3, <2>4, <2>5, <2>6, <2>7
  <2>9. (Encoded(received) \o Encoded(InTransit))' = Encoded(accepted)'
    <3>1. PICK er \in Seq(Byte), ei \in Seq(Byte) : er = Encoded(received) /\ ei = Encoded(it)
      BY EncodedType
    <3>2. Associates(er, ei, f)
      BY ConcatAssociates
    <3>3. (er \o ei) \o f = er \o (ei \o f)
      BY <3>2 DEF Associates
    <3> QED
      BY <2>2, <2>3, <2>4, <2>5, <2>6, <3>1, <3>3
  <2>10. accepted' \in Seq(Sendable) /\ Len(accepted') = Len(accepted) + 1
    BY <2>2, AppendProperties
  <2>11. Len(received') <= Len(accepted')
    BY <2>2, <2>10, LenProperties
  <2> QED
    BY <1>0, <2>1, <2>2, <2>3, <2>4, <2>6, <2>8, <2>9, <2>10, <2>11
<1> QED
  BY <1>1, <1>2

\* receive returns the first message on its way, whole.
LEMMA TakeFrameInv ==
  ASSUME ChannelInv, TakeFrame
  PROVE  /\ ChannelInv' /\ InTransit # <<>>
         /\ received' = Append(received, Head(InTransit)) /\ InTransit' = Tail(InTransit)
<1> USE DEF ChannelInv
<1>1. PICK it \in Seq(Sendable) : it = InTransit
  BY InTransitType DEF InTransit
<1>2. PICK rb \in Seq(Byte), tail \in Seq(Byte) : rb = read_buffer /\ tail = wire \o writing
  <2>1. wire \o writing \in Seq(Byte)
    BY ConcatProperties
  <2> QED
    BY <2>1
<1>3. PICK n : n = PayloadLen
  OBVIOUS
<1>4. Announces(rb, n)
  BY <1>2, <1>3 DEF TakeFrame, Complete, PayloadLen, Announces
<1>5. rb \o tail = Encoded(it)
  <2>1. Associates(read_buffer, wire, writing)
    BY ConcatAssociates
  <2> QED
    BY <2>1, <1>1, <1>2 DEF Associates, Stream
<1>6. it # <<>>
  <2>1. rb \o tail \in Seq(Byte) /\ Len(rb \o tail) = Len(rb) + Len(tail)
    BY ConcatProperties
  <2>2. Len(rb) \in Nat /\ Len(tail) \in Nat
    BY LenProperties
  <2>3. Len(rb \o tail) # 0
    BY <1>4, <2>1, <2>2 DEF Announces
  <2>4. Len(<<>>) = 0
    BY EmptySeq
  <2> QED
    BY <1>5, <2>3, <2>4, EncodedEmpty
<1>7. PICK p \in Sendable, more \in Seq(Sendable) : p = Head(it) /\ more = Tail(it)
  BY <1>6, HeadTailProperties
<1>8. PICK rest \in Seq(Byte) : rest = Encoded(more)
  BY EncodedType
<1>9. Encoded(it) = Frame(p) \o rest
  BY <1>6, <1>7, <1>8, EncodedHead
<1>10. SameJoin(rb, tail, Frame(p), rest)
  BY <1>5, <1>9 DEF SameJoin
<1>11. PICK left \in Seq(Byte) : left = SubSeq(rb, 3 + n, Len(rb))
  BY <1>4, <1>10, TakenFrame
<1>12. SubSeq(rb, 3, 2 + n) = p /\ Joins(left, tail, rest)
  BY <1>4, <1>10, <1>11, TakenFrame
<1>13. /\ received' = Append(received, p) /\ read_buffer' = left /\ receiving' = FALSE
       /\ UNCHANGED <<sends, accepted, writing, wire, open>>
  BY <1>2, <1>3, <1>11, <1>12 DEF TakeFrame
<1>14. Len(received) < Len(accepted)
  <2>1. Len(it) = Len(accepted) - Len(received)
    BY <1>1, InTransitType DEF InTransit
  <2>2. Len(it) \in Nat \ {0} /\ Len(accepted) \in Nat /\ Len(received) \in Nat
    BY <1>6, EmptySeq, LenProperties
  <2> QED
    BY <2>1, <2>2
<1>15. InTransit' = more
  BY <1>1, <1>7, <1>13, <1>14, InTransitTake DEF InTransit
<1>16. received' \in Seq(Sendable) /\ Len(received') = Len(received) + 1
  BY <1>13, AppendProperties
<1>17. Len(received') <= Len(accepted')
  BY <1>13, <1>14, <1>16, LenProperties
<1>18. Stream(read_buffer, wire, writing)' = Encoded(InTransit)'
  <2>1. Associates(left, wire, writing)
    BY ConcatAssociates
  <2>2. Stream(left, wire, writing) = left \o tail
    BY <2>1, <1>2 DEF Associates, Stream
  <2> QED
    BY <2>2, <1>8, <1>12, <1>13, <1>15 DEF Joins
<1>19. (Encoded(received) \o Encoded(InTransit))' = Encoded(accepted)'
  <2>1. PICK er \in Seq(Byte), f \in Seq(Byte) : er = Encoded(received) /\ f = Frame(p)
    BY EncodedType, SendableIs
  <2>2. Associates(er, f, rest)
    BY ConcatAssociates
  <2>3. (er \o f) \o rest = er \o (f \o rest)
    BY <2>2 DEF Associates
  <2>4. Encoded(Append(received, p)) = er \o f
    BY <2>1, EncodedAppend
  <2>5. er \o (f \o rest) = Encoded(accepted)
    BY <2>1, <1>1, <1>9
  <2> QED
    BY <2>3, <2>4, <2>5, <1>8, <1>13, <1>15
<1> QED
  BY <1>1, <1>6, <1>7, <1>11, <1>13, <1>15, <1>16, <1>17, <1>18, <1>19

\* No other step, a dropped receive and the end of the stream among them, changes
\* which messages are on their way.
LEMMA TransferInv ==
  ASSUME ChannelInv,
         \/ \E n \in 1..Len(writing) : WriteSome(n)
         \/ \E n \in 1..Len(wire) : ReadSome(n)
         \/ Receive \/ ReadEof \/ CancelReceive \/ Close \/ UNCHANGED channelVars
  PROVE  ChannelInv' /\ UNCHANGED <<accepted, received>> /\ InTransit' = InTransit
<1> USE DEF ChannelInv
<1>1. UNCHANGED <<accepted, received>> /\ InTransit' = InTransit
  BY DEF WriteSome, ReadSome, Receive, ReadEof, CancelReceive, Close, channelVars, InTransit
<1>2. UNCHANGED sends /\ receiving' \in BOOLEAN /\ open' \in BOOLEAN
  BY DEF WriteSome, ReadSome, Receive, ReadEof, CancelReceive, Close, channelVars
<1>3. /\ writing' \in Seq(Byte) /\ wire' \in Seq(Byte) /\ read_buffer' \in Seq(Byte)
      /\ Stream(read_buffer', wire', writing') = Stream(read_buffer, wire, writing)
  <2>1. CASE \E n \in 1..Len(writing) : WriteSome(n)
    <3>1. PICK n \in 1..Len(writing) : WriteSome(n)
      BY <2>1
    <3>2. PICK x \in Seq(Byte), y \in Seq(Byte) :
            x = SubSeq(writing, 1, n) /\ y = SubSeq(writing, n + 1, Len(writing)) /\ Joins(x, y, writing)
      BY SplitAt
    <3>3. wire' = wire \o x /\ writing' = y /\ read_buffer' = read_buffer
      BY <3>1, <3>2 DEF WriteSome
    <3>4. wire \o x \in Seq(Byte)
      BY ConcatProperties
    <3>5. Stream(read_buffer, wire \o x, y) = Stream(read_buffer, wire, x \o y)
      BY StreamWrite
    <3> QED
      BY <3>2, <3>3, <3>4, <3>5 DEF Joins
  <2>2. CASE \E n \in 1..Len(wire) : ReadSome(n)
    <3>1. PICK n \in 1..Len(wire) : ReadSome(n)
      BY <2>2
    <3>2. PICK x \in Seq(Byte), y \in Seq(Byte) :
            x = SubSeq(wire, 1, n) /\ y = SubSeq(wire, n + 1, Len(wire)) /\ Joins(x, y, wire)
      BY SplitAt
    <3>3. read_buffer' = read_buffer \o x /\ wire' = y /\ writing' = writing
      BY <3>1, <3>2 DEF ReadSome
    <3>4. read_buffer \o x \in Seq(Byte)
      BY ConcatProperties
    <3>5. Stream(read_buffer \o x, y, writing) = Stream(read_buffer, x \o y, writing)
      BY StreamRead
    <3> QED
      BY <3>2, <3>3, <3>4, <3>5 DEF Joins
  <2>3. CASE Receive \/ ReadEof \/ CancelReceive \/ Close \/ UNCHANGED channelVars
    BY <2>3 DEF Receive, ReadEof, CancelReceive, Close, channelVars
  <2> QED
    BY <2>1, <2>2, <2>3
<1>4. (Encoded(received) \o Encoded(InTransit) = Encoded(accepted))'
  BY <1>1
<1> QED
  BY <1>1, <1>2, <1>3, <1>4

\* The messages on their way and the bytes on their way stay in step, for any payloads,
\* any width of a byte and any number of messages.
THEOREM ChannelAlwaysInv == ChannelSpec => []ChannelInv
<1>1. ChannelInv /\ [ChannelNext]_channelVars => ChannelInv'
  BY SendInv, TakeFrameInv, TransferInv DEF ChannelNext, WriteStep, ReadStep
<1> QED
  BY <1>1, ChannelInitInv, PTL DEF ChannelSpec

\* The invariant gives the property the run checks, and the types.
LEMMA InvAligned == ChannelInv => FramesAligned /\ ChannelTypeOK
<1> SUFFICES ASSUME ChannelInv PROVE FramesAligned /\ ChannelTypeOK
  OBVIOUS
<1>1. accepted \in Seq(Payloads) /\ received \in Seq(Payloads)
  BY SendableIs, SeqMonotonic DEF ChannelInv
<1>2. ChannelTypeOK
  BY <1>1 DEF ChannelInv, ChannelTypeOK
<1>3. PICK er \in Seq(Byte) : er = Encoded(received)
  BY EncodedType DEF ChannelInv
<1>4. PICK eb : Joins(er, read_buffer, eb)
  BY DEF Joins
<1>5. Stream(eb, wire, writing) = Encoded(accepted)
  <2>1. Joins(er, Stream(read_buffer, wire, writing), Stream(eb, wire, writing))
    BY <1>4, StreamPrefix DEF ChannelInv
  <2> QED
    BY <1>3, <2>1 DEF ChannelInv, Joins
<1> QED
  BY <1>2, <1>3, <1>4, <1>5 DEF FramesAligned, Stream, Joins

\* However the stream cuts the frames and wherever a receive is dropped, the reader's
\* buffer continues where the received messages end (MessageChannel::receive_binary).
THEOREM FramesStayAligned == ChannelSpec => []FramesAligned
  BY ChannelAlwaysInv, InvAligned, PTL

\* The channel's variables keep their types; what is received is a payload.
THEOREM ChannelTypeCorrect == ChannelSpec => []ChannelTypeOK
  BY ChannelAlwaysInv, InvAligned, PTL

\* The channel implements a queue of whole messages: no receive returns a part of a
\* message, two messages, or one twice or out of order.
THEOREM ChannelIsFifo == ChannelSpec => ImplementsFifo
<1>1. ChannelInit => Fifo!FifoInit
  <2> SUFFICES ASSUME ChannelInit PROVE Fifo!FifoInit
    OBVIOUS
  <2>1. SubSeq(<<>>, Len(<<>>) + 1, Len(<<>>)) = <<>>
    BY EmptySeq, SubSeqEmpty
  <2> QED
    BY <2>1 DEF ChannelInit, Fifo!FifoInit
<1>2. ChannelInv /\ [ChannelNext]_channelVars => [Fifo!FifoNext]_(Fifo!fifoVars)
  <2> SUFFICES ASSUME ChannelInv, [ChannelNext]_channelVars
               PROVE  [Fifo!FifoNext]_(Fifo!fifoVars)
    OBVIOUS
  <2> USE DEF InTransit, InTransitOf
  <2>1. ASSUME NEW payload \in Payloads, Send(payload)
        PROVE  [Fifo!FifoNext]_(Fifo!fifoVars)
    <3>1. received' = received
      BY <2>1 DEF Send
    <3>2. CASE InTransit' = InTransit
      BY <3>1, <3>2 DEF Fifo!fifoVars
    <3>3. CASE InTransit' = Append(InTransit, payload)
      BY <3>1, <3>3 DEF Fifo!FifoNext, Fifo!Accept
    <3> QED
      BY <2>1, <3>2, <3>3, SendInv
  <2>2. CASE TakeFrame
    BY <2>2, TakeFrameInv DEF Fifo!FifoNext, Fifo!Deliver
  <2>3. CASE \/ \E n \in 1..Len(writing) : WriteSome(n)
             \/ \E n \in 1..Len(wire) : ReadSome(n)
             \/ Receive \/ ReadEof \/ CancelReceive \/ Close \/ UNCHANGED channelVars
    BY <2>3, TransferInv DEF Fifo!fifoVars
  <2> QED
    BY <2>1, <2>2, <2>3 DEF ChannelNext, WriteStep, ReadStep
<1> QED
  BY <1>1, <1>2, ChannelAlwaysInv, PTL DEF ChannelSpec, ImplementsFifo, Fifo!FifoSpec
=============================================================================
