---------------------------- MODULE PortForward ----------------------------
(***************************************************************************)
(* Port forwarding in the remote server (remote/src/main.rs) and the       *)
(* buffer of events for the client (core/src/protocol/buffer.rs).          *)
(*                                                                         *)
(* A listener task per forwarded port accepts connections; every accepted  *)
(* connection has a task of its own that announces it to the client,       *)
(* connects to the target, copies data both ways and finally reports that  *)
(* it is closed.  The requests of the client, which the server's main loop *)
(* handles, run concurrently with these tasks.  The bytes are left out: a  *)
(* chunk read from the target is one "Data" event.  A task copies inside   *)
(* the branches of its select!: while it writes ("writing" to the target,  *)
(* "relaying" to the client of the port) it looks at nothing else, and a   *)
(* peer that does not read keeps it there for ever.                        *)
(***************************************************************************)
EXTENDS Naturals, FiniteSets, Sequences, SequencesExt

CONSTANTS
    Port,            \* local ports that may be forwarded
    MaxConnections,  \* bound on the connections accepted
    MaxData          \* bound on the chunks a connection's target sends

ASSUME ForwardAssumption == MaxConnections \in Nat /\ MaxData \in Nat

ConnectionId == 1..MaxConnections
EventKind == {"New", "Data", "Close", "Clipboard"}
TaskPhase == {"none", "accepted", "connecting", "open", "writing", "relaying", "leaving",
              "removed", "done"}

VARIABLES
    listeners,           \* ports with a listener task
    next_connection_id,
    task,                \* connection id -> where its task is
    port,                \* connection id -> the port it was accepted on
    active_connections,  \* ids in the map of senders
    queued,              \* connection id -> data in the channel to its task
    items,               \* ResponseBuffer::items
    pending_connections, \* ResponseBuffer::pending_connections
    closed_connections,  \* how often each id is in ResponseBuffer::closed_connections
    history,             \* connection id -> all events ever buffered for it
    wanted,              \* ports whose last successful request was a start
    cut                  \* ids that stop_port_forward removed

forwardVars == <<listeners, next_connection_id, task, port, active_connections, queued,
                 items, pending_connections, closed_connections, history, wanted, cut>>
ports == <<listeners, next_connection_id, port, wanted>>
connectionState == <<ports, queued, cut>>
buffer == <<items, pending_connections, closed_connections, history>>

\* The task is in handle_connection and has not cleaned up.
InHandler == {"open", "writing", "relaying", "leaving"}

Event(kind, i) == [kind |-> kind, id |-> i]

ForwardTypeOK ==
    /\ listeners \subseteq Port /\ wanted \subseteq Port
    /\ next_connection_id \in 1..(MaxConnections + 1)
    /\ task \in [ConnectionId -> TaskPhase]
    /\ port \in [{i \in ConnectionId : i < next_connection_id} -> Port]
    /\ active_connections \subseteq ConnectionId /\ cut \subseteq ConnectionId
    /\ queued \in [ConnectionId -> Nat]
    /\ items \in Seq([kind : EventKind, id : ConnectionId \cup {0}])
    /\ pending_connections \subseteq ConnectionId
    /\ closed_connections \in [ConnectionId -> Nat]
    /\ history \in [ConnectionId -> Seq(EventKind)]

ForwardInit ==
    /\ listeners = {} /\ wanted = {} /\ next_connection_id = 1
    /\ task = [i \in ConnectionId |-> "none"]
    /\ port = <<>>
    /\ active_connections = {} /\ cut = {} /\ queued = [i \in ConnectionId |-> 0]
    /\ items = <<>> /\ pending_connections = {}
    /\ closed_connections = [i \in ConnectionId |-> 0]
    /\ history = [i \in ConnectionId |-> <<>>]

-----------------------------------------------------------------------------
(* ResponseBuffer                                                          *)
AddItem(kind, i) ==
    /\ items' = Append(items, Event(kind, i))
    /\ history' = [history EXCEPT ![i] = Append(@, kind)]

AddNewConnection(i) ==
    /\ AddItem("New", i)
    /\ pending_connections' = pending_connections \cup {i}
    /\ UNCHANGED closed_connections

AddPortForwardData(i) ==
    AddItem("Data", i) /\ UNCHANGED <<pending_connections, closed_connections>>

AddCloseConnection(i) ==
    /\ AddItem("Close", i)
    /\ pending_connections' = pending_connections \ {i}
    /\ closed_connections' = [closed_connections EXCEPT ![i] = @ + 1]

\* One add_close_connection for each id of S, in some order.
AddCloseConnections(S) ==
    LET order == SetToSeq(S) IN
    /\ items' = items \o [n \in 1..Len(order) |-> Event("Close", order[n])]
    /\ history' = [i \in ConnectionId |-> IF i \in S THEN Append(history[i], "Close")
                                          ELSE history[i]]
    /\ pending_connections' = pending_connections \ S
    /\ closed_connections' = [i \in ConnectionId |-> closed_connections[i] + IF i \in S THEN 1 ELSE 0]

-----------------------------------------------------------------------------
(* The listener tasks.                                                     *)
AcceptForward(p) ==
    LET i == next_connection_id IN
    /\ p \in listeners /\ i <= MaxConnections
    /\ next_connection_id' = i + 1
    /\ port' = [j \in DOMAIN port \cup {i} |-> IF j = i THEN p ELSE port[j]]
    /\ task' = [task EXCEPT ![i] = "accepted"]
    /\ UNCHANGED <<listeners, wanted, cut, active_connections, queued, buffer>>

ListenerFails(p) ==
    /\ p \in listeners
    /\ listeners' = listeners \ {p}
    /\ UNCHANGED <<next_connection_id, port, wanted, cut, task, active_connections, queued, buffer>>

\* Mutation: the client is not told.
AnnounceNothing(i) ==
    /\ task[i] = "accepted"
    /\ task' = [task EXCEPT ![i] = "connecting"]
    /\ UNCHANGED <<connectionState, active_connections, buffer>>

(* The task of a connection.                                               *)
Announce(i) ==
    /\ task[i] = "accepted"
    /\ AddNewConnection(i)
    /\ task' = [task EXCEPT ![i] = "connecting"]
    /\ UNCHANGED <<connectionState, active_connections>>

ConnectTarget(i) ==
    /\ task[i] = "connecting"
    /\ active_connections' = active_connections \cup {i}
    /\ task' = [task EXCEPT ![i] = "open"]
    /\ UNCHANGED <<connectionState, buffer>>

ConnectTargetFails(i) ==
    /\ task[i] = "connecting"
    /\ AddCloseConnection(i)
    /\ task' = [task EXCEPT ![i] = "done"]
    /\ UNCHANGED <<connectionState, active_connections>>

\* select! in handle_connection: a chunk from the client of the port, which is
\* written to the target, ...
ReadClient(i) ==
    /\ task[i] = "open"
    /\ task' = [task EXCEPT ![i] = "writing"]
    /\ UNCHANGED <<connectionState, active_connections, buffer>>

\* ... a chunk from the target, which is written to the client of the port, ...
ReadTarget(i) ==
    /\ task[i] = "open"
    /\ Len(SelectSeq(history[i], LAMBDA k : k = "Data")) < MaxData
    /\ task' = [task EXCEPT ![i] = "relaying"]
    /\ UNCHANGED <<connectionState, active_connections, buffer>>

\* ... the end or an error of one of the streams, ...
StreamEnds(i) ==
    /\ task[i] = "open"
    /\ task' = [task EXCEPT ![i] = "leaving"]
    /\ UNCHANGED <<connectionState, active_connections, buffer>>

\* ... data from recv(), which is written to the target, ...
QueuedData(i) ==
    /\ task[i] = "open" /\ queued[i] > 0
    /\ queued' = [queued EXCEPT ![i] = @ - 1]
    /\ task' = [task EXCEPT ![i] = "writing"]
    /\ UNCHANGED <<ports, cut, active_connections, buffer>>

\* Mutation: the task holds a sender itself, so recv() never returns None.
SenderKept(i) == i \notin ConnectionId /\ StreamEnds(i)

\* ... or None from recv(), because the sender was dropped and nothing is queued.
SenderDropped(i) == i \notin active_connections /\ queued[i] = 0 /\ StreamEnds(i)

\* write_all returns when the peer has taken everything.  What came from the
\* target is then buffered for the client as well.
WriteDone(i) ==
    \/ /\ task[i] = "writing"
       /\ task' = [task EXCEPT ![i] = "open"]
       /\ UNCHANGED <<connectionState, active_connections, buffer>>
    \/ /\ task[i] = "relaying"
       /\ AddPortForwardData(i)
       /\ task' = [task EXCEPT ![i] = "open"]
       /\ UNCHANGED <<connectionState, active_connections>>

WriteFails(i) ==
    /\ task[i] \in {"writing", "relaying"}
    /\ task' = [task EXCEPT ![i] = "leaving"]
    /\ UNCHANGED <<connectionState, active_connections, buffer>>

\* Mutation: the sender stays in the map.
LeaveConnection(i) ==
    /\ task[i] = "leaving"
    /\ task' = [task EXCEPT ![i] = "removed"]
    /\ UNCHANGED <<connectionState, active_connections, buffer>>

RemoveConnection(i) ==
    /\ task[i] = "leaving"
    /\ active_connections' = active_connections \ {i}
    /\ task' = [task EXCEPT ![i] = "removed"]
    /\ UNCHANGED <<connectionState, buffer>>

\* Mutation: the end is not reported.
EndSilently(i) ==
    /\ task[i] = "removed"
    /\ task' = [task EXCEPT ![i] = "done"]
    /\ UNCHANGED <<connectionState, active_connections, buffer>>

\* The receiver is dropped with what is still queued.
ReportClosed(i) ==
    /\ task[i] = "removed"
    /\ AddCloseConnection(i)
    /\ task' = [task EXCEPT ![i] = "done"]
    /\ queued' = [queued EXCEPT ![i] = 0]
    /\ UNCHANGED <<ports, cut, active_connections>>

\* What the scheduler owes a connection: every step that needs none of its peers ...
ConnectionStep(i) ==
    \/ Announce(i) \/ ConnectTarget(i) \/ ConnectTargetFails(i)
    \/ RemoveConnection(i) \/ ReportClosed(i)

\* ... and a branch that is ready again and again, among which select! picks one at
\* random.
ReceiveBranch(i) == QueuedData(i) \/ SenderDropped(i)

\* What the peers of a connection do, if they do anything.
PeerStep(i) ==
    ReadClient(i) \/ ReadTarget(i) \/ StreamEnds(i) \/ WriteDone(i) \/ WriteFails(i)

ForwardingStep ==
    \/ \E p \in Port : AcceptForward(p) \/ ListenerFails(p)
    \/ \E i \in ConnectionId : ConnectionStep(i) \/ ReceiveBranch(i) \/ PeerStep(i)

-----------------------------------------------------------------------------
(* The requests.  StartPortForward fails where the bind fails, which it    *)
(* does at least while the port has a listener.                            *)
StartPortForward(p) ==
    /\ p \notin listeners
    /\ listeners' = listeners \cup {p}
    /\ wanted' = wanted \cup {p}
    /\ UNCHANGED <<next_connection_id, port, cut, task, active_connections, queued, buffer>>

\* The map of senders has no ports: the request closes every connection, and it
\* leaves the listener alone.
StopPortForward(p) ==
    /\ AddCloseConnections(active_connections)
    /\ active_connections' = {}
    /\ cut' = cut \cup active_connections
    /\ wanted' = wanted \ {p}
    /\ UNCHANGED <<listeners, next_connection_id, port, task, queued>>

\* forward_data: data for a connection that is not in the map is dropped.
ForwardData(i) ==
    /\ queued' = IF i \in active_connections THEN [queued EXCEPT ![i] = @ + 1] ELSE queued
    /\ UNCHANGED <<ports, cut, task, active_connections, buffer>>

\* take_items, on behalf of a poll.
TakeItems ==
    /\ items # <<>>
    /\ items' = <<>>
    /\ UNCHANGED <<connectionState, task, active_connections, pending_connections,
                   closed_connections, history>>

ForwardNext ==
    \/ ForwardingStep \/ TakeItems
    \/ \E p \in Port : StartPortForward(p) \/ StopPortForward(p)
    \/ \E i \in ConnectionId : ForwardData(i)

ForwardSpec ==
    /\ ForwardInit /\ [][ForwardNext]_forwardVars
    /\ \A i \in ConnectionId :
          WF_forwardVars(ConnectionStep(i)) /\ SF_forwardVars(ReceiveBranch(i))

-----------------------------------------------------------------------------
(* Properties.                                                             *)

Count(kind, s) == Cardinality({n \in DOMAIN s : s[n] = kind})

\* The client learns of a connection before anything else happens on it, and
\* only once; data comes before the end, which is reported once.  Only for
\* connections that a stop request cut may data still come and the end be
\* reported a second time.
EventOrder ==
    \A i \in ConnectionId :
        LET h == history[i] IN
        /\ \A n \in DOMAIN h : h[n] = "New" <=> n = 1
        /\ i \notin cut => \A n \in DOMAIN h : h[n] = "Close" => n = Len(h)
        /\ Count("Close", h) <= IF i \in cut THEN 2 ELSE 1

\* Every connection whose task is over was announced and reported closed.
ClosedIsReported ==
    \A i \in ConnectionId : task[i] = "done" => Count("New", history[i]) = 1
                                                /\ Count("Close", history[i]) >= 1

\* Data is only queued for a connection whose task is there to write it: the
\* map of senders holds the connections that are in handle_connection and were
\* not cut, no other.
ActiveIsOpen ==
    /\ \A i \in active_connections : task[i] \in InHandler /\ i \notin cut
    /\ \A i \in ConnectionId : task[i] \in InHandler => i \in active_connections \cup cut

-----------------------------------------------------------------------------
(* What comments of the repository say and this code does not keep: see    *)
(* "Disagreements" in the README.                                          *)

\* StopPortForward closes the connections of its port only.
StopsOnlyPort ==
    [][cut' # cut => \E p \in Port : StopPortForward(p)
                                     /\ \A i \in cut' \ cut : port[i] = p]_forwardVars

\* No connection is accepted on a port whose forwarding was stopped.
AcceptsOnlyWanted ==
    [][\A i \in DOMAIN port' \ DOMAIN port : port'[i] \in wanted]_forwardVars
=============================================================================
