--------------------------- MODULE RemoteProtocol ---------------------------
(***************************************************************************)
(* The request-response protocol between a client (client/src/             *)
(* client_transport.rs) and the remote server (remote/src/main.rs).  The   *)
(* tasks of the client share one message channel behind a mutex, which a   *)
(* task holds from sending its request to receiving the response; tokio's  *)
(* mutex serves them in order.  One task runs the polling loop, by which   *)
(* the events of PortForward reach the client.                             *)
(***************************************************************************)
EXTENDS PortForward

CONSTANTS
    Caller,     \* client tasks that make requests
    Poller,     \* the client task in start_polling_loop
    Requests,   \* the kinds of requests the callers make
    MaxFrame,   \* number of events that fit a frame (65535 bytes) of the channel
    MaxCalls,   \* bound on the requests of the callers
    None

RequestKind == {"PollData", "StartPortForward", "StopPortForward", "PortForwardData",
                "GetClipboard", "SetClipboard", "OpenBrowser"}

ASSUME ProtocolAssumption ==
    /\ Poller \notin Caller /\ Requests \subseteq RequestKind \ {"PollData"}
    /\ MaxFrame \in Nat /\ MaxCalls \in Nat

ASSUME NoneIsNoRequest ==
    None \notin [kind : RequestKind, target : Port \cup ConnectionId \cup {None}]

ASSUME NoneIsNoResponse ==
    None \notin [kind : {"Data", "Success", "Error"},
                 items : Seq([kind : EventKind, id : ConnectionId \cup {0}])]

VARIABLES
    server,   \* the main loop; "overflowed" and "closed" when it ended
    queue,    \* client tasks at the channel's mutex, the holder first
    wanting,  \* client task -> its request, or None
    answer,   \* the response being sent, or None
    poller,   \* "polling" or "stopped"
    polled,   \* connection id -> events the polling loop's handler got
    dropped,  \* history: connection ids of events a get_clipboard caller dropped
    calls

protocolVars == <<listeners, next_connection_id, task, port, active_connections, queued, items,
                  pending_connections, closed_connections, history, wanted, cut,
                  server, queue, wanting, answer, poller, polled, dropped, calls>>
clientState == <<queue, wanting, poller, polled, dropped, calls>>

Gone == server \in {"closed", "overflowed"}
Asked == wanting[Head(queue)]

Request(kind, target) == [kind |-> kind, target |-> target]
Response(kind, events) == [kind |-> kind, items |-> events]

ProtocolInit ==
    /\ ForwardInit
    /\ server = "receiving" /\ answer = None
    /\ queue = <<>> /\ poller = "polling" /\ calls = 0
    /\ wanting = [c \in Caller \cup {Poller} |-> None]
    /\ polled = [i \in ConnectionId |-> <<>>] /\ dropped = {}

-----------------------------------------------------------------------------
(* Client: a task queues up for the channel with its request.              *)
Enqueue(c, r) ==
    /\ wanting[c] = None
    /\ wanting' = [wanting EXCEPT ![c] = r]
    /\ queue' = Append(queue, c)
    /\ UNCHANGED <<forwardVars, server, answer, poller, polled, dropped>>

Call(c) ==
    /\ calls < MaxCalls
    /\ calls' = calls + 1
    /\ \E kind \in Requests :
          \/ kind \in {"StartPortForward", "StopPortForward"}
             /\ \E p \in Port : Enqueue(c, Request(kind, p))
          \/ kind = "PortForwardData"
             /\ \E i \in ConnectionId : Enqueue(c, Request(kind, i))
          \/ kind \in {"GetClipboard", "SetClipboard", "OpenBrowser"}
             /\ Enqueue(c, Request(kind, None))

\* start_polling_loop, which goes on at once after a response and after an error.
Poll == poller = "polling" /\ Enqueue(Poller, Request("PollData", None)) /\ UNCHANGED calls

-----------------------------------------------------------------------------
(* Server: the main loop.                                                  *)
ReceiveRequest ==
    /\ server = "receiving" /\ queue # <<>>
    /\ server' = "handling"
    /\ UNCHANGED <<forwardVars, answer, clientState>>

Respond(response) ==
    /\ server' = "responding"
    /\ answer' = response
    /\ UNCHANGED clientState

Handling(kind) == server = "handling" /\ Asked.kind = kind

HandlePoll ==
    /\ Handling("PollData")
    /\ \/ TakeItems /\ Respond(Response("Data", items))
       \/ items = <<>> /\ server' = "waiting" /\ UNCHANGED <<forwardVars, answer, clientState>>

\* Mutation: the items that came while waiting are taken but not sent.
WaitForDataDrops ==
    /\ server = "waiting"
    /\ TakeItems \/ (items = <<>> /\ UNCHANGED forwardVars)
    /\ Respond(Response("Data", <<>>))

\* Mutation: the wait has no timeout.
WaitForDataForever ==
    /\ server = "waiting"
    /\ TakeItems
    /\ Respond(Response("Data", items))

\* wait_for_data returns when there are items or its five seconds are over;
\* then whatever is there is taken.
WaitForData ==
    /\ server = "waiting"
    /\ TakeItems \/ (items = <<>> /\ UNCHANGED forwardVars)
    /\ Respond(Response("Data", items))

HandleStart ==
    /\ Handling("StartPortForward")
    /\ \/ StartPortForward(Asked.target) /\ Respond(Response("Success", <<>>))
       \/ UNCHANGED forwardVars /\ Respond(Response("Error", <<>>))

HandleStop ==
    /\ Handling("StopPortForward")
    /\ StopPortForward(Asked.target) /\ Respond(Response("Success", <<>>))

\* Data for a connection that is not in the map is dropped, and answered with success
\* as well.  Sending to one that is cannot fail: its task removes the sender before it drops the
\* receiver.
HandleForwardData ==
    /\ Handling("PortForwardData")
    /\ ForwardData(Asked.target) /\ Respond(Response("Success", <<>>))

\* get_clipboard answers with everything that is in the buffer.
HandleGetClipboard ==
    /\ Handling("GetClipboard")
    /\ \/ /\ TakeItems \/ (items = <<>> /\ UNCHANGED forwardVars)
          /\ Respond(Response("Data", Append(items, Event("Clipboard", 0))))
       \/ UNCHANGED forwardVars /\ Respond(Response("Error", <<>>))

HandleLocal ==
    /\ Handling("SetClipboard") \/ Handling("OpenBrowser")
    /\ \E kind \in {"Success", "Error"} : Respond(Response(kind, <<>>))
    /\ UNCHANGED forwardVars

HandleRequest ==
    \/ HandlePoll \/ WaitForData \/ HandleStart \/ HandleStop
    \/ HandleForwardData \/ HandleGetClipboard \/ HandleLocal

\* The response does not fit a frame: the loop ends, and the process with it.
SendOverflows ==
    /\ server = "responding" /\ Len(answer.items) > MaxFrame
    /\ server' = "overflowed" /\ answer' = None
    /\ UNCHANGED <<forwardVars, clientState>>

\* The connection to the client breaks.
ChannelFails ==
    /\ ~Gone
    /\ server' = "closed" /\ answer' = None
    /\ UNCHANGED <<forwardVars, clientState>>

-----------------------------------------------------------------------------
(* Client: the holder of the channel gets the response.                    *)
Release ==
    /\ queue' = Tail(queue)
    /\ wanting' = [wanting EXCEPT ![Head(queue)] = None]
    /\ UNCHANGED <<forwardVars, calls>>

EventsOf(s, i) ==
    FlattenSeq([n \in DOMAIN s |-> IF s[n].id = i THEN <<s[n].kind>> ELSE <<>>])

\* The handler of the polling loop gets the items one after the other and may
\* stop at any of them.
ReceivePolled ==
    LET n == Len(answer.items) IN
    /\ Head(queue) = Poller
    /\ \E m \in 0..n :
          /\ m < n => m > 0
          /\ polled' = [i \in ConnectionId |->
                          polled[i] \o EventsOf(SubSeq(answer.items, 1, m), i)]
          /\ poller' \in IF m < n THEN {"stopped"} ELSE IF n = 0 THEN {poller}
                         ELSE {poller, "stopped"}
    /\ UNCHANGED dropped

\* Any other caller looks for what it asked for; get_clipboard drops the events
\* that came with it.
ReceiveOther ==
    /\ Head(queue) # Poller
    /\ dropped' = dropped \cup {answer.items[n].id : n \in DOMAIN answer.items}
    /\ UNCHANGED <<poller, polled>>

ReceiveResponse ==
    /\ server = "responding" /\ Len(answer.items) <= MaxFrame
    /\ ReceivePolled \/ ReceiveOther
    /\ server' = "receiving" /\ answer' = None
    /\ Release

ReceiveError ==
    /\ Gone /\ queue # <<>>
    /\ UNCHANGED <<server, answer, poller, polled, dropped>>
    /\ Release

ServerLoop == ReceiveRequest \/ HandleRequest \/ SendOverflows \/ ReceiveResponse \/ ReceiveError

Forwarding == ~Gone /\ ForwardingStep /\ UNCHANGED <<server, answer, clientState>>

Connection(i) == ~Gone /\ ConnectionStep(i) /\ UNCHANGED <<server, answer, clientState>>
Receives(i) == ~Gone /\ ReceiveBranch(i) /\ UNCHANGED <<server, answer, clientState>>

ProtocolNext ==
    \/ \E c \in Caller : Call(c)
    \/ Poll \/ ServerLoop \/ ChannelFails \/ Forwarding

\* The polling loop, the server's loop and the connections' tasks are scheduled, and
\* select! passes over no branch for ever.  Nothing is assumed of the peers of the
\* forwarded connections: they need not send, read or close.
ProtocolSpec ==
    /\ ProtocolInit /\ [][ProtocolNext]_protocolVars
    /\ WF_protocolVars(Poll) /\ WF_protocolVars(ServerLoop)
    /\ \A i \in ConnectionId : WF_protocolVars(Connection(i)) /\ SF_protocolVars(Receives(i))

-----------------------------------------------------------------------------
(* Properties.                                                             *)

InFlight(i) == IF answer = None THEN <<>> ELSE EventsOf(answer.items, i)

\* The polling loop gets every event, once and in the order in which it
\* happened on its connection, as long as it polls and the server is there;
\* except for the events that get_clipboard takes from the server's buffer.
NothingLost ==
    ~Gone /\ poller = "polling" =>
        \A i \in ConnectionId \ dropped :
            polled[i] \o InFlight(i) \o EventsOf(items, i) = history[i]

\* Every request is answered, though the requests share the channel with polls
\* that wait for something to happen.
RequestsReturn == \A c \in Caller : wanting[c] # None ~> wanting[c] = None

\* Every event reaches the polling loop, unless get_clipboard takes it.
EventsPolled ==
    \A i \in ConnectionId : \A n \in 1..(MaxData + 3) :
        Len(history[i]) >= n
            ~> (Len(polled[i]) >= n \/ i \in dropped \/ Gone \/ poller = "stopped")

Writing(i) == task[i] \in {"writing", "relaying"}

\* A connection that a stop request cut comes to its end, data that is queued for it
\* or keeps coming from its peers notwithstanding, unless a peer that does not read
\* keeps its task in one write for ever.
CutEnds ==
    \A i \in ConnectionId :
        []<>~Writing(i) => (i \in cut ~> (task[i] = "done" \/ Gone))

-----------------------------------------------------------------------------
(* What comments of the repository say and this code does not keep: see    *)
(* "Disagreements" in the README.                                          *)

\* The polling loop comes to rest once the server is gone.
PollingStops == Gone ~> [](wanting[Poller] = None)
=============================================================================
