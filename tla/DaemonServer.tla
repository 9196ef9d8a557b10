---------------------------- MODULE DaemonServer ----------------------------
(***************************************************************************)
(* The daemon's accept loop and connection tasks (client/src/daemon/       *)
(* server.rs) and the client end of a connection (client/src/              *)
(* daemon_client.rs).  What a request does to the sessions is              *)
(* DaemonHandler's subject; here handling one takes a while and ends, with *)
(* a response that fits a frame of the message channel or does not.        *)
(***************************************************************************)
EXTENDS Naturals, FiniteSets, Sequences

CONSTANTS
    Conn,         \* the connections clients open, each once
    Kinds,        \* the requests they send, see RequestKind
    MaxClients,   \* DaemonConfig::max_clients
    MaxRequests,  \* bound on the requests sent
    None

RequestKind == {"Request", "Shutdown", "Malformed"}

ASSUME ServerAssumption ==
    /\ IsFiniteSet(Conn) /\ Kinds \subseteq RequestKind
    /\ MaxClients \in Nat /\ MaxRequests \in Nat
    /\ None \notin RequestKind

VARIABLES
    loop,          \* the accept loop: "checking", "accepting", "stopping", "exited"
    shutdown,      \* the flag the loop shares with the connection tasks
    client_count,  \* the loop's local counter
    backlog,       \* connections the kernel holds for accept, in order
    conn,          \* the server's end of a connection
    client,        \* the client's end of it
    request,       \* the request in flight to the server, or None
    response,      \* TRUE when a response is in flight to the client
    sent           \* number of requests sent

serverVars == <<loop, shutdown, client_count, backlog, conn, client, request, response, sent>>

\* The first look at the flag, which nobody can have set yet, is behind the loop.
ServerInit ==
    /\ loop = "accepting" /\ shutdown = FALSE /\ client_count = 0 /\ sent = 0
    /\ backlog = <<>>
    /\ conn = [c \in Conn |-> "unused"]
    /\ client = [c \in Conn |-> "absent"]
    /\ request = [c \in Conn |-> None]
    /\ response = [c \in Conn |-> FALSE]

\* Connections that have a task of their own.
Served == {c \in Conn : conn[c] \in {"receiving", "handling", "shutting"}}

-----------------------------------------------------------------------------
(* run                                                                     *)
CheckShutdown ==
    /\ loop = "checking"
    /\ loop' = IF shutdown THEN "stopping" ELSE "accepting"
    /\ UNCHANGED <<shutdown, client_count, backlog, conn, client, request, response, sent>>

\* Mutation: the loop accepts again without a look at the flag.
AcceptConnectionOnly ==
    LET c == Head(backlog) IN
    /\ loop = "accepting" /\ backlog # <<>>
    /\ backlog' = Tail(backlog)
    /\ client_count' = client_count + 1
    /\ conn' = [conn EXCEPT ![c] = IF client_count' > MaxClients THEN "closed" ELSE "receiving"]
    /\ UNCHANGED <<loop, shutdown, client, request, response, sent>>

\* client_count goes up for every connection and never down.
AcceptConnection ==
    LET c == Head(backlog) IN
    /\ loop = "accepting" /\ backlog # <<>>
    /\ loop' = "checking"
    /\ backlog' = Tail(backlog)
    /\ client_count' = client_count + 1
    /\ conn' = [conn EXCEPT ![c] = IF client_count' > MaxClients THEN "closed" ELSE "receiving"]
    /\ UNCHANGED <<shutdown, client, request, response, sent>>

AcceptError ==
    /\ loop = "accepting"
    /\ loop' = "checking"
    /\ UNCHANGED <<shutdown, client_count, backlog, conn, client, request, response, sent>>

\* Mutation: the process lives on without the loop.
ExitLoopOnly ==
    /\ loop = "stopping"
    /\ loop' = "exited"
    /\ UNCHANGED <<shutdown, client_count, backlog, conn, client, request, response, sent>>

\* run returns, the process ends and with it every connection.
Exit ==
    /\ loop = "stopping"
    /\ loop' = "exited"
    /\ backlog' = <<>>
    /\ conn' = [c \in Conn |-> IF conn[c] = "unused" THEN "unused" ELSE "closed"]
    /\ UNCHANGED <<shutdown, client_count, client, request, response, sent>>

AcceptLoop == CheckShutdown \/ AcceptConnection \/ Exit

-----------------------------------------------------------------------------
(* handle_client.  A request that cannot be deserialized is skipped without *)
(* a response.                                                             *)
ReceiveRequest(c) ==
    /\ conn[c] = "receiving" /\ request[c] # None
    /\ request' = [request EXCEPT ![c] = None]
    /\ conn' = [conn EXCEPT ![c] = CASE request[c] = "Request" -> "handling"
                                     [] request[c] = "Shutdown" -> "shutting"
                                     [] request[c] = "Malformed" -> "receiving"]
    /\ shutdown' = (shutdown \/ request[c] = "Shutdown")
    /\ UNCHANGED <<loop, client_count, backlog, client, response, sent>>

ReceiveEof(c) ==
    /\ conn[c] = "receiving" /\ request[c] = None /\ client[c] = "left"
    /\ conn' = [conn EXCEPT ![c] = "closed"]
    /\ UNCHANGED <<loop, shutdown, client_count, backlog, client, request, response, sent>>

SendResponse(c) ==
    /\ conn[c] \in {"handling", "shutting"}
    /\ response' = [response EXCEPT ![c] = client[c] # "left"]
    /\ conn' = [conn EXCEPT ![c] = IF conn[c] = "handling" THEN "receiving" ELSE "closed"]
    /\ UNCHANGED <<loop, shutdown, client_count, backlog, client, request, sent>>

\* The response exceeds a frame, or the client has left: the task ends.
SendFails(c) ==
    /\ conn[c] = "handling"
    /\ conn' = [conn EXCEPT ![c] = "closed"]
    /\ UNCHANGED <<loop, shutdown, client_count, backlog, client, request, response, sent>>

HandleClient(c) == ReceiveRequest(c) \/ ReceiveEof(c) \/ SendResponse(c) \/ SendFails(c)

-----------------------------------------------------------------------------
(* DaemonClient: connect, send_request (send, then wait without a timeout) *)
(* and drop.                                                               *)
Connect(c) ==
    /\ client[c] = "absent" /\ loop # "exited"
    /\ client' = [client EXCEPT ![c] = "ready"]
    /\ conn' = [conn EXCEPT ![c] = "backlog"]
    /\ backlog' = Append(backlog, c)
    /\ UNCHANGED <<loop, shutdown, client_count, request, response, sent>>

SendRequest(c) ==
    /\ client[c] = "ready" /\ sent < MaxRequests
    /\ sent' = sent + 1
    /\ \/ /\ conn[c] # "closed"
          /\ \E kind \in Kinds : request' = [request EXCEPT ![c] = kind]
          /\ client' = [client EXCEPT ![c] = "waiting"]
       \/ /\ conn[c] = "closed"
          /\ client' = [client EXCEPT ![c] = "failed"]
          /\ UNCHANGED request
    /\ UNCHANGED <<loop, shutdown, client_count, backlog, conn, response>>

ReceiveResponse(c) ==
    /\ client[c] = "waiting"
    /\ \/ /\ response[c]
          /\ response' = [response EXCEPT ![c] = FALSE]
          /\ client' = [client EXCEPT ![c] = "ready"]
       \/ /\ ~response[c] /\ conn[c] = "closed"
          /\ client' = [client EXCEPT ![c] = "failed"]
          /\ UNCHANGED response
    /\ UNCHANGED <<loop, shutdown, client_count, backlog, conn, request, sent>>

\* A client may go away at any time, also while it waits.
Leave(c) ==
    /\ client[c] \in {"ready", "waiting", "failed"}
    /\ client' = [client EXCEPT ![c] = "left"]
    /\ response' = [response EXCEPT ![c] = FALSE]
    /\ UNCHANGED <<loop, shutdown, client_count, backlog, conn, request, sent>>

ServerNext ==
    \/ AcceptLoop \/ AcceptError
    \/ \E c \in Conn :
          HandleClient(c) \/ Connect(c) \/ SendRequest(c) \/ ReceiveResponse(c) \/ Leave(c)

\* The loop, the connection tasks and the waiting clients are scheduled; accept
\* does not fail for ever while connections are waiting.
ServerFairness ==
    /\ WF_serverVars(AcceptLoop) /\ SF_serverVars(AcceptConnection)
    /\ \A c \in Conn : WF_serverVars(HandleClient(c)) /\ WF_serverVars(ReceiveResponse(c))

ServerSpec == ServerInit /\ [][ServerNext]_serverVars /\ ServerFairness

-----------------------------------------------------------------------------
(* Properties.                                                             *)

\* Every client that waits for the answer to a request gets it, or an error, or
\* gives up, also when another client shuts the daemon down meanwhile.  (A request
\* that handle_client cannot deserialize is never answered.)
WaitingEnds ==
    \A c \in Conn : client[c] = "waiting" /\ request[c] \in {"Request", "Shutdown"}
                    ~> client[c] # "waiting"

\* The flag is looked at between accepts only: once a client asked for a shutdown,
\* the next connection, even one that accept fails on for a while, ends the daemon.
NextConnectionStops == shutdown /\ backlog # <<>> ~> loop = "exited"

\* A connection is refused only while max_clients others are served.
RefusedOnlyWhenFull ==
    [][\A c \in Conn : (conn[c] = "backlog" /\ conn'[c] = "closed" /\ loop' # "exited")
          => Cardinality(Served) >= MaxClients]_serverVars

-----------------------------------------------------------------------------
(* What comments of the repository say and this code does not keep: see    *)
(* "Disagreements" in the README.                                          *)

\* Once a client asked for it the daemon shuts down.
ShutdownStops == shutdown ~> loop = "exited"
=============================================================================
