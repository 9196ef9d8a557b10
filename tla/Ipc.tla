-------------------------------- MODULE Ipc --------------------------------
(***************************************************************************)
(* The socket on which a remote process takes commands from shells on its  *)
(* host (remote/src/ipc.rs, started in remote/src/main.rs).  All remote    *)
(* processes of a host use the same default path.                          *)
(*                                                                         *)
(* IpcServer::start does what SocketPath says: remove, bind.  A remote     *)
(* process whose IPC server fails goes on without it, and none removes the *)
(* file when it ends.  Clipboard contents and urls are left out.           *)
(***************************************************************************)
EXTENDS SocketPath, Naturals, FiniteSets

CONSTANTS
    Shell,         \* shells that run commands
    IpcCommand,    \* the commands they run
    MaxCommands    \* bound on the commands

ASSUME IpcAssumption ==
    /\ IpcCommand \subseteq {"GetClipboard", "SetClipboard", "OpenBrowser", "SendToClient",
                             "Status", "Ping"}
    /\ MaxCommands \in Nat

IpcResponse == {"Success", "Data", "Error", "Status", "Pong"}

VARIABLES
    shell,      \* shell -> [at, command, remote, response]
    commands,   \* number of commands run so far
    ipc_queue,  \* remote -> messages in the channel of its client sender
    buffered    \* remote -> IPC messages put into the response buffer

ipcVars == <<socket_file, server, contended, shell, commands, ipc_queue, buffered>>

\* at: "idle", "sent" (waits for the answer), "answered", "returned" or "failed"
IpcTypeOK ==
    /\ SocketTypeOK
    /\ shell \in [Shell -> [at : {"idle", "sent", "answered", "returned", "failed"},
                            command : IpcCommand \cup {None},
                            remote : Process \cup {None},
                            response : IpcResponse \cup {None}]]
    /\ commands \in 0..MaxCommands
    /\ ipc_queue \in [Process -> Nat] /\ buffered \in [Process -> Nat]

IpcInit ==
    /\ SocketInit
    /\ shell = [s \in Shell |-> [at |-> "idle", command |-> None, remote |-> None,
                                 response |-> None]]
    /\ commands = 0
    /\ ipc_queue = [p \in Process |-> 0] /\ buffered = [p \in Process |-> 0]

\* A remote process starts, and starts its IPC server in the background.
StartRemote(p) ==
    /\ Spawn(p)
    /\ UNCHANGED <<shell, commands, ipc_queue, buffered>>

IpcStart(p) ==
    /\ StartStep(p)
    /\ UNCHANGED <<shell, commands, ipc_queue, buffered>>

\* accept fails: the listener is dropped, the connections are not.
AcceptFails(p) ==
    /\ server[p] = "serving"
    /\ server' = [server EXCEPT ![p] = "closed"]
    /\ UNCHANGED <<socket_file, contended, shell, commands, ipc_queue, buffered>>

\* The client is gone: the remote process ends, and the socket file stays.
RemoteEnds(p) ==
    /\ server[p] \notin {"off", "gone"}
    /\ server' = [server EXCEPT ![p] = "gone"]
    /\ UNCHANGED <<socket_file, contended, shell, commands, ipc_queue, buffered>>

-----------------------------------------------------------------------------
(* IpcClient::send_command                                                 *)
Connect(s, command) ==
    /\ shell[s].at \in {"idle", "returned", "failed"} /\ commands < MaxCommands
    /\ commands' = commands + 1
    /\ shell' = [shell EXCEPT ![s] =
          IF Reachable = {}
          THEN [at |-> "failed", command |-> command, remote |-> None, response |-> None]
          ELSE [at |-> "sent", command |-> command, remote |-> socket_file, response |-> None]]
    /\ UNCHANGED <<socketVars, ipc_queue, buffered>>

\* handle_command.  The client sender is always there: main sets it before it
\* starts the server, and it keeps the receiver.
Responses(command) ==
    CASE command = "GetClipboard" -> {"Data", "Error"}
      [] command \in {"SetClipboard", "OpenBrowser"} -> {"Success", "Error"}
      [] command = "SendToClient" -> {"Success"}
      [] command = "Status" -> {"Status"}
      [] command = "Ping" -> {"Pong"}

\* Mutation: setting the clipboard is not answered.
HandleCommandSilent(s) ==
    LET p == shell[s].remote IN
    /\ shell[s].at = "sent" /\ server[p] # "gone"
    /\ \E r \in Responses(shell[s].command) :
          shell' = [shell EXCEPT ![s].at = IF shell[s].command = "SetClipboard" THEN "sent"
                                           ELSE "answered",
                                 ![s].response = r]
    /\ UNCHANGED <<socketVars, commands, ipc_queue, buffered>>

\* A message for the client goes into the channel that main made.  The task that
\* would put it into the response buffer listens on another channel, made in
\* run_with_ipc, whose sender nobody uses: no step takes from ipc_queue.
HandleCommand(s) ==
    LET p == shell[s].remote IN
    /\ shell[s].at = "sent" /\ server[p] # "gone"
    /\ \E r \in Responses(shell[s].command) :
          shell' = [shell EXCEPT ![s].at = "answered", ![s].response = r]
    /\ ipc_queue' = [ipc_queue EXCEPT ![p] = @ + IF shell[s].command = "SendToClient" THEN 1 ELSE 0]
    /\ UNCHANGED <<socketVars, commands, buffered>>

\* read_line returns the answer; what handle_shell_command prints is left out.
ReadResponse(s) ==
    /\ shell[s].at = "answered"
    /\ shell' = [shell EXCEPT ![s].at = "returned"]
    /\ UNCHANGED <<socketVars, commands, ipc_queue, buffered>>

\* read_line returns nothing, which is no valid response: the process ended, or
\* its listener was dropped before it accepted the connection.
ReadEof(s) ==
    /\ shell[s].at = "sent" /\ server[shell[s].remote] \in {"gone", "closed"}
    /\ shell' = [shell EXCEPT ![s].at = "failed"]
    /\ UNCHANGED <<socketVars, commands, ipc_queue, buffered>>

ShellStep(s) == HandleCommand(s) \/ ReadResponse(s) \/ ReadEof(s)

IpcNext ==
    \/ \E p \in Process : StartRemote(p) \/ IpcStart(p) \/ AcceptFails(p) \/ RemoteEnds(p)
    \/ \E s \in Shell : ShellStep(s) \/ \E command \in IpcCommand : Connect(s, command)

IpcFairness ==
    /\ \A s \in Shell : WF_ipcVars(ShellStep(s))
    /\ \A p \in Process : WF_ipcVars(IpcStart(p))

IpcSpec == IpcInit /\ [][IpcNext]_ipcVars /\ IpcFairness

-----------------------------------------------------------------------------
(* Properties.                                                             *)

\* Every command returns, whatever becomes of the remote process.
ShellsReturn == \A s \in Shell : shell[s].at \in {"sent", "answered"}
                                 ~> shell[s].at \in {"returned", "failed"}

-----------------------------------------------------------------------------
(* What comments of the repository say and this code does not keep: see    *)
(* "Disagreements" in the README.                                          *)

\* A ping that cannot connect means that no remote process serves commands.
PingFindsRemote ==
    [][\A s \in Shell : /\ Connect(s, "Ping") /\ shell'[s].at = "failed"
                        => \A p \in Process : server[p] # "serving"]_ipcVars

\* A message whose SendToClient succeeded comes to the buffer of items for the
\* client, unless the remote process ends.
MessageReachesClient ==
    \A p \in Process : ipc_queue[p] > 0 ~> buffered[p] > 0 \/ server[p] = "gone"
=============================================================================
