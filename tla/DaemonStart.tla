---------------------------- MODULE DaemonStart ----------------------------
(***************************************************************************)
(* How the command line (cli/src/main.rs) finds, starts, uses and stops    *)
(* the daemon.  Several commands run at once; a daemon may be killed.      *)
(* What a daemon does with a session is DaemonHandler's subject: here a    *)
(* request is answered, with success or with an error, or the daemon is    *)
(* gone.                                                                   *)
(***************************************************************************)
EXTENDS SocketPath, Integers, FiniteSets

CONSTANTS
    Cli,        \* running commands
    Commands,   \* the commands they run, see CliCommand
    MaxTries,   \* connection attempts after a start (10 in the code)
    Crashes     \* whether daemons may be killed

\* "session" is ssh or local by way of the daemon; "ask" is daemon status, daemon
\* sessions or daemon info.
CliCommand == {"session", "start", "stop", "ask"}

ASSUME StartAssumption ==
    Commands \subseteq CliCommand /\ MaxTries \in Nat /\ Crashes \in BOOLEAN

VARIABLES
    cli,       \* command -> where it is
    tries,     \* command -> connection attempts left
    conn,      \* command -> the daemon its connection leads to, or None
    backlog    \* commands whose connection is not accepted

startVars == <<socket_file, server, contended, cli, tries, conn, backlog>>
cliVars == <<cli, tries, conn, backlog>>

CliPhase == {"probe", "ping", "verify", "connect", "connect_session", "set_clipboard",
             "get_clipboard", "open_browser", "shutdown", "status", "query", "idle"}

StartTypeOK ==
    /\ SocketTypeOK
    /\ cli \in [Cli -> CliPhase]
    /\ tries \in [Cli -> 0..MaxTries]
    /\ conn \in [Cli -> Process \cup {None}]
    /\ backlog \subseteq Cli

StartInit ==
    /\ SocketInit
    /\ cli = [c \in Cli |-> "idle"]
    /\ tries = [c \in Cli |-> MaxTries]
    /\ conn = [c \in Cli |-> None]
    /\ backlog = {}

\* A command that returned, with success or with an error, makes room for the next.
Idle(c) == cli[c] = "idle"

CliGoto(c, phase) == cli' = [cli EXCEPT ![c] = phase]

\* DaemonClient::connect succeeds.  A daemon that was asked to stop leaves its
\* accept loop with the connection it accepts; one that left it accepts no more.
Connects(c, phase) ==
    \E p \in Reachable :
        /\ CliGoto(c, phase)
        /\ conn' = [conn EXCEPT ![c] = p]
        /\ backlog' = IF server[p] = "exiting" THEN backlog \cup {c} ELSE backlog
        /\ server' = [server EXCEPT ![p] = IF @ = "stopping" THEN "exiting" ELSE @]
        /\ UNCHANGED <<socket_file, contended>>

\* The connection is answered while the daemon that accepted it lives.
Answered(c) == c \notin backlog /\ conn[c] \in Listening
Lost(c) == conn[c] \notin Listening

\* The command is over: its connection is dropped.
Return(c, phase) ==
    /\ CliGoto(c, phase)
    /\ conn' = [conn EXCEPT ![c] = None]
    /\ backlog' = backlog \ {c}
    /\ tries' = [tries EXCEPT ![c] = MaxTries]

-----------------------------------------------------------------------------
(* ensure_daemon_running, the beginning of every session command           *)
EnsureDaemonRunning(c) ==
    /\ Idle(c) /\ "session" \in Commands
    /\ CliGoto(c, "probe")
    /\ UNCHANGED <<socketVars, tries, conn, backlog>>

Probe(c) ==
    /\ cli[c] = "probe"
    /\ \/ Connects(c, "ping") /\ UNCHANGED tries
       \/ /\ Reachable = {}
          /\ \E p \in Process : Spawn(p)
          /\ CliGoto(c, "verify")
          /\ UNCHANGED <<tries, conn, backlog>>
       \/ Reachable = {} /\ Return(c, "idle") /\ UNCHANGED socketVars

\* Mutation: a failed attempt is not counted.
VerifyAgain(c) ==
    /\ cli[c] = "verify"
    /\ \/ Connects(c, "ping") /\ UNCHANGED tries
       \/ Reachable = {} /\ UNCHANGED <<socketVars, tries, conn, backlog, cli>>

\* One round of the loop that waits for the daemon.
Verify(c) ==
    /\ cli[c] = "verify"
    /\ \/ tries[c] > 0 /\ Connects(c, "ping") /\ UNCHANGED tries
       \/ /\ tries[c] > 0 /\ Reachable = {}
          /\ tries' = [tries EXCEPT ![c] = @ - 1]
          /\ UNCHANGED <<socketVars, cli, conn, backlog>>
       \/ tries[c] = 0 /\ Return(c, "idle") /\ UNCHANGED socketVars

\* ping().await? : an error ends the command.  The connection is dropped.
Ping(c) ==
    /\ cli[c] = "ping"
    /\ \/ Answered(c) /\ Return(c, "connect")
       \/ Lost(c) /\ Return(c, "idle")
    /\ UNCHANGED socketVars

-----------------------------------------------------------------------------
(* handle_ssh_via_daemon and handle_local_via_daemon                       *)

\* A connection of its own, to whichever daemon is reachable by now.
ConnectForSession(c) ==
    /\ cli[c] = "connect"
    /\ \/ Connects(c, "connect_session") /\ UNCHANGED tries
       \/ Reachable = {} /\ Return(c, "idle") /\ UNCHANGED socketVars

\* The requests of the command, one after another; only local opens a browser, and
\* only daemon status sends a ping before it asks for the sessions.
AfterRequest(phase) ==
    CASE phase = "connect_session" -> {"set_clipboard"}
      [] phase = "set_clipboard" -> {"get_clipboard"}
      [] phase = "get_clipboard" -> {"open_browser", "idle"}
      [] phase = "open_browser" -> {"idle"}
      [] phase = "status" -> {"query"}
      [] phase = "query" -> {"idle"}

\* A request that is answered leads to the next one; an answer that is an error, or
\* none because the daemon is gone, ends the command.
RequestOfSession(c) ==
    /\ cli[c] \in {"connect_session", "set_clipboard", "get_clipboard", "open_browser",
                  "status", "query"}
    /\ \/ /\ Answered(c)
          /\ \E phase \in AfterRequest(cli[c]) :
                IF phase = "idle" THEN Return(c, "idle")
                ELSE CliGoto(c, phase) /\ UNCHANGED <<tries, conn, backlog>>
       \/ (Answered(c) \/ Lost(c)) /\ Return(c, "idle")
    /\ UNCHANGED socketVars

-----------------------------------------------------------------------------
(* handle_daemon_command                                                   *)
DaemonActionStart(c) ==
    /\ Idle(c) /\ "start" \in Commands
    /\ \E p \in Process : Spawn(p)
    /\ Return(c, "idle")

DaemonActionStop(c) ==
    /\ Idle(c) /\ "stop" \in Commands
    /\ \/ Connects(c, "shutdown") /\ UNCHANGED tries
       \/ Reachable = {} /\ Return(c, "idle") /\ UNCHANGED socketVars

DaemonActionAsk(c) ==
    /\ Idle(c) /\ "ask" \in Commands
    /\ \/ \E phase \in {"status", "query"} : Connects(c, phase) /\ UNCHANGED tries
       \/ Reachable = {} /\ Return(c, "idle") /\ UNCHANGED socketVars

RequestShutdown(c) ==
    /\ cli[c] = "shutdown"
    /\ \/ /\ Answered(c) /\ Return(c, "idle")
          /\ server' = [server EXCEPT ![conn[c]] = IF @ = "serving" THEN "stopping" ELSE @]
       \/ Lost(c) /\ Return(c, "idle") /\ UNCHANGED server
    /\ UNCHANGED <<socket_file, contended>>

\* The end of run: the socket file is removed, whoever made it.
DaemonExits(p) ==
    /\ server[p] = "exiting"
    /\ server' = [server EXCEPT ![p] = "gone"]
    /\ socket_file' = None
    /\ contended' = contended \cup Starting
    /\ UNCHANGED cliVars

DaemonStep(p) ==
    \/ StartStep(p) /\ UNCHANGED cliVars
    \/ DaemonExits(p)

CliStep(c) ==
    \/ Probe(c) \/ Verify(c) \/ Ping(c) \/ ConnectForSession(c) \/ RequestOfSession(c)
    \/ RequestShutdown(c)

StartNext ==
    \/ \E c \in Cli : \/ EnsureDaemonRunning(c) \/ DaemonActionStart(c) \/ DaemonActionStop(c)
                      \/ DaemonActionAsk(c) \/ CliStep(c)
    \/ \E p \in Process : \/ DaemonStep(p)
                          \/ Crashes /\ Crash(p) /\ UNCHANGED cliVars

StartFairness ==
    /\ \A c \in Cli : WF_startVars(CliStep(c))
    /\ \A p \in Process : WF_startVars(DaemonStep(p))

StartSpec == StartInit /\ [][StartNext]_startVars /\ StartFairness

-----------------------------------------------------------------------------
(* Properties.                                                             *)

\* Every command returns, whatever happens to the daemons meanwhile.
CommandsReturn == \A c \in Cli : ~Idle(c) ~> Idle(c)

-----------------------------------------------------------------------------
(* What comments of the repository say and this code does not keep: see    *)
(* "Disagreements" in the README.                                          *)

\* There is one daemon that serves all commands.
OneDaemon == Cardinality(Listening) <= 1

\* A daemon that exits removes its own socket file and no other's.
RemovesOwnSocket ==
    [][\A p \in Process : DaemonExits(p) => socket_file \in {p, None}]_startVars
=============================================================================
