----------------------------- MODULE SocketPath -----------------------------
(***************************************************************************)
(* A Unix socket at a fixed path and the processes that listen on it, as   *)
(* DaemonServer::run (client/src/daemon/server.rs) does: look whether the  *)
(* file exists, remove it, bind.  The three are separate system calls that *)
(* other processes come between.  The file names the listener that was     *)
(* bound when it was made; it outlives that listener's process.            *)
(***************************************************************************)
CONSTANTS
    Process,
    None

ASSUME NoneIsNoProcess == None \notin Process

VARIABLES
    socket_file,  \* the process whose listener the file leads to, or None
    server,       \* process -> how far it is
    contended     \* processes during whose start another one started or exited

socketVars == <<socket_file, server, contended>>

\* "found": it saw a file; "clear": it saw none or removed it; "serving": its
\* listener is bound; "stopping": asked to stop; "exiting": its accept loop is
\* left; "failed": bound no listener; "closed": lost it; "gone": exited or killed.
ServerPhase == {"off", "starting", "found", "clear", "serving", "stopping", "exiting",
                "failed", "closed", "gone"}
Listening == {p \in Process : server[p] \in {"serving", "stopping", "exiting"}}
Starting == {p \in Process : server[p] \in {"starting", "found", "clear"}}

SocketTypeOK ==
    /\ socket_file \in Process \cup {None}
    /\ server \in [Process -> ServerPhase]
    /\ contended \subseteq Process

SocketInit ==
    /\ socket_file = None
    /\ server = [p \in Process |-> "off"]
    /\ contended = {}

Spawn(p) ==
    /\ server[p] = "off"
    /\ server' = [server EXCEPT ![p] = "starting"]
    /\ contended' = contended \cup IF Starting = {} THEN {} ELSE Starting \cup {p}
    /\ UNCHANGED socket_file

\* Mutation: an existing file is left in place.
CheckPathIgnored(p) ==
    /\ server[p] = "starting"
    /\ server' = [server EXCEPT ![p] = "clear"]
    /\ UNCHANGED <<socket_file, contended>>

\* socket_path.exists()
CheckPath(p) ==
    /\ server[p] = "starting"
    /\ server' = [server EXCEPT ![p] = IF socket_file = None THEN "clear" ELSE "found"]
    /\ UNCHANGED <<socket_file, contended>>

\* remove_file, which fails when another process was faster.
RemovePath(p) ==
    /\ server[p] = "found"
    /\ socket_file' = None
    /\ server' = [server EXCEPT ![p] = IF socket_file = None THEN "failed" ELSE "clear"]
    /\ UNCHANGED contended

\* Mutation: a process that cannot bind cleans up the path.
BindPathCleansUp(p) ==
    /\ server[p] = "clear"
    /\ socket_file' = IF socket_file = None THEN p ELSE None
    /\ server' = [server EXCEPT ![p] = IF socket_file = None THEN "serving" ELSE "failed"]
    /\ UNCHANGED contended

\* bind, which fails when there is a file again.
BindPath(p) ==
    /\ server[p] = "clear"
    /\ IF socket_file = None
       THEN socket_file' = p /\ server' = [server EXCEPT ![p] = "serving"]
       ELSE server' = [server EXCEPT ![p] = "failed"] /\ UNCHANGED socket_file
    /\ UNCHANGED contended

\* The process is killed: the file stays.
Crash(p) ==
    /\ p \in Listening \cup Starting
    /\ server' = [server EXCEPT ![p] = "gone"]
    /\ UNCHANGED <<socket_file, contended>>

StartStep(p) == CheckPath(p) \/ RemovePath(p) \/ BindPath(p)

\* The process a connect to the path reaches; none when the file is stale.
Reachable == {p \in Listening : socket_file = p}

-----------------------------------------------------------------------------
(* Properties.                                                             *)

\* However the starts of several processes interleave, once all of them are
\* through one of them is reachable, as long as none exits.
SomeoneReachable ==
    /\ Starting = {} /\ (\E p \in Process : server[p] # "off")
    /\ \A p \in Process : server[p] \in {"off", "serving", "failed"}
    => Reachable # {}

\* The file that a killed process leaves behind, or that a living one still
\* uses, does not keep another from serving: a start fails only when another
\* process starts or exits while it is under way.
FailsOnlyContended == \A p \in Process : server[p] = "failed" => p \in contended
=============================================================================
