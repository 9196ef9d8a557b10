---------------------------- MODULE DaemonHandler ----------------------------
(***************************************************************************)
(* The daemon's request handler (client/src/daemon/handler.rs) on top of   *)
(* the session manager.  Every connected client has a task that handles    *)
(* its requests one after the other; the handlers of different clients and *)
(* the cleanup task interleave at every await.  The handlers' frames lie   *)
(* on the stack below the frames of the manager's methods they call.       *)
(***************************************************************************)
EXTENDS SessionManager

VARIABLES
    active_clients,  \* the ids with a client connection in the map
    reply,           \* task -> its last response, or None while it is handling a request
    crossed          \* history: the ids whose client a request to disconnect removed while
                     \* another task was about to make the session active

handlerVars == <<sessions, issued, registering, pools, pool_metadata, adding, expiring,
                 clock, stack, ret, calls, disturbed, metrics, active_clients, reply, crossed>>
managerState == <<tableState, poolState, clock, metrics>>
clientState == <<active_clients, crossed>>

HandlerInit ==
    /\ ManagerInit
    /\ active_clients = {} /\ crossed = {}
    /\ reply = [t \in Task |-> None]

-----------------------------------------------------------------------------
(* The response carries the request (key: the connection key asked for).   *)
Respond(t, kind, id, reused) ==
    /\ stack' = [stack EXCEPT ![t] = <<>>]
    /\ reply' = [reply EXCEPT ![t] = [kind |-> kind, id |-> id, reused |-> reused,
                                      request |-> Top(t).request, key |-> Top(t).key]]
    /\ UNCHANGED <<ret, calls, disturbed>>

NotFinished == UNCHANGED reply

\* The bottom frame: what a request asks for and where its handler is.
Request(at, request, id, name, key) ==
    [at |-> at, request |-> request, id |-> id, name |-> name, key |-> key, candidates |-> {}]

Step(t, label) == At(t, label) /\ UNCHANGED managerState

-----------------------------------------------------------------------------
(* handle_create_session                                                   *)
CreateFind(t) ==
    LET f == Top(t) IN
    /\ Step(t, "find_reusable")
    /\ \/ \E i \in FindSession(f.key) :
             CallThen(t, UseFrame(i), [f EXCEPT !.at = "reusing", !.id = i])
       \/ FindSession(f.key) = {} /\ Goto(t, [f EXCEPT !.at = "create_new"])
    /\ NotFinished /\ UNCHANGED clientState

CreateReuse(t) ==
    LET f == Top(t) IN
    /\ Step(t, "reusing")
    /\ \/ ret[t].ok /\ Respond(t, "SessionCreated", f.id, TRUE)
       \/ ~ret[t].ok /\ Goto(t, [f EXCEPT !.at = "create_new"]) /\ NotFinished
    /\ UNCHANGED clientState

CreateNew(t) ==
    LET f == Top(t) IN
    /\ Step(t, "create_new")
    /\ CallThen(t, CreateFrame(f.name, f.key), [f EXCEPT !.at = "created"])
    /\ NotFinished /\ UNCHANGED clientState

Created(t) ==
    LET f == Top(t) IN
    /\ Step(t, "created")
    /\ \/ /\ ret[t].ok
          /\ CallThen(t, UpdateStatusFrame(ret[t].id, "Connecting"),
                      [f EXCEPT !.at = "connecting", !.id = ret[t].id])
          /\ NotFinished
       \/ ~ret[t].ok /\ Respond(t, "MaxSessionsReached", None, FALSE)
    /\ UNCHANGED clientState

(* connect_client stores the client between two status updates; when one   *)
(* of them fails the session is closed but the client stays in the map.    *)
ConnectFailed(t, f) ==
    CallThen(t, CloseFrame(f.id), [f EXCEPT !.at = "connect_failed"]) /\ NotFinished

StoreClient(t) ==
    LET f == Top(t) IN
    /\ Step(t, "connecting")
    /\ \/ /\ ret[t].ok
          /\ active_clients' = active_clients \cup {f.id} /\ UNCHANGED crossed
          /\ CallThen(t, UpdateStatusFrame(f.id, "Active"), [f EXCEPT !.at = "connected"])
          /\ NotFinished
       \/ ~ret[t].ok /\ ConnectFailed(t, f) /\ UNCHANGED clientState

Connected(t) ==
    LET f == Top(t) IN
    /\ Step(t, "connected")
    /\ \/ ret[t].ok /\ Respond(t, "SessionCreated", f.id, FALSE)
       \/ ~ret[t].ok /\ ConnectFailed(t, f)
    /\ UNCHANGED clientState

ConnectFailure(t) ==
    /\ Step(t, "connect_failed")
    /\ Respond(t, "ConnectionFailed", Top(t).id, FALSE)
    /\ UNCHANGED clientState

HandleCreateSession(t) ==
    \/ CreateFind(t) \/ CreateReuse(t) \/ CreateNew(t) \/ Created(t)
    \/ StoreClient(t) \/ Connected(t) \/ ConnectFailure(t)

-----------------------------------------------------------------------------
(* handle_connect_session tries the sessions that were active under this   *)
(* name when it listed them, then goes on as handle_create_session.        *)
ConnectList(t) ==
    LET f == Top(t) IN
    /\ Step(t, "list_sessions")
    /\ Goto(t, [f EXCEPT !.at = "try_candidates",
                         !.candidates = {i \in Registered : sessions[i].name = f.name
                                                            /\ sessions[i].status = "Active"}])
    /\ NotFinished /\ UNCHANGED clientState

ConnectTry(t) ==
    LET f == Top(t) IN
    /\ Step(t, "try_candidates")
    /\ \/ \E i \in f.candidates :
             CallThen(t, UseFrame(i), [f EXCEPT !.at = "candidate_used", !.id = i,
                                                !.candidates = @ \ {i}])
       \/ f.candidates = {} /\ Goto(t, [f EXCEPT !.at = "find_reusable"])
    /\ NotFinished /\ UNCHANGED clientState

ConnectUsed(t) ==
    LET f == Top(t) IN
    /\ Step(t, "candidate_used")
    /\ \/ ret[t].ok /\ Respond(t, "SessionCreated", f.id, TRUE)
       \/ ~ret[t].ok /\ Goto(t, [f EXCEPT !.at = "try_candidates"]) /\ NotFinished
    /\ UNCHANGED clientState

HandleConnectSession(t) == ConnectList(t) \/ ConnectTry(t) \/ ConnectUsed(t)

-----------------------------------------------------------------------------
\* connect_client has stored the client of this session and waits for the session
\* to become active.
Activating(u, i) ==
    \E n \in 1..Len(stack[u]) : stack[u][n].at = "connected" /\ stack[u][n].id = i

Forget(i) ==
    /\ active_clients' = active_clients \ {i}
    /\ crossed' = {j \in {i} : \E u \in Task : Activating(u, j)} \cup crossed

\* Mutation: the session keeps its status.
RemoveClientOnly(t) ==
    LET f == Top(t) IN
    /\ Step(t, "remove_client")
    /\ Forget(f.id)
    /\ Goto(t, [f EXCEPT !.at = "disconnected"])
    /\ NotFinished

(* handle_disconnect_session                                               *)
RemoveClient(t) ==
    LET f == Top(t) IN
    /\ Step(t, "remove_client")
    /\ Forget(f.id)
    /\ CallThen(t, UpdateStatusFrame(f.id, "Idle"), [f EXCEPT !.at = "disconnected"])
    /\ NotFinished

Disconnected(t) ==
    LET f == Top(t) IN
    /\ Step(t, "disconnected")
    /\ Respond(t, IF ret[t].ok THEN "SessionDisconnected" ELSE "SessionNotFound", f.id, FALSE)
    /\ UNCHANGED clientState

HandleDisconnectSession(t) == RemoveClient(t) \/ Disconnected(t)

-----------------------------------------------------------------------------
(* handle_execute_command: the client is looked up first; that the session *)
(* cannot be marked as used is only logged.                                *)
GetClient(t) ==
    LET f == Top(t) IN
    /\ Step(t, "get_client")
    /\ \/ /\ f.id \in active_clients
          /\ CallThen(t, UseFrame(f.id), [f EXCEPT !.at = "execute"])
          /\ NotFinished
       \/ f.id \notin active_clients /\ Respond(t, "SessionNotFound", f.id, FALSE)
    /\ UNCHANGED clientState

\* execute_command_on_client is a placeholder that answers every command with success.
Execute(t) ==
    /\ Step(t, "execute")
    /\ Respond(t, "CommandSuccess", Top(t).id, FALSE)
    /\ UNCHANGED clientState

HandleExecuteCommand(t) == GetClient(t) \/ Execute(t)

-----------------------------------------------------------------------------
(* Requests.  Ping, ListSessions and GetSessionInfo only read.             *)
Accept(t, frame) ==
    /\ Begin(t, frame)
    /\ reply' = [reply EXCEPT ![t] = None]
    /\ UNCHANGED clientState

\* Bound: SessionId holds an id for every request that may still create a session.
MayCreate ==
    {t \in Task : stack[t] # <<>> /\ LET f == stack[t][Len(stack[t])] IN
        f.at \in {"list_sessions", "try_candidates", "candidate_used", "find_reusable",
                  "reusing", "create_new", "created"}}
RequestIdsLeft == Cardinality(issued) + Cardinality(MayCreate) < Cardinality(SessionId)

HandleRequest(t) ==
    \/ \E n \in Name, k \in ConnectionKey :
          /\ RequestIdsLeft
          /\ \/ Accept(t, Request("find_reusable", "CreateSession", None, n, k))
             \/ Accept(t, Request("list_sessions", "ConnectSession", None, n, k))
    \/ \E i \in issued :
          \/ Accept(t, Request("remove_client", "DisconnectSession", i, None, None))
          \/ Accept(t, Request("get_client", "ExecuteCommand", i, None, None))

\* A step of a method of the manager, of the cleanup task or of the clock.
Background(t) ==
    /\ \/ UpdateSessionStatus(t) \/ UseSession(t) \/ CloseSession(t) \/ CreateSession(t)
       \/ Cleanup(t)
    /\ UNCHANGED <<clientState, reply>>

HandlerStep(t) ==
    \/ HandleCreateSession(t) \/ HandleConnectSession(t)
    \/ HandleDisconnectSession(t) \/ HandleExecuteCommand(t)
    \/ Background(t)

HandlerNext ==
    \/ \E t \in Task : HandleRequest(t) \/ HandlerStep(t)
    \/ ManagerClockStep /\ UNCHANGED <<clientState, reply>>

HandlerSpec ==
    /\ HandlerInit /\ [][HandlerNext]_handlerVars
    /\ \A t \in Task : WF_handlerVars(HandlerStep(t))

-----------------------------------------------------------------------------
(* Properties.                                                             *)

Answered(kind) == {t \in Task : reply[t] # None /\ reply[t].kind = kind}

\* A session answered as created or connected has its client connection in the
\* map at that moment, so that commands can be executed in it.
CreatedHasClient ==
    [][\A t \in Task : (reply[t] = None /\ t \in Answered("SessionCreated")')
          => reply'[t].id \in active_clients]_handlerVars

\* Between requests every active session that was never reused has its client
\* connection, whatever the requests of other clients and the cleanup tasks did
\* meanwhile: it is stored before the session becomes active, and disconnecting
\* takes both back.  It fails of a session that was disconnected between the two,
\* which is left active without a client; and a reused session may have none.
ActiveHasClient ==
    Quiescent => \A i \in InStatus("Active") \ crossed :
        sessions[i].use_count = 0 => i \in active_clients

-----------------------------------------------------------------------------
(* What comments of the repository say and this code does not keep: see    *)
(* "Disagreements" in the README.                                          *)

\* No command succeeds in a session that is gone from the registry, which is
\* what use_session reports.
CommandInSession ==
    [][\A t \in Task : (reply[t] = None /\ t \in Answered("CommandSuccess")') => ret[t].ok]_handlerVars
=============================================================================
