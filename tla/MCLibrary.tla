----------------------------- MODULE MCLibrary -----------------------------
(***************************************************************************)
(* A small instance of the parts that are modelled each on its own: the    *)
(* cleanup task, the circuit breaker, the retry loop, the metrics          *)
(* collector, the session metrics, the SSH transport, the transport        *)
(* configuration and the configuration file.  They share no state, so a    *)
(* behaviour is one of a single part, the others staying in their initial  *)
(* states.                                                                 *)
(***************************************************************************)
EXTENDS BackgroundTask, CircuitBreaker, Retry, MetricsCollector, SessionMetrics,
        SshTransport, TransportConfig, Config

VARIABLE part

vars == <<taskVars, breakerVars, retryVars, collectorVars, metricsVars, sshVars,
          transportVars, configVars, part>>

Part == {"task", "breaker", "retry", "collector", "metrics", "ssh", "transport", "config"}

SomeHosts == {<<"a">>, <<"a", ":", "22">>}
SomeAccounts == {<<"a">>, <<"a", "@", "a">>}
SomePaths == {<<"yuha-remote">>, <<"ff">>, <<"fe">>}
SomeDistributions == {<<"a">>, <<"default">>}
SomeWritten ==
    [default_port : {0, 1}, connection_timeout : {1}, others : {1}, profile : {"ssh"}]
SomeEnvironments ==
    {[default_port |-> Nothing, connection_timeout |-> Nothing],
     [default_port |-> 1, connection_timeout |-> 0]}

\* The run checks invariants only, and all connections are alike.
Symmetry == Permutations(Connection)

\* Bound: where both connections upload, one of them at least is one of which
\* SerialUploadRuns is claimed.
Uploads ==
    (\A c \in Connection : upload[c]) => overlap \cup disturbed # Connection

Init ==
    /\ TaskInit /\ BreakerInit /\ RetryInit /\ CollectorInit /\ MetricsInit
    /\ SshInit /\ TransportInit /\ ConfigInit
    /\ part \in Part
    /\ part # "ssh" => chunks = 1 /\ \A c \in Connection : ~upload[c]
    /\ part # "transport" => ~windows /\ installed = {}
    /\ part # "config" => env.default_port = Nothing /\ \A p \in FallbackPath : files[p] = Absent

\* One conjunct per part that another part's step leaves alone.
Only(p) ==
    /\ part = p /\ UNCHANGED part
    /\ p # "task" => UNCHANGED taskVars
    /\ p # "breaker" => UNCHANGED breakerVars
    /\ p # "retry" => UNCHANGED retryVars
    /\ p # "collector" => UNCHANGED collectorVars
    /\ p # "metrics" => UNCHANGED metricsVars
    /\ p # "ssh" => UNCHANGED sshVars
    /\ p # "transport" => UNCHANGED transportVars
    /\ p # "config" => UNCHANGED configVars

Next ==
    \/ Only("task") /\ TaskNext
    \/ Only("breaker") /\ BreakerNext
    \/ Only("retry") /\ RetryNext
    \/ Only("collector") /\ CollectorNext
    \/ Only("metrics") /\ MetricsNext
    \/ Only("ssh") /\ SshNext
    \/ Only("transport") /\ TransportNext
    \/ Only("config") /\ ConfigNext

Spec == Init /\ [][Next]_vars
=============================================================================
