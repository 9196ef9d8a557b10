----------------------------- MODULE MCProgress -----------------------------
(***************************************************************************)
(* A small instance of the parts whose promise is that something happens:  *)
(* the daemon's accept loop and connections, the message channel, the      *)
(* locks of the registry, the processes behind the local transports and    *)
(* the session metrics' history.  They share no state, so a behaviour is   *)
(* one of a single part, the others staying in their initial states.       *)
(*                                                                         *)
(* With bytes of one bit a length has two bits: messages of 0 to 3 bytes   *)
(* pass the channel, one of 4 is refused.                                  *)
(***************************************************************************)
EXTENDS DaemonServer, MessageChannel, RegistryLocks, ProcessTransport, SessionMetrics

VARIABLE part

vars == <<serverVars, channelVars, lockVars, processVars, metricsVars, part>>

Part == {"server", "channel", "locks", "process", "history"}

SomePayloads == {<<>>, <<1>>, <<1, 0, 1>>, <<1, 1, 0, 1>>}
AllButIndexLookups == DOMAIN Program \ {"list_by_name", "list_by_connection_key"}

Init ==
    /\ ServerInit /\ ChannelInit /\ LockInit /\ ProcessInit /\ MetricsInit
    /\ part \in Part

\* One conjunct per part that another part's step leaves alone.
Only(p) ==
    /\ part = p /\ UNCHANGED part
    /\ p # "server" => UNCHANGED serverVars
    /\ p # "channel" => UNCHANGED channelVars
    /\ p # "locks" => UNCHANGED lockVars
    /\ p # "process" => UNCHANGED processVars
    /\ p # "history" => UNCHANGED metricsVars

Next ==
    \/ Only("server") /\ ServerNext
    \/ Only("channel") /\ ChannelNext
    \/ Only("locks") /\ LockNext
    \/ Only("process") /\ ProcessNext
    \/ Only("history") /\ MetricsNext

\* In its initial state no part has a step that its fairness asks for.
Spec ==
    /\ Init /\ [][Next]_vars
    /\ ServerFairness /\ ChannelFairness /\ LockFairness /\ ProcessFairness /\ MetricsFairness
=============================================================================
