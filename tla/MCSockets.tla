----------------------------- MODULE MCSockets -----------------------------
(***************************************************************************)
(* A small instance of the two users of SocketPath: the daemon             *)
(* (DaemonStart) and the IPC server of the remote process (Ipc).  They use *)
(* different paths and have nothing to do with each other, so a behaviour  *)
(* is one of the daemon or one of the IPC server, as "user" says.  The     *)
(* other one stays in its initial state.                                   *)
(***************************************************************************)
EXTENDS DaemonStart, Ipc

VARIABLE user

ipcOnly == <<shell, commands, ipc_queue, buffered>>
vars == <<startVars, ipcOnly, user>>

Init == StartInit /\ IpcInit /\ user \in {"daemon", "ipc"}

Next ==
    \/ user = "daemon" /\ StartNext /\ UNCHANGED <<ipcOnly, user>>
    \/ user = "ipc" /\ IpcNext /\ UNCHANGED <<cliVars, user>>

\* The fairness of either holds trivially in a behaviour of the other, or asks
\* for the same steps towards a bound socket.
Spec == Init /\ [][Next]_vars /\ StartFairness /\ IpcFairness
=============================================================================
