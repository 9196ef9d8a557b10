-------------------------- MODULE MCDaemonHandler --------------------------
(* A small instance of DaemonHandler.  Clients do the same things and no     *)
(* session is told from another, so behaviours that differ by a permutation  *)
(* of either are checked once.                                               *)
EXTENDS DaemonHandler, TLC

Symmetry == Permutations(Client) \cup Permutations(SessionId)

\* Bound: once there was a third request, no cleanup is under way.
Rounds == calls < 3 \/ \A t \in Cleaner : stack[t] = <<>>
=============================================================================
