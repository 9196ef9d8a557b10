------------------------- MODULE MCSessionRegistry -------------------------
(* Small instances of SessionRegistry.  update is called with any name and  *)
(* any key; the other fields of the caller's copy are the ones of a fresh   *)
(* session, so an update can also undo a use.                               *)
EXTENDS SessionRegistry, TLC

MCSnapshots ==
    [id : SessionId, name : Name, connection_key : ConnectionKey,
     status : {"Connecting"}, priority : {"Normal"}, use_count : {0},
     created_at : {0}, last_used : {0}]

MCSymmetry == Permutations(Task) \cup Permutations(SessionId) \cup Permutations(Name)
=============================================================================
