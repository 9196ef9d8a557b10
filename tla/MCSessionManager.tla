-------------------------- MODULE MCSessionManager --------------------------
(* A small instance of SessionManager.  StaleCopies are the copies of its   *)
(* metadata a caller may have read while the session was idle.              *)
EXTENDS SessionManager

StaleCopies ==
    [id : SessionId, name : Name, connection_key : ConnectionKey, status : {"Idle"},
     priority : {"Normal"}, use_count : {0}, created_at : {0}, last_used : {0}]
=============================================================================
