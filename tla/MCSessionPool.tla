--------------------------- MODULE MCSessionPool ---------------------------
(* A small instance of SessionPool.  The snapshots callers pass in are idle *)
(* sessions, or closing ones that must not be pooled; every session keeps   *)
(* the key of its configuration.  Low priority and no use give the lowest   *)
(* score of a session.                                                      *)
EXTENDS SessionPool, TLC

CONSTANTS s1, s2, s3, s4, k1, k2   \* sessions and connection keys

HomeKey == s1 :> k1 @@ s2 :> k1 @@ s3 :> k2 @@ s4 :> k2

MCSnapshots ==
    {s \in [id : SessionId, name : Name, connection_key : ConnectionKey,
            status : {"Idle", "Closing"}, priority : {"Low"},
            use_count : {0}, created_at : {0}, last_used : {0}] :
        s.connection_key = HomeKey[s.id]}

TaskSymmetry == Permutations(Task)
=============================================================================
