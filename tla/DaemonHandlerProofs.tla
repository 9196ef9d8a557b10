------------------------ MODULE DaemonHandlerProofs ------------------------
(* Proofs about DaemonHandler for every set of sessions, names and keys, every *)
(* configuration and any number of requests, clients and cleanup tasks: types, *)
(* the map of sessions and the map of client connections.                      *)
EXTENDS DaemonHandler, SessionManagerProofs

USE DEF clientState

-----------------------------------------------------------------------------
(* What lies on the stacks.                                                 *)

CreateLabels == {"list_sessions", "try_candidates", "candidate_used", "find_reusable",
                 "reusing", "create_new", "created"}

ConnectLabels == {"connecting", "connected", "connect_failed"}

SessionLabels == {"remove_client", "disconnected", "get_client", "execute"}

RequestKind == {"CreateSession", "ConnectSession", "DisconnectSession", "ExecuteCommand"}

CreateRequest ==
    [at : CreateLabels, request : RequestKind, id : SessionId \cup {None}, name : Name,
     key : ConnectionKey, candidates : SUBSET SessionId]

ConnectRequest ==
    [at : ConnectLabels, request : RequestKind, id : SessionId, name : Name,
     key : ConnectionKey, candidates : SUBSET SessionId]

SessionRequest ==
    [at : SessionLabels, request : RequestKind, id : SessionId, name : {None},
     key : {None}, candidates : SUBSET SessionId]

RequestFrame == CreateRequest \cup ConnectRequest \cup SessionRequest

UseFrames == [at : {"use_mark", "use_get"}, id : SessionId]

CreateFrames ==
    [at : {"create_check"}, name : Name, key : ConnectionKey]
    \cup [at : {"create_insert", "create_record"}, id : SessionId]

CloseFrames ==
    [at : {"close", "close_pool_remove", "close_unregister"}, id : SessionId]
    \cup CloseRecordFrame

CleanupFrames == CleanupFrame \cup ExpireFrame \cup SweepFrame

\* f is a frame of update_session_status that sets this status of this session.
Updates(f, i, status) == f \in UpdateStatusFrames /\ f.id = i /\ f.status = status

\* The handler that waits in frame g has called the method of frame f.
Serves(f, g) ==
    \/ /\ g.at \in {"reusing", "candidate_used", "execute"}
       /\ f \in UseFrames \/ Updates(f, f.id, "Active")
    \/ g.at = "created" /\ f \in CreateFrames
    \/ g.at = "connecting" /\ Updates(f, g.id, "Connecting")
    \/ g.at = "connected" /\ Updates(f, g.id, "Active")
    \/ g.at = "disconnected" /\ Updates(f, g.id, "Idle")
    \/ g.at = "connect_failed" /\ f \in CloseFrames

\* What may lie on top of what: a task cleans up, or it is a client's and is in a
\* handler, in a method that the handler called, or in update_session_status
\* called by close_session.
Upon(t, f, rest) ==
    \/ f \in CleanupFrames /\ rest = <<>>
    \/ t \in Client /\ f \in RequestFrame /\ rest = <<>>
    \/ t \in Client /\ \E g \in RequestFrame : Serves(f, g) /\ rest = <<g>>
    \/ /\ t \in Client /\ Updates(f, f.id, "Closing")
       /\ \E h \in WaitingClose, g \in RequestFrame : g.at = "connect_failed" /\ rest = <<h, g>>

Below(t) == Tail(stack[t])

\* The stack of a task is empty or in that order.
Stacked(t) ==
    \/ stack[t] = <<>>
    \/ Upon(t, Top(t), Below(t)) /\ stack[t] = <<Top(t)>> \o Below(t)

ResponseKind == {"SessionCreated", "MaxSessionsReached", "ConnectionFailed",
                 "SessionDisconnected", "SessionNotFound", "CommandSuccess"}

Response ==
    [kind : ResponseKind, id : SessionId \cup {None}, reused : BOOLEAN, request : RequestKind,
     key : ConnectionKey \cup {None}]

\* The last part is what handle_create_session relies on: create_session that
\* succeeded gave an id.
HandlerControl ==
    /\ stack = [t \in Task |-> stack[t]]
    /\ \A t \in Task : Stacked(t)
    /\ ret \in [Task -> [ok : BOOLEAN, id : SessionId \cup {None}]]
    /\ \A t \in Task : At(t, "created") /\ ret[t].ok => ret[t].id \in SessionId

HandlerTypeOK ==
    /\ TableTypeOK /\ HandlerControl
    /\ active_clients \subseteq SessionId /\ crossed \subseteq SessionId
    /\ reply \in [Task -> Response \cup {None}]

-----------------------------------------------------------------------------
(* How the stacks move.                                                     *)

\* Putting a frame before two others.
LEMMA ThreeFrames ==
    ASSUME NEW f, NEW g, NEW h
    PROVE  <<f>> \o <<g, h>> = <<f, g, h>> /\ <<f, g>> \o <<h>> = <<f, g, h>>
<1> DEFINE a == <<f>> \o <<g, h>>
           b == <<f, g, h>>
           c == <<f, g>> \o <<h>>
<1>1. Len(a) = 3 /\ a[1] = f /\ a[2] = g /\ a[3] = h /\ a \in Seq({f, g, h})
  OBVIOUS
<1>2. Len(b) = 3 /\ b[1] = f /\ b[2] = g /\ b[3] = h /\ b \in Seq({f, g, h})
  OBVIOUS
<1>3. Len(c) = 3 /\ c[1] = f /\ c[2] = g /\ c[3] = h /\ c \in Seq({f, g, h})
  OBVIOUS
<1> HIDE DEF a, b, c
<1>4. (\A n \in 1..Len(a) : a[n] = b[n]) /\ (\A n \in 1..Len(c) : c[n] = b[n])
  BY <1>1, <1>2, <1>3
<1>5. a = b
  BY <1>1, <1>2, <1>4, SeqEqual
<1>6. c = b
  BY <1>2, <1>3, <1>4, SeqEqual
<1> QED
  BY <1>5, <1>6 DEF a, b, c

\* The frame that was put on top is the top, what was below is below.
LEMMA OnTop ==
    ASSUME NEW t, NEW f, NEW rest, Upon(t, f, rest)
    PROVE  /\ <<f>> \o rest # <<>>
           /\ Head(<<f>> \o rest) = f /\ Tail(<<f>> \o rest) = rest
<1>1. CASE rest = <<>>
  <2>1. <<f>> \o <<>> = <<f>>
    OBVIOUS
  <2>2. <<f>> # <<>> /\ Head(<<f>>) = f /\ Tail(<<f>>) = <<>>
    OBVIOUS
  <2> QED
    BY <1>1, <2>1, <2>2
<1>2. ASSUME NEW g, rest = <<g>>
      PROVE  <<f>> \o rest # <<>> /\ Head(<<f>> \o rest) = f /\ Tail(<<f>> \o rest) = rest
  <2>1. <<f>> \o <<g>> = <<f, g>>
    BY TwoFrames
  <2>2. <<f, g>> # <<>> /\ Head(<<f, g>>) = f /\ Tail(<<f, g>>) = <<g>>
    OBVIOUS
  <2> QED
    BY <1>2, <2>1, <2>2
<1>3. ASSUME NEW h, NEW g, rest = <<h, g>>
      PROVE  <<f>> \o rest # <<>> /\ Head(<<f>> \o rest) = f /\ Tail(<<f>> \o rest) = rest
  <2>1. <<f>> \o <<h, g>> = <<f, h, g>>
    BY ThreeFrames
  <2>2. <<f, h, g>> # <<>> /\ Head(<<f, h, g>>) = f /\ Tail(<<f, h, g>>) = <<h, g>>
    OBVIOUS
  <2> QED
    BY <1>3, <2>1, <2>2
<1> QED
  BY <1>1, <1>2, <1>3 DEF Upon

\* The labels tell handlers, methods and the cleanup apart.
LEMMA Labels ==
    ASSUME NEW f
    PROVE  /\ f \in RequestFrame => f.at \in CreateLabels \cup ConnectLabels \cup SessionLabels
           /\ f \in CleanupFrames => f.at \in {"cleanup", "cleanup_pool_remove",
                                               "cleanup_record", "cleanup_sweep"}
           /\ f \in UseFrames => f.at \in {"use_mark", "use_get"}
           /\ f \in CreateFrames => f.at \in {"create_check", "create_insert", "create_record"}
           /\ f \in CloseFrames => f.at \in {"close", "close_pool_remove", "close_unregister",
                                             "close_record"}
           /\ \A i, status : Updates(f, i, status) =>
                 f.at \in {"status_get", "status_update", "status_pool_get", "status_pool_check",
                           "status_pool_insert", "status_pool_remove", "status_record"}
<1>1. \A i, status : Updates(f, i, status) =>
                 f.at \in {"status_get", "status_update", "status_pool_get", "status_pool_check",
                           "status_pool_insert", "status_pool_remove", "status_record"}
  BY StatusLabels DEF Updates
<1> QED
  BY <1>1 DEF RequestFrame, CreateRequest, ConnectRequest, SessionRequest, CleanupFrames, CleanupFrame,
     ExpireFrame, SweepFrame, UseFrames, CreateFrames, CloseFrames, CloseRecordFrame

MethodLabels ==
    {"status_get", "status_update", "status_pool_get", "status_pool_check",
     "status_pool_insert", "status_pool_remove", "status_record", "use_mark", "use_get",
     "create_check", "create_insert", "create_record", "close", "close_pool_remove",
     "close_unregister", "close_record"}

\* A frame that serves a handler is one of a method.
LEMMA ServesLabels ==
    ASSUME NEW f, NEW g, Serves(f, g)
    PROVE  f.at \in MethodLabels
BY Labels DEF Serves, MethodLabels

\* The label on top tells what lies below.
LEMMA TopTells ==
    ASSUME NEW t, NEW f, NEW rest, Upon(t, f, rest)
    PROVE  /\ f.at \in CreateLabels \cup ConnectLabels \cup SessionLabels =>
                 t \in Client /\ f \in RequestFrame /\ rest = <<>>
           /\ f.at \in {"cleanup", "cleanup_pool_remove", "cleanup_record", "cleanup_sweep"} =>
                 f \in CleanupFrames /\ rest = <<>>
           /\ f.at \in MethodLabels =>
                 /\ t \in Client
                 /\ \/ \E g \in RequestFrame : Serves(f, g) /\ rest = <<g>>
                    \/ /\ Updates(f, f.id, "Closing")
                       /\ \E h \in WaitingClose, g \in RequestFrame :
                             g.at = "connect_failed" /\ rest = <<h, g>>
<1> USE DEF CreateLabels, ConnectLabels, SessionLabels, MethodLabels
<1>1. CASE f \in CleanupFrames /\ rest = <<>>
  BY <1>1, Labels
<1>2. CASE t \in Client /\ f \in RequestFrame /\ rest = <<>>
  BY <1>2, Labels
<1>3. CASE t \in Client /\ \E g \in RequestFrame : Serves(f, g) /\ rest = <<g>>
  BY <1>3, ServesLabels
<1>4. CASE /\ t \in Client /\ Updates(f, f.id, "Closing")
           /\ \E h \in WaitingClose, g \in RequestFrame : g.at = "connect_failed" /\ rest = <<h, g>>
  BY <1>4, Labels
<1> QED
  BY <1>1, <1>2, <1>3, <1>4 DEF Upon

\* One task's stack changes to another that may be; it has no new result to look
\* at unless create_session returned.
LEMMA StackChange ==
    ASSUME HandlerControl, NEW t \in Task, NEW s, stack' = [stack EXCEPT ![t] = s],
           s = <<>> \/ \E f, rest : Upon(t, f, rest) /\ s = <<f>> \o rest
    PROVE  /\ stack' = [u \in Task |-> stack'[u]] /\ \A u \in Task : Stacked(u)'
           /\ stack'[t] = s /\ \A u \in Task : u # t => stack'[u] = stack[u]
<1>1. /\ stack' = [u \in Task |-> stack'[u]]
      /\ stack'[t] = s /\ \A u \in Task : u # t => stack'[u] = stack[u]
  BY DEF HandlerControl
<1>2. ASSUME NEW u \in Task, u # t PROVE Stacked(u)'
  BY <1>1, <1>2 DEF HandlerControl, Stacked, Top, Below
<1>3. Stacked(t)'
  <2>1. CASE s = <<>>
    BY <1>1, <2>1 DEF Stacked
  <2>2. ASSUME NEW f, NEW rest, Upon(t, f, rest), s = <<f>> \o rest PROVE Stacked(t)'
    <3>1. Head(s) = f /\ Tail(s) = rest
      BY <2>2, OnTop
    <3>2. Top(t)' = f /\ Below(t)' = rest
      BY <1>1, <3>1 DEF Top, Below
    <3>3. Upon(t, Top(t)', Below(t)')
      BY <2>2, <3>2
    <3>4. stack'[t] = <<Top(t)'>> \o Below(t)'
      BY <1>1, <2>2, <3>2
    <3> QED
      BY <3>3, <3>4 DEF Stacked, Upon
  <2> QED
    BY <2>1, <2>2
<1> QED
  BY <1>1, <1>2, <1>3

Elsewhere(t) == \A u \in Task : u # t => stack'[u] = stack[u]

\* A method or a handler goes on.
LEMMA GoesOn ==
    ASSUME HandlerControl, NEW t \in Task, stack[t] # <<>>, NEW f, Upon(t, f, Below(t)),
           f.at # "created", Goto(t, f)
    PROVE  /\ HandlerControl' /\ Elsewhere(t)
           /\ stack'[t] # <<>> /\ Top(t)' = f /\ Below(t)' = Below(t)
<1> DEFINE s == <<f>> \o Below(t)
<1>1. stack' = [stack EXCEPT ![t] = s] /\ ret' = ret
  BY DEF Goto, Below
<1>2. s # <<>> /\ Head(s) = f /\ Tail(s) = Below(t)
  BY OnTop
<1>3. \E g, rest : Upon(t, g, rest) /\ s = <<g>> \o rest
  OBVIOUS
<1> HIDE DEF s
<1>4. /\ stack' = [u \in Task |-> stack'[u]] /\ \A u \in Task : Stacked(u)'
      /\ stack'[t] = s /\ Elsewhere(t)
  BY <1>1, <1>3, StackChange DEF Elsewhere
<1>5. Top(t)' = f /\ Below(t)' = Below(t) /\ stack'[t] # <<>>
  BY <1>2, <1>4 DEF Top, Below
<1>6. \A u \in Task : At(u, "created")' /\ ret'[u].ok => ret'[u].id \in SessionId
  BY <1>1, <1>4, <1>5 DEF HandlerControl, At, Top, Elsewhere
<1> QED
  BY <1>1, <1>4, <1>5, <1>6 DEF HandlerControl

\* A handler calls a method of the manager.
LEMMA HandlerCalls ==
    ASSUME HandlerControl, NEW t \in Task, t \in Client, stack[t] # <<>>, Below(t) = <<>>,
           NEW g \in RequestFrame, NEW f, Serves(f, g), CallThen(t, f, g)
    PROVE  /\ HandlerControl' /\ Elsewhere(t)
           /\ stack'[t] # <<>> /\ Top(t)' = f /\ Below(t)' = <<g>>
<1> DEFINE s == <<f>> \o <<g>>
<1>1. <<f, g>> \o <<>> = <<f, g>> /\ s = <<f, g>>
  <2>1. <<f, g>> \o <<>> = <<f, g>>
    OBVIOUS
  <2> QED
    BY <2>1, TwoFrames
<1>2. stack' = [stack EXCEPT ![t] = s] /\ ret' = ret
  BY <1>1 DEF CallThen, Below
<1>3. Upon(t, f, <<g>>)
  BY DEF Upon
<1>4. s # <<>> /\ Head(s) = f /\ Tail(s) = <<g>>
  BY <1>3, OnTop
<1>5. \E h, rest : Upon(t, h, rest) /\ s = <<h>> \o rest
  BY <1>3
<1> HIDE DEF s
<1>6. /\ stack' = [u \in Task |-> stack'[u]] /\ \A u \in Task : Stacked(u)'
      /\ stack'[t] = s /\ Elsewhere(t)
  BY <1>2, <1>5, StackChange DEF Elsewhere
<1>7. Top(t)' = f /\ Below(t)' = <<g>> /\ stack'[t] # <<>>
  BY <1>4, <1>6 DEF Top, Below
<1>8. f.at # "created"
  BY ServesLabels DEF MethodLabels
<1>9. \A u \in Task : At(u, "created")' /\ ret'[u].ok => ret'[u].id \in SessionId
  BY <1>2, <1>6, <1>7, <1>8 DEF HandlerControl, At, Top, Elsewhere
<1> QED
  BY <1>2, <1>6, <1>7, <1>9 DEF HandlerControl

\* close_session calls update_session_status.
LEMMA CloseCalls ==
    ASSUME HandlerControl, NEW t \in Task, t \in Client, stack[t] # <<>>,
           NEW g \in RequestFrame, g.at = "connect_failed", Below(t) = <<g>>,
           NEW h \in WaitingClose, NEW f, Updates(f, f.id, "Closing"), CallThen(t, f, h)
    PROVE  /\ HandlerControl' /\ Elsewhere(t)
           /\ stack'[t] # <<>> /\ Top(t)' = f /\ Below(t)' = <<h, g>>
<1> DEFINE s == <<f>> \o <<h, g>>
<1>1. <<f, h>> \o <<g>> = s
  BY ThreeFrames
<1>2. stack' = [stack EXCEPT ![t] = s] /\ ret' = ret
  BY <1>1 DEF CallThen, Below
<1>3. Upon(t, f, <<h, g>>)
  BY DEF Upon
<1>4. s # <<>> /\ Head(s) = f /\ Tail(s) = <<h, g>>
  BY <1>3, OnTop
<1>5. \E k, rest : Upon(t, k, rest) /\ s = <<k>> \o rest
  BY <1>3
<1> HIDE DEF s
<1>6. /\ stack' = [u \in Task |-> stack'[u]] /\ \A u \in Task : Stacked(u)'
      /\ stack'[t] = s /\ Elsewhere(t)
  BY <1>2, <1>5, StackChange DEF Elsewhere
<1>7. Top(t)' = f /\ Below(t)' = <<h, g>> /\ stack'[t] # <<>>
  BY <1>4, <1>6 DEF Top, Below
<1>8. f.at # "created"
  BY Labels
<1>9. \A u \in Task : At(u, "created")' /\ ret'[u].ok => ret'[u].id \in SessionId
  BY <1>2, <1>6, <1>7, <1>8 DEF HandlerControl, At, Top, Elsewhere
<1> QED
  BY <1>2, <1>6, <1>7, <1>9 DEF HandlerControl

\* What is left on the stack when a method or the cleanup returns.
LEMMA LeftByReturn ==
    ASSUME NEW t, NEW f, NEW rest, Upon(t, f, rest), f \notin RequestFrame
    PROVE  /\ rest = <<>> \/ \E g, r : Upon(t, g, r) /\ rest = <<g>> \o r
           /\ rest # <<>> /\ Head(rest).at = "created" => f \in CreateFrames
<1>1. CASE rest = <<>>
  BY <1>1
<1>2. ASSUME t \in Client, NEW g \in RequestFrame, Serves(f, g), rest = <<g>>
      PROVE  /\ \E k, r : Upon(t, k, r) /\ rest = <<k>> \o r
             /\ Head(rest).at = "created" => f \in CreateFrames
  <2>1. Upon(t, g, <<>>)
    BY <1>2 DEF Upon
  <2>2. <<g>> \o <<>> = <<g>>
    OBVIOUS
  <2>3. Head(rest) = g
    BY <1>2
  <2> QED
    BY <1>2, <2>1, <2>2, <2>3 DEF Serves
<1>3. ASSUME t \in Client, NEW h \in WaitingClose, NEW g \in RequestFrame,
             g.at = "connect_failed", rest = <<h, g>>
      PROVE  /\ \E k, r : Upon(t, k, r) /\ rest = <<k>> \o r
             /\ Head(rest).at # "created"
  <2>1. h \in CloseFrames /\ h.at = "close_pool_remove"
    BY DEF WaitingClose, CloseFrames
  <2>2. Upon(t, h, <<g>>)
    BY <1>3, <2>1 DEF Upon, Serves
  <2>3. <<h>> \o <<g>> = <<h, g>>
    BY TwoFrames
  <2>4. Head(rest) = h
    BY <1>3
  <2> QED
    BY <1>3, <2>1, <2>2, <2>3, <2>4
<1> QED
  BY <1>1, <1>2, <1>3 DEF Upon

\* A method or the cleanup returns.
LEMMA GivesBack ==
    ASSUME HandlerControl, NEW t \in Task, stack[t] # <<>>, Top(t) \notin RequestFrame,
           NEW ok \in BOOLEAN, NEW i \in SessionId \cup {None}, Return(t, ok, i),
           ok /\ Top(t) \in CreateFrames => i \in SessionId
    PROVE  HandlerControl' /\ Elsewhere(t) /\ stack'[t] = Below(t)
<1> DEFINE s == Below(t)
<1>1. stack' = [stack EXCEPT ![t] = s] /\ ret' = [ret EXCEPT ![t] = [ok |-> ok, id |-> i]]
  BY DEF Return, Below
<1>2. Upon(t, Top(t), Below(t))
  BY DEF HandlerControl, Stacked
<1>3. /\ s = <<>> \/ \E g, r : Upon(t, g, r) /\ s = <<g>> \o r
      /\ s # <<>> /\ Head(s).at = "created" => Top(t) \in CreateFrames
  BY <1>2, LeftByReturn
<1> HIDE DEF s
<1>4. /\ stack' = [u \in Task |-> stack'[u]] /\ \A u \in Task : Stacked(u)'
      /\ stack'[t] = s /\ Elsewhere(t)
  BY <1>1, <1>3, StackChange DEF Elsewhere
<1>5. [ok |-> ok, id |-> i] \in [ok : BOOLEAN, id : SessionId \cup {None}]
  OBVIOUS
<1>6. /\ ret' \in [Task -> [ok : BOOLEAN, id : SessionId \cup {None}]]
      /\ ret'[t].ok = ok /\ ret'[t].id = i /\ \A u \in Task : u # t => ret'[u] = ret[u]
  BY <1>1, <1>5 DEF HandlerControl
<1>7. ASSUME NEW u \in Task, At(u, "created")', ret'[u].ok PROVE ret'[u].id \in SessionId
  BY <1>3, <1>4, <1>6, <1>7 DEF HandlerControl, At, Top, Elsewhere
<1> QED
  BY <1>4, <1>6, <1>7 DEF HandlerControl, s

\* A request begins, or the cleanup.
LEMMA Begins ==
    ASSUME HandlerControl, NEW t \in Task, NEW f, f.at # "created", Enters(t, f),
           f \in CleanupFrames \/ (t \in Client /\ f \in RequestFrame)
    PROVE  /\ HandlerControl' /\ Elsewhere(t)
           /\ stack'[t] # <<>> /\ Top(t)' = f /\ Below(t)' = <<>>
<1> DEFINE s == <<f>> \o <<>>
<1>1. s = <<f>>
  OBVIOUS
<1>2. stack' = [stack EXCEPT ![t] = s] /\ ret' = ret
  BY <1>1 DEF Enters
<1>3. Upon(t, f, <<>>)
  BY DEF Upon
<1>4. s # <<>> /\ Head(s) = f /\ Tail(s) = <<>>
  BY <1>3, OnTop
<1>5. \E k, rest : Upon(t, k, rest) /\ s = <<k>> \o rest
  BY <1>3
<1> HIDE DEF s
<1>6. /\ stack' = [u \in Task |-> stack'[u]] /\ \A u \in Task : Stacked(u)'
      /\ stack'[t] = s /\ Elsewhere(t)
  BY <1>2, <1>5, StackChange DEF Elsewhere
<1>7. Top(t)' = f /\ Below(t)' = <<>> /\ stack'[t] # <<>>
  BY <1>4, <1>6 DEF Top, Below
<1>8. \A u \in Task : At(u, "created")' /\ ret'[u].ok => ret'[u].id \in SessionId
  BY <1>2, <1>6, <1>7 DEF HandlerControl, At, Top, Elsewhere
<1> QED
  BY <1>2, <1>6, <1>7, <1>8 DEF HandlerControl

\* A handler responds.
LEMMA Responds ==
    ASSUME HandlerControl, NEW t \in Task, NEW kind, NEW i, NEW reused, Respond(t, kind, i, reused)
    PROVE  HandlerControl' /\ Elsewhere(t) /\ stack'[t] = <<>>
<1>1. stack' = [stack EXCEPT ![t] = <<>>] /\ ret' = ret
  BY DEF Respond
<1>2. /\ stack' = [u \in Task |-> stack'[u]] /\ \A u \in Task : Stacked(u)'
      /\ stack'[t] = <<>> /\ Elsewhere(t)
  BY <1>1, StackChange DEF Elsewhere
<1>3. \A u \in Task : At(u, "created")' /\ ret'[u].ok => ret'[u].id \in SessionId
  BY <1>1, <1>2 DEF HandlerControl, At, Top, Elsewhere
<1> QED
  BY <1>1, <1>2, <1>3 DEF HandlerControl

-----------------------------------------------------------------------------
(* The methods of the manager under a handler.                              *)

UpdateLabels == {"status_get", "status_update", "status_pool_get", "status_pool_check",
                 "status_pool_insert", "status_pool_remove", "status_record"}

\* A task on whose stack something lies.
LEMMA Placed ==
    ASSUME HandlerControl, NEW t \in Task, NEW label, At(t, label)
    PROVE  stack[t] # <<>> /\ Top(t).at = label /\ Upon(t, Top(t), Below(t))
BY DEF HandlerControl, Stacked, At

\* Where update_session_status runs, another frame of the same call may be.
LEMMA UpdatePlace ==
    ASSUME HandlerControl, NEW t \in Task, NEW label \in UpdateLabels, At(t, label)
    PROVE  /\ t \in Client /\ stack[t] # <<>> /\ Top(t).at = label
           /\ Top(t) \in UpdateStatusFrames /\ Top(t) \in Frame /\ Top(t) \notin RequestFrame
           /\ Top(t) \notin CreateFrames
           /\ \A f : Updates(f, Top(t).id, Top(t).status) =>
                 Upon(t, f, Below(t)) /\ f.at # "created"
<1> DEFINE f == Top(t)
           rest == Below(t)
<1>1. stack[t] # <<>> /\ f.at = label /\ Upon(t, f, rest)
  BY Placed
<1> HIDE DEF f, rest
<1>2. /\ t \in Client
      /\ \/ \E g \in RequestFrame : Serves(f, g) /\ rest = <<g>>
         \/ /\ Updates(f, f.id, "Closing")
            /\ \E h \in WaitingClose, g \in RequestFrame :
                  g.at = "connect_failed" /\ rest = <<h, g>>
  BY <1>1, TopTells DEF UpdateLabels, MethodLabels
<1>3. f \notin UseFrames /\ f \notin CreateFrames /\ f \notin CloseFrames /\ f \notin RequestFrame
  BY <1>1, Labels DEF UpdateLabels, CreateLabels, ConnectLabels, SessionLabels
<1>4. ASSUME NEW k, Updates(k, f.id, f.status), NEW g \in RequestFrame, Serves(f, g)
      PROVE  f \in UpdateStatusFrames /\ Serves(k, g)
  BY <1>3, <1>4 DEF Serves, Updates
<1>5. f \in UpdateStatusFrames
  <2>1. ASSUME NEW g \in RequestFrame, Serves(f, g) PROVE f \in UpdateStatusFrames
    BY <1>3, <2>1 DEF Serves, Updates
  <2> QED
    BY <1>2, <2>1 DEF Updates
<1>6. ASSUME NEW k, Updates(k, f.id, f.status) PROVE Upon(t, k, rest) /\ k.at # "created"
  <2>1. k.at # "created"
    BY <1>6, Labels
  <2>2. CASE \E g \in RequestFrame : Serves(f, g) /\ rest = <<g>>
    <3>1. PICK g \in RequestFrame : Serves(f, g) /\ rest = <<g>>
      BY <2>2
    <3>2. Serves(k, g)
      BY <1>4, <1>6, <3>1
    <3>3. Upon(t, k, rest)
      BY <1>2, <3>1, <3>2 DEF Upon
    <3> QED
      BY <2>1, <3>3
  <2>3. CASE /\ Updates(f, f.id, "Closing")
             /\ \E h \in WaitingClose, g \in RequestFrame :
                   g.at = "connect_failed" /\ rest = <<h, g>>
    <3>1. Updates(k, k.id, "Closing")
      BY <1>6, <2>3 DEF Updates
    <3>2. Upon(t, k, rest)
      BY <1>2, <2>3, <3>1 DEF Upon
    <3> QED
      BY <2>1, <3>2
  <2> QED
    BY <1>2, <2>1, <2>2, <2>3
<1> QED
  BY <1>1, <1>2, <1>3, <1>5, <1>6 DEF f, rest, Frame

\* What a step of update_session_status does: it goes on with the same call, sets
\* the status, or returns; without having set it only if the session is gone.
GoesOnWith(t) ==
    stack'[t] # <<>> /\ Updates(Top(t)', Top(t).id, Top(t).status) /\ Below(t)' = Below(t)

Early == {"status_get", "status_update"}

UpdateOutcome(t) ==
    \/ /\ At(t, "status_get") /\ GoesOnWith(t) /\ Top(t)'.at = "status_update"
       /\ UNCHANGED sessions
    \/ /\ At(t, "status_update") /\ GoesOnWith(t) /\ Top(t)'.at \notin Early
       /\ SetSessionStatus(Top(t).id, Top(t).status)
    \/ /\ Top(t).at \notin Early /\ GoesOnWith(t) /\ Top(t)'.at \notin Early
       /\ UNCHANGED sessions
    \/ /\ Top(t).at \in Early => Top(t).id \notin Registered
       /\ stack'[t] = Below(t) /\ UNCHANGED sessions

\* A step of update_session_status keeps the stacks in order, changes only its own
\* task's, and acts on the map as the registry's update_session does.
LEMMA HandlerUpdateStatus ==
    ASSUME HandlerTypeOK, NEW t \in Task, UpdateSessionStatus(t)
    PROVE  /\ HandlerControl' /\ Elsewhere(t) /\ [TableNext]_tableVars
           /\ t \in Client /\ stack[t] # <<>> /\ Top(t) \in UpdateStatusFrames
           /\ UpdateOutcome(t)
<1> USE DEF HandlerTypeOK
<1> DEFINE f == Top(t)
<1>1. PICK label \in UpdateLabels : At(t, label)
  BY DEF UpdateSessionStatus, StatusGet, StatusUpdate, StatusPoolGet, StatusPoolCheck,
     StatusPoolInsert, StatusPoolRemove, StatusRecord, UpdateLabels
<1>2. /\ t \in Client /\ stack[t] # <<>> /\ f.at = label
      /\ f \in UpdateStatusFrames /\ f \in Frame /\ f \notin RequestFrame /\ f \notin CreateFrames
  BY <1>1, UpdatePlace
<1>3. ASSUME NEW g, Updates(g, f.id, f.status), Goto(t, g)
      PROVE  HandlerControl' /\ Elsewhere(t) /\ GoesOnWith(t) /\ Top(t)' = g
  <2>1. Upon(t, g, Below(t)) /\ g.at # "created"
    BY <1>1, <1>3, UpdatePlace
  <2>2. /\ HandlerControl' /\ Elsewhere(t)
        /\ stack'[t] # <<>> /\ Top(t)' = g /\ Below(t)' = Below(t)
    BY <1>2, <1>3, <2>1, GoesOn
  <2> QED
    BY <1>3, <2>2 DEF GoesOnWith
<1>4. ASSUME NEW ok \in BOOLEAN, NEW i \in SessionId \cup {None}, Return(t, ok, i)
      PROVE  HandlerControl' /\ Elsewhere(t) /\ stack'[t] = Below(t)
  BY <1>2, <1>4, GivesBack
<1>5. f.id \in SessionId /\ f.status \in SessionStatus
  BY <1>2 DEF UpdateStatusFrames, StatusGetFrame, StatusFrame, StatusCheckFrame
<1>6. ASSUME f \in StatusFrame,
             NEW l \in {"status_pool_get", "status_pool_insert", "status_pool_remove",
                        "status_record"}
      PROVE  Updates([f EXCEPT !.at = l], f.id, f.status) /\ [f EXCEPT !.at = l].at = l
  BY <1>6 DEF UpdateStatusFrames, StatusFrame, Updates
<1> HIDE DEF f
<1>7. CASE StatusGet(t)
  <2>1. f.at = "status_get" /\ At(t, "status_get")
    BY <1>7 DEF StatusGet, At, f
  <2>2. UNCHANGED <<sessions, issued, registering, clock>>
    BY <1>7 DEF StatusGet, tableState
  <2>3. CASE f.id \in Registered
    <3> DEFINE g == [at |-> "status_update", id |-> f.id, status |-> f.status,
                     old |-> sessions[f.id].status]
    <3>1. sessions[f.id].status \in SessionStatus
      BY <2>3 DEF Registered, TableTypeOK, SessionMetadata
    <3>2. Updates(g, f.id, f.status) /\ g.at = "status_update"
      BY <1>5, <3>1 DEF UpdateStatusFrames, StatusFrame, Updates
    <3>3. Goto(t, g)
      BY <1>7, <2>3 DEF StatusGet, f
    <3> HIDE DEF g
    <3> QED
      BY <1>2, <1>3, <2>1, <2>2, <3>2, <3>3 DEF UpdateOutcome, tableVars, f
  <2>4. CASE f.id \notin Registered
    <3>1. Return(t, FALSE, f.id)
      BY <1>7, <2>4 DEF StatusGet, f
    <3> QED
      BY <1>2, <1>4, <1>5, <2>2, <2>4, <3>1 DEF UpdateOutcome, tableVars, f
  <2> QED
    BY <2>3, <2>4
<1>8. CASE StatusUpdate(t)
  <2>1. f.at = "status_update" /\ At(t, "status_update")
    BY <1>8 DEF StatusUpdate, At, f
  <2>2. f \in StatusFrame
    BY <1>2, <2>1, FrameLocals
  <2>3. CASE SetSessionStatus(f.id, f.status) /\ ~(f.id \notin Registered)
    <3>1. PICK l \in {"status_pool_get", "status_pool_remove", "status_record"} :
             Goto(t, [f EXCEPT !.at = l])
      BY <1>8, <2>3 DEF StatusUpdate, f
    <3>2. TableNext
      BY <1>5, <2>3 DEF TableNext
    <3> DEFINE g == [f EXCEPT !.at = l]
    <3>3. Updates(g, f.id, f.status) /\ g.at = l
      BY <1>6, <2>2
    <3> HIDE DEF g
    <3>4. Goto(t, g)
      BY <3>1 DEF g
    <3> QED
      BY <1>2, <1>3, <2>1, <2>3, <3>2, <3>3, <3>4 DEF UpdateOutcome, Early, f
  <2>4. CASE f.id \notin Registered
    <3>1. Return(t, FALSE, f.id) /\ UNCHANGED <<sessions, issued, registering, clock>>
      BY <1>8, <2>4 DEF StatusUpdate, SetSessionStatus, tableState, f
    <3> QED
      BY <1>2, <1>4, <1>5, <2>4, <3>1 DEF UpdateOutcome, tableVars, f
  <2> QED
    BY <1>8, <2>3, <2>4 DEF StatusUpdate, SetSessionStatus, f
<1>9. ASSUME f.at \notin Early, UNCHANGED <<sessions, issued, registering, clock>>,
             NEW g, Updates(g, f.id, f.status), g.at \notin Early, Goto(t, g)
      PROVE  /\ HandlerControl' /\ Elsewhere(t) /\ [TableNext]_tableVars
             /\ UpdateOutcome(t)
  BY <1>2, <1>3, <1>9 DEF UpdateOutcome, tableVars, f
<1>10. CASE StatusPoolGet(t)
  <2>1. f.at = "status_pool_get"
    BY <1>10 DEF StatusPoolGet, At, f
  <2>2. f \in StatusFrame
    BY <1>2, <2>1, FrameLocals
  <2>3. UNCHANGED <<sessions, issued, registering, clock>>
    BY <1>10 DEF StatusPoolGet, tableState
  <2>4. CASE f.id \in Registered
    <3> DEFINE g == [at |-> "status_pool_check", id |-> f.id, status |-> f.status, old |-> f.old,
                     copy |-> sessions[f.id]]
    <3>1. sessions[f.id] \in SessionMetadata
      BY <2>4 DEF Registered, TableTypeOK
    <3>2. Updates(g, f.id, f.status) /\ g.at = "status_pool_check"
      BY <2>2, <3>1 DEF UpdateStatusFrames, StatusFrame, StatusCheckFrame, Updates
    <3>3. Goto(t, g)
      BY <1>10, <2>4 DEF StatusPoolGet, f
    <3> HIDE DEF g
    <3> QED
      BY <1>2, <1>9, <2>1, <2>3, <3>2, <3>3 DEF Early, f
  <2>5. CASE f.id \notin Registered
    <3> DEFINE g == [f EXCEPT !.at = "status_record"]
    <3>1. Updates(g, f.id, f.status) /\ g.at = "status_record"
      BY <1>6, <2>2
    <3>2. Goto(t, g)
      BY <1>10, <2>5 DEF StatusPoolGet, f
    <3> HIDE DEF g
    <3> QED
      BY <1>2, <1>9, <2>1, <2>3, <3>1, <3>2 DEF Early, f
  <2> QED
    BY <2>4, <2>5
<1>11. CASE StatusPoolCheck(t)
  <2> DEFINE done == [at |-> "status_record", id |-> f.id, status |-> f.status, old |-> f.old]
             insert == [done EXCEPT !.at = "status_pool_insert"]
  <2>1. f.at = "status_pool_check"
    BY <1>11 DEF StatusPoolCheck, At, f
  <2>2. f \in StatusCheckFrame
    BY <1>2, <2>1, FrameLocals
  <2>3. UNCHANGED <<sessions, issued, registering, clock>>
    BY <1>11 DEF StatusPoolCheck, AddCheck, tableState
  <2>4. /\ Updates(done, f.id, f.status) /\ Updates(insert, f.id, f.status)
        /\ done.at = "status_record" /\ insert.at = "status_pool_insert"
    BY <2>2 DEF UpdateStatusFrames, StatusCheckFrame, StatusFrame, Updates
  <2>5. Goto(t, done) \/ Goto(t, insert)
    BY <1>11 DEF StatusPoolCheck, f
  <2> HIDE DEF done, insert
  <2> QED
    BY <1>2, <1>9, <2>1, <2>3, <2>4, <2>5 DEF Early, f
<1>12. CASE StatusPoolInsert(t) \/ StatusPoolRemove(t)
  <2> DEFINE g == [f EXCEPT !.at = "status_record"]
  <2>1. f.at \in {"status_pool_insert", "status_pool_remove"}
    BY <1>12 DEF StatusPoolInsert, StatusPoolRemove, At, f
  <2>2. f \in StatusFrame
    BY <1>2, <2>1, FrameLocals
  <2>3. UNCHANGED <<sessions, issued, registering, clock>>
    BY <1>12 DEF StatusPoolInsert, StatusPoolRemove, AddInsert, RemoveSession, tableState
  <2>4. Updates(g, f.id, f.status) /\ g.at = "status_record"
    BY <1>6, <2>2
  <2>5. Goto(t, g)
    BY <1>12 DEF StatusPoolInsert, StatusPoolRemove, f
  <2> HIDE DEF g
  <2> QED
    BY <1>2, <1>9, <2>1, <2>3, <2>4, <2>5 DEF Early, f
<1>13. CASE StatusRecord(t)
  <2>1. f.at = "status_record"
    BY <1>13 DEF StatusRecord, At, f
  <2>2. Return(t, TRUE, f.id) /\ UNCHANGED <<sessions, issued, registering, clock>>
    BY <1>13 DEF StatusRecord, tableState, f
  <2> QED
    BY <1>2, <1>4, <1>5, <2>1, <2>2 DEF UpdateOutcome, Early, tableVars, f
<1> QED
  BY <1>7, <1>8, <1>10, <1>11, <1>12, <1>13 DEF UpdateSessionStatus

\* Where the other methods run: on the handler that called them.
UseHandlers == {"reusing", "candidate_used", "execute"}

\* A task in use_session, create_session or close_session is a client's, and under the
\* method lies the handler that called it.
LEMMA MethodPlace ==
    ASSUME HandlerControl, NEW t \in Task, NEW label \in MethodLabels \ UpdateLabels, At(t, label)
    PROVE  /\ t \in Client /\ stack[t] # <<>> /\ Top(t).at = label /\ Top(t) \notin RequestFrame
           /\ \E g \in RequestFrame :
                 /\ Serves(Top(t), g) /\ Below(t) = <<g>>
                 /\ label \in {"use_mark", "use_get"} =>
                       g.at \in UseHandlers /\ Top(t) \in UseFrames
                 /\ label \in {"create_check", "create_insert", "create_record"} =>
                       g.at = "created" /\ Top(t) \in CreateFrames
                 /\ label \in {"close", "close_pool_remove", "close_unregister", "close_record"} =>
                       g.at = "connect_failed" /\ Top(t) \in CloseFrames
<1> DEFINE f == Top(t)
           rest == Below(t)
<1>1. stack[t] # <<>> /\ f.at = label /\ Upon(t, f, rest)
  BY Placed
<1> HIDE DEF f, rest
<1>2. ~ \E i, status : Updates(f, i, status)
  BY <1>1, Labels DEF UpdateLabels
<1>3. t \in Client /\ \E g \in RequestFrame : Serves(f, g) /\ rest = <<g>>
  BY <1>1, <1>2, TopTells
<1>4. PICK g \in RequestFrame : Serves(f, g) /\ rest = <<g>>
  BY <1>3
<1>5. \/ g.at \in UseHandlers /\ f \in UseFrames
      \/ g.at = "created" /\ f \in CreateFrames
      \/ g.at = "connect_failed" /\ f \in CloseFrames
  BY <1>2, <1>4 DEF Serves, UseHandlers
<1>6. f \notin RequestFrame
  BY <1>1, Labels DEF MethodLabels, CreateLabels, ConnectLabels, SessionLabels
<1>7. /\ label \in {"use_mark", "use_get"} => g.at \in UseHandlers /\ f \in UseFrames
      /\ label \in {"create_check", "create_insert", "create_record"} =>
            g.at = "created" /\ f \in CreateFrames
      /\ label \in {"close", "close_pool_remove", "close_unregister", "close_record"} =>
            g.at = "connect_failed" /\ f \in CloseFrames
  BY <1>1, <1>5, Labels
<1> QED
  BY <1>1, <1>3, <1>4, <1>6, <1>7 DEF f, rest

\* What a step of use_session does.
UseOutcome(t) ==
    \/ /\ MarkSessionUsed(Top(t).id)
       /\ stack'[t] # <<>> /\ Top(t)'.at = "use_get" /\ Top(t)'.id = Top(t).id
       /\ Below(t)' = Below(t)
    \/ /\ At(t, "use_get") /\ UNCHANGED sessions
       /\ stack'[t] # <<>> /\ Top(t)' = UpdateStatusFrame(Top(t).id, "Active")
       /\ Below(t)' = Below(t)
    \/ UNCHANGED sessions /\ stack'[t] = Below(t)

\* The same for a step of use_session.
LEMMA HandlerUse ==
    ASSUME HandlerTypeOK, NEW t \in Task, UseSession(t)
    PROVE  /\ HandlerControl' /\ Elsewhere(t) /\ [TableNext]_tableVars
           /\ t \in Client /\ stack[t] # <<>> /\ Top(t) \in UseFrames
           /\ UseOutcome(t)
<1> USE DEF HandlerTypeOK
<1> DEFINE f == Top(t)
<1>1. PICK label \in {"use_mark", "use_get"} : At(t, label)
  BY DEF UseSession, UseMark, UseGet
<1>2. PICK g \in RequestFrame :
         /\ t \in Client /\ stack[t] # <<>> /\ f.at = label /\ f \notin RequestFrame
         /\ Below(t) = <<g>> /\ g.at \in UseHandlers /\ f \in UseFrames
  <2>1. label \in MethodLabels \ UpdateLabels
    BY DEF MethodLabels, UpdateLabels
  <2> QED
    BY <1>1, <2>1, MethodPlace
<1> HIDE DEF f
<1>3. f.id \in SessionId /\ f \notin CreateFrames
  BY <1>2, Labels DEF UseFrames
<1>4. ASSUME NEW k, k \in UseFrames \/ Updates(k, k.id, "Active"), Goto(t, k)
      PROVE  /\ HandlerControl' /\ Elsewhere(t)
             /\ stack'[t] # <<>> /\ Top(t)' = k /\ Below(t)' = Below(t)
  <2>1. Serves(k, g)
    BY <1>2, <1>4 DEF Serves, UseHandlers
  <2>2. Upon(t, k, Below(t))
    BY <1>2, <2>1 DEF Upon
  <2>3. k.at # "created"
    BY <1>4, Labels
  <2> QED
    BY <1>2, <1>4, <2>2, <2>3, GoesOn
<1>5. ASSUME NEW ok \in BOOLEAN, Return(t, ok, f.id)
      PROVE  HandlerControl' /\ Elsewhere(t) /\ stack'[t] = Below(t)
  BY <1>2, <1>3, <1>5, GivesBack DEF f
<1>6. CASE UseMark(t)
  <2>1. CASE MarkSessionUsed(f.id) /\ Goto(t, [at |-> "use_get", id |-> f.id])
    <3> DEFINE k == [at |-> "use_get", id |-> f.id]
    <3>1. k \in UseFrames /\ k.at = "use_get" /\ k.id = f.id
      BY <1>3 DEF UseFrames
    <3> HIDE DEF k
    <3>2. Goto(t, k)
      BY <2>1 DEF k
    <3>3. TableNext
      BY <1>3, <2>1 DEF TableNext
    <3> QED
      BY <1>2, <1>4, <2>1, <3>1, <3>2, <3>3 DEF UseOutcome, f
  <2>2. CASE Return(t, FALSE, f.id) /\ UNCHANGED <<tableState, clock>>
    BY <1>2, <1>5, <2>2 DEF UseOutcome, tableState, tableVars, f
  <2> QED
    BY <1>6, <2>1, <2>2 DEF UseMark, f
<1>7. CASE UseGet(t)
  <2>1. At(t, "use_get") /\ UNCHANGED <<sessions, issued, registering, clock>>
    BY <1>7 DEF UseGet, tableState
  <2>2. CASE Goto(t, UpdateStatusFrame(f.id, "Active"))
    <3> DEFINE k == UpdateStatusFrame(f.id, "Active")
    <3>1. Updates(k, k.id, "Active")
      BY <1>3 DEF UpdateStatusFrame, Updates, UpdateStatusFrames, StatusGetFrame, SessionStatus
    <3> HIDE DEF k
    <3>2. /\ HandlerControl' /\ Elsewhere(t)
          /\ stack'[t] # <<>> /\ Top(t)' = k /\ Below(t)' = Below(t)
      BY <1>4, <2>2, <3>1 DEF k
    <3> QED
      BY <1>2, <2>1, <3>2 DEF UseOutcome, tableVars, f, k
  <2>3. CASE Return(t, TRUE, f.id)
    BY <1>2, <1>5, <2>1, <2>3 DEF UseOutcome, tableVars, f
  <2> QED
    BY <1>7, <2>2, <2>3 DEF UseGet, f
<1> QED
  BY <1>6, <1>7 DEF UseSession

\* What a step of close_session does.
CloseOutcome(t) ==
    /\ UNCHANGED sessions \/ \E i \in SessionId : DropSession(i)
    /\ \/ stack'[t] = Below(t)
       \/ /\ stack'[t] # <<>>
          /\ Top(t)' \in CloseFrames \/ Updates(Top(t)', Top(t)'.id, "Closing")
          /\ \/ Below(t)' = Below(t)
             \/ \E h \in WaitingClose, g \in RequestFrame : Below(t)' = <<h, g>>

\* The same for a step of close_session.
LEMMA HandlerClose ==
    ASSUME HandlerTypeOK, NEW t \in Task, CloseSession(t)
    PROVE  /\ HandlerControl' /\ Elsewhere(t) /\ [TableNext]_tableVars
           /\ t \in Client /\ stack[t] # <<>> /\ Top(t) \in CloseFrames
           /\ CloseOutcome(t)
<1> USE DEF HandlerTypeOK
<1> DEFINE f == Top(t)
<1>1. PICK label \in {"close", "close_pool_remove", "close_unregister", "close_record"} : At(t, label)
  BY DEF CloseSession, CloseStart, ClosePoolRemove, CloseUnregister, CloseRecord
<1>2. PICK g \in RequestFrame :
         /\ t \in Client /\ stack[t] # <<>> /\ f.at = label /\ f \notin RequestFrame
         /\ Below(t) = <<g>> /\ g.at = "connect_failed" /\ f \in CloseFrames
  <2>1. label \in MethodLabels \ UpdateLabels
    BY DEF MethodLabels, UpdateLabels
  <2> QED
    BY <1>1, <2>1, MethodPlace
<1> HIDE DEF f
<1>3. f \notin CreateFrames
  BY <1>2, Labels
<1>4. ASSUME NEW k \in CloseFrames, Goto(t, k)
      PROVE  /\ HandlerControl' /\ Elsewhere(t)
             /\ stack'[t] # <<>> /\ Top(t)' = k /\ Below(t)' = Below(t)
  <2>1. Serves(k, g)
    BY <1>2 DEF Serves
  <2>2. Upon(t, k, Below(t))
    BY <1>2, <2>1 DEF Upon
  <2>3. k.at # "created"
    BY Labels
  <2> QED
    BY <1>2, <1>4, <2>2, <2>3, GoesOn
<1>5. ASSUME NEW ok \in BOOLEAN, NEW i \in SessionId, Return(t, ok, i)
      PROVE  HandlerControl' /\ Elsewhere(t) /\ stack'[t] = Below(t)
  BY <1>2, <1>3, <1>5, GivesBack DEF f
<1>6. f.at # "close_record" => f.id \in SessionId
  BY <1>2 DEF CloseFrames, CloseRecordFrame
<1>7. CASE CloseStart(t)
  <2> DEFINE k == UpdateStatusFrame(f.id, "Closing")
             h == [at |-> "close_pool_remove", id |-> f.id]
  <2>1. f.at = "close"
    BY <1>7 DEF CloseStart, At, f
  <2>2. Updates(k, k.id, "Closing") /\ h \in WaitingClose
    BY <1>6, <2>1
    DEF UpdateStatusFrame, Updates, UpdateStatusFrames, StatusGetFrame, SessionStatus, WaitingClose
  <2>3. CallThen(t, k, h) /\ UNCHANGED <<sessions, issued, registering, clock>>
    BY <1>7 DEF CloseStart, tableState, f
  <2> HIDE DEF k, h
  <2>4. /\ HandlerControl' /\ Elsewhere(t)
        /\ stack'[t] # <<>> /\ Top(t)' = k /\ Below(t)' = <<h, g>>
    BY <1>2, <2>2, <2>3, CloseCalls
  <2> QED
    BY <1>2, <2>2, <2>3, <2>4 DEF CloseOutcome, tableVars, f
<1>8. CASE ClosePoolRemove(t)
  <2> DEFINE k == [at |-> "close_unregister", id |-> f.id]
  <2>1. f.id \in SessionId
    BY <1>6, <1>8 DEF ClosePoolRemove, At, f
  <2>2. k \in CloseFrames
    BY <2>1 DEF CloseFrames
  <2>3. /\ Goto(t, k) \/ Return(t, FALSE, f.id)
        /\ UNCHANGED <<sessions, issued, registering, clock>>
    BY <1>8 DEF ClosePoolRemove, RemoveSession, tableState, f
  <2> HIDE DEF k
  <2> QED
    BY <1>2, <1>4, <1>5, <2>1, <2>2, <2>3 DEF CloseOutcome, tableVars, f
<1>9. CASE CloseUnregister(t)
  <2> DEFINE k == [at |-> "close_record", removed |-> sessions[f.id]]
  <2>1. f.id \in SessionId
    BY <1>6, <1>9 DEF CloseUnregister, At, f
  <2>2. CASE DropSession(f.id) /\ Goto(t, k)
    <3>1. k \in CloseFrames
      BY <2>2 DEF DropSession, Registered, TableTypeOK, CloseFrames, CloseRecordFrame
    <3>2. TableNext
      BY <2>1, <2>2 DEF TableNext
    <3> HIDE DEF k
    <3> QED
      BY <1>2, <1>4, <2>1, <2>2, <3>1, <3>2 DEF CloseOutcome, f
  <2>3. CASE Return(t, TRUE, f.id) /\ UNCHANGED <<tableState, clock>>
    BY <1>2, <1>5, <2>1, <2>3 DEF CloseOutcome, tableState, tableVars, f
  <2> QED
    BY <1>9, <2>2, <2>3 DEF CloseUnregister, f
<1>10. CASE CloseRecord(t)
  <2>1. f.at = "close_record"
    BY <1>10 DEF CloseRecord, At, f
  <2>2. f.removed.id \in SessionId
    BY <1>2, <2>1 DEF CloseFrames, CloseRecordFrame, SessionMetadata
  <2>3. Return(t, TRUE, f.removed.id) /\ UNCHANGED <<sessions, issued, registering, clock>>
    BY <1>10 DEF CloseRecord, tableState, f
  <2> QED
    BY <1>2, <1>5, <2>2, <2>3 DEF CloseOutcome, tableVars, f
<1> QED
  BY <1>7, <1>8, <1>9, <1>10 DEF CloseSession

\* What a step of create_session does.
CreateOutcome(t) ==
    /\ UNCHANGED sessions \/ InsertSession(t)
    /\ \/ stack'[t] = Below(t)
       \/ stack'[t] # <<>> /\ Top(t)' \in CreateFrames /\ Below(t)' = Below(t)

\* The same for a step of create_session.
LEMMA HandlerCreate ==
    ASSUME HandlerTypeOK, NEW t \in Task, CreateSession(t)
    PROVE  /\ HandlerControl' /\ Elsewhere(t) /\ [TableNext]_tableVars
           /\ t \in Client /\ stack[t] # <<>> /\ Top(t) \in CreateFrames
           /\ CreateOutcome(t)
<1> USE DEF HandlerTypeOK
<1> DEFINE f == Top(t)
<1>1. PICK label \in {"create_check", "create_insert", "create_record"} : At(t, label)
  BY DEF CreateSession, CreateCheck, CreateInsert, CreateRecord
<1>2. PICK g \in RequestFrame :
         /\ t \in Client /\ stack[t] # <<>> /\ f.at = label /\ f \notin RequestFrame
         /\ Below(t) = <<g>> /\ g.at = "created" /\ f \in CreateFrames
  <2>1. label \in MethodLabels \ UpdateLabels
    BY DEF MethodLabels, UpdateLabels
  <2> QED
    BY <1>1, <2>1, MethodPlace
<1> HIDE DEF f
<1>3. ASSUME NEW k \in CreateFrames, Goto(t, k)
      PROVE  /\ HandlerControl' /\ Elsewhere(t)
             /\ stack'[t] # <<>> /\ Top(t)' = k /\ Below(t)' = Below(t)
  <2>1. Serves(k, g)
    BY <1>2 DEF Serves
  <2>2. Upon(t, k, Below(t))
    BY <1>2, <2>1 DEF Upon
  <2>3. k.at # "created"
    BY Labels
  <2> QED
    BY <1>2, <1>3, <2>2, <2>3, GoesOn
<1>4. ASSUME NEW ok \in BOOLEAN, NEW i \in SessionId \cup {None}, Return(t, ok, i),
             ok => i \in SessionId
      PROVE  HandlerControl' /\ Elsewhere(t) /\ stack'[t] = Below(t)
  BY <1>2, <1>4, GivesBack DEF f
<1>5. CASE CreateCheck(t)
  <2>1. f.name \in Name /\ f.key \in ConnectionKey
    BY <1>2, <1>5 DEF CreateFrames, CreateCheck, At, f
  <2>2. ASSUME NEW i \in SessionId, AdmitSession(t, i, f.name, f.key),
               Goto(t, [at |-> "create_insert", id |-> i])
        PROVE  /\ HandlerControl' /\ Elsewhere(t) /\ [TableNext]_tableVars
               /\ CreateOutcome(t)
    <3> DEFINE k == [at |-> "create_insert", id |-> i]
    <3>1. k \in CreateFrames
      BY DEF CreateFrames
    <3>2. TableNext
      BY <2>1, <2>2 DEF TableNext
    <3> HIDE DEF k
    <3>3. Goto(t, k) /\ UNCHANGED sessions
      BY <2>2 DEF k, AdmitSession
    <3> QED
      BY <1>3, <3>1, <3>2, <3>3 DEF CreateOutcome
  <2>3. CASE Return(t, FALSE, None) /\ UNCHANGED <<tableState, clock>>
    BY <1>2, <1>4, <2>3 DEF CreateOutcome, tableState, tableVars, f
  <2> QED
    BY <1>2, <1>5, <2>2, <2>3 DEF CreateCheck, f
<1>6. CASE CreateInsert(t)
  <2> DEFINE k == [f EXCEPT !.at = "create_record"]
  <2>1. k \in CreateFrames
    BY <1>2, <1>6 DEF CreateFrames, CreateInsert, At, f
  <2>2. InsertSession(t) /\ TableNext
    BY <1>6 DEF CreateInsert, TableNext
  <2>3. Goto(t, k)
    BY <1>6 DEF CreateInsert, f
  <2> HIDE DEF k
  <2> QED
    BY <1>2, <1>3, <2>1, <2>2, <2>3 DEF CreateOutcome, f
<1>7. CASE CreateRecord(t)
  <2>1. f.id \in SessionId
    BY <1>2, <1>7 DEF CreateFrames, CreateRecord, At, f
  <2>2. Return(t, TRUE, f.id) /\ UNCHANGED <<sessions, issued, registering, clock>>
    BY <1>7 DEF CreateRecord, tableState, f
  <2> QED
    BY <1>2, <1>4, <2>1, <2>2 DEF CreateOutcome, tableVars, f
<1> QED
  BY <1>5, <1>6, <1>7 DEF CreateSession

\* What a step of the cleanup does.
CleanupOutcome(t) ==
    /\ UNCHANGED sessions \/ \E i \in SessionId : DropSession(i)
    /\ stack[t] = <<>> \/ Top(t) \in CleanupFrames
    /\ stack'[t] = <<>> \/ (Top(t)' \in CleanupFrames /\ Below(t)' = <<>>)

\* The same for a step of a cleanup task, which no handler waits for.
LEMMA HandlerCleanup ==
    ASSUME HandlerTypeOK, NEW t \in Task, Cleanup(t)
    PROVE  HandlerControl' /\ Elsewhere(t) /\ [TableNext]_tableVars /\ CleanupOutcome(t)
<1> USE DEF HandlerTypeOK
<1> DEFINE f == Top(t)
<1>1. CASE CleanupStart(t)
  <2> DEFINE k == [at |-> "cleanup", snapshot |-> {sessions[i] : i \in Registered}]
  <2>1. {sessions[i] : i \in Registered} \subseteq SessionMetadata
    BY DEF Registered, TableTypeOK
  <2>2. k \in CleanupFrames /\ k.at = "cleanup"
    BY <2>1 DEF CleanupFrames, CleanupFrame
  <2>3. Enters(t, k) /\ UNCHANGED <<sessions, issued, registering, clock>>
    BY <1>1 DEF CleanupStart, tableState
  <2> HIDE DEF k
  <2>4. HandlerControl' /\ Elsewhere(t) /\ Top(t)' = k /\ Below(t)' = <<>>
    BY <2>2, <2>3, Begins
  <2>5. stack[t] = <<>>
    BY <2>3 DEF Enters
  <2> QED
    BY <2>2, <2>3, <2>4, <2>5 DEF CleanupOutcome, tableVars
<1>2. ASSUME NEW label \in {"cleanup", "cleanup_pool_remove", "cleanup_record", "cleanup_sweep"},
             At(t, label)
      PROVE  stack[t] # <<>> /\ f.at = label /\ f \in CleanupFrames /\ Below(t) = <<>>
  BY <1>2, Placed, TopTells
<1>3. ASSUME NEW k \in CleanupFrames, Goto(t, k), stack[t] # <<>>, Below(t) = <<>>
      PROVE  HandlerControl' /\ Elsewhere(t) /\ Top(t)' = k /\ Below(t)' = <<>>
  <2>1. Upon(t, k, Below(t))
    BY <1>3 DEF Upon
  <2>2. k.at # "created"
    BY Labels
  <2> QED
    BY <1>3, <2>1, <2>2, GoesOn
<1> HIDE DEF f
<1>4. CASE CleanupExpire(t)
  <2>1. stack[t] # <<>> /\ f.at = "cleanup" /\ f \in CleanupFrames /\ Below(t) = <<>>
    BY <1>2, <1>4 DEF CleanupExpire
  <2>2. f \in CleanupFrame
    BY <2>1 DEF CleanupFrames, CleanupFrame, ExpireFrame, SweepFrame
  <2>3. PICK m \in f.snapshot :
           \/ /\ DropSession(m.id)
              /\ Goto(t, [at |-> "cleanup_pool_remove", snapshot |-> f.snapshot \ {m},
                          removed |-> sessions[m.id]])
           \/ /\ Goto(t, [f EXCEPT !.snapshot = f.snapshot \ {m}])
              /\ UNCHANGED <<tableState, clock>>
    BY <1>4 DEF CleanupExpire, f
  <2>4. CASE /\ DropSession(m.id)
             /\ Goto(t, [at |-> "cleanup_pool_remove", snapshot |-> f.snapshot \ {m},
                         removed |-> sessions[m.id]])
    <3> DEFINE k == [at |-> "cleanup_pool_remove", snapshot |-> f.snapshot \ {m},
                     removed |-> sessions[m.id]]
    <3>1. m.id \in SessionId /\ sessions[m.id] \in SessionMetadata
      BY <2>4 DEF DropSession, Registered, TableTypeOK
    <3>2. k \in CleanupFrames
      BY <2>2, <3>1 DEF CleanupFrames, CleanupFrame, ExpireFrame
    <3>3. TableNext
      BY <2>4, <3>1 DEF TableNext
    <3> HIDE DEF k
    <3>4. Goto(t, k)
      BY <2>4 DEF k
    <3> QED
      BY <1>3, <2>1, <2>4, <3>1, <3>2, <3>3, <3>4 DEF CleanupOutcome, f
  <2>5. CASE /\ Goto(t, [f EXCEPT !.snapshot = f.snapshot \ {m}])
             /\ UNCHANGED <<tableState, clock>>
    <3> DEFINE k == [f EXCEPT !.snapshot = f.snapshot \ {m}]
    <3>1. k \in CleanupFrames
      BY <2>2 DEF CleanupFrames, CleanupFrame
    <3> HIDE DEF k
    <3>2. Goto(t, k)
      BY <2>5 DEF k
    <3> QED
      BY <1>3, <2>1, <2>5, <3>1, <3>2 DEF CleanupOutcome, tableState, tableVars, f
  <2> QED
    BY <2>3, <2>4, <2>5
<1>5. CASE CleanupPoolRemove(t) \/ CleanupRecord(t) \/ CleanupSweep(t)
  <2>1. stack[t] # <<>> /\ f \in CleanupFrames /\ Below(t) = <<>>
    BY <1>2, <1>5 DEF CleanupPoolRemove, CleanupRecord, CleanupSweep
  <2>2. UNCHANGED <<sessions, issued, registering, clock>>
    BY <1>5 DEF CleanupPoolRemove, CleanupRecord, CleanupSweep, RemoveSession, CleanupScan,
       tableState
  <2>3. \E k \in CleanupFrames : Goto(t, k)
    <3>1. CASE CleanupPoolRemove(t)
      <4>1. f \in ExpireFrame
        BY <1>2, <3>1 DEF CleanupPoolRemove, CleanupFrames, CleanupFrame, ExpireFrame, SweepFrame
      <4>2. [f EXCEPT !.at = "cleanup_record"] \in CleanupFrames
        BY <4>1 DEF CleanupFrames, ExpireFrame
      <4> QED
        BY <3>1, <4>2 DEF CleanupPoolRemove, f
    <3>2. CASE CleanupRecord(t)
      <4>1. f \in ExpireFrame
        BY <1>2, <3>2 DEF CleanupRecord, CleanupFrames, CleanupFrame, ExpireFrame, SweepFrame
      <4>2. [at |-> "cleanup", snapshot |-> f.snapshot] \in CleanupFrames
        BY <4>1 DEF CleanupFrames, CleanupFrame, ExpireFrame
      <4> QED
        BY <3>2, <4>2 DEF CleanupRecord, f
    <3>3. CASE CleanupSweep(t)
      <4>1. [at |-> "cleanup_sweep"] \in CleanupFrames
        BY DEF CleanupFrames, SweepFrame
      <4> QED
        BY <3>3, <4>1 DEF CleanupSweep
    <3> QED
      BY <1>5, <3>1, <3>2, <3>3
  <2> QED
    BY <1>3, <2>1, <2>2, <2>3 DEF CleanupOutcome, tableVars, f
<1>6. CASE CleanupSweepStep(t)
  <2>1. stack[t] # <<>> /\ f \in CleanupFrames /\ Below(t) = <<>>
    BY <1>2, <1>6 DEF CleanupSweepStep
  <2>2. UNCHANGED <<sessions, issued, registering, clock>>
    BY <1>6 DEF CleanupSweepStep, CleanupRemove, tableState
  <2>3. CASE UNCHANGED <<stack, ret>>
    <3>1. HandlerControl' /\ Elsewhere(t) /\ Top(t)' = f /\ Below(t)' = <<>>
      BY <2>1, <2>3 DEF HandlerControl, Elsewhere, Stacked, Top, Below, At, f
    <3> QED
      BY <2>1, <2>2, <3>1 DEF CleanupOutcome, tableVars, f
  <2>4. CASE Return(t, TRUE, None)
    <3>1. f \notin RequestFrame /\ f \notin CreateFrames
      BY <2>1, Labels DEF CreateLabels, ConnectLabels, SessionLabels
    <3>2. HandlerControl' /\ Elsewhere(t) /\ stack'[t] = <<>>
      BY <2>1, <2>4, <3>1, GivesBack DEF f
    <3> QED
      BY <2>1, <2>2, <3>2 DEF CleanupOutcome, tableVars, f
  <2> QED
    BY <1>6, <2>3, <2>4 DEF CleanupSweepStep
<1> QED
  BY <1>1, <1>4, <1>5, <1>6 DEF Cleanup

-----------------------------------------------------------------------------
(* The steps of the handlers themselves.                                    *)

HandlerLabels == CreateLabels \cup ConnectLabels \cup SessionLabels

\* What a handler's own step does to the stack and to the map of clients: it
\* responds, goes on or calls a method.  Waiting at "connected", and only there,
\* the handler has called for the status Active, and the client is stored.  Only
\* a handler that then calls for the status Idle takes a client away.
HandlerOutcome(t) ==
    /\ UNCHANGED sessions
    /\ \/ stack'[t] = <<>>
       \/ /\ stack'[t] # <<>> /\ Below(t)' = <<>>
          /\ Top(t)' \in RequestFrame /\ Top(t)'.at # "connected"
       \/ /\ stack'[t] # <<>>
          /\ \E g \in RequestFrame :
                /\ Below(t)' = <<g>> /\ Serves(Top(t)', g)
                /\ g.at = "connected" => g.id \in active_clients'
                /\ Top(t)'.at \in Early /\ Top(t)'.status = "Active" => g.at = "connected"
          /\ Top(t)'.at # "use_get"
    /\ \/ active_clients \subseteq active_clients' /\ UNCHANGED crossed
       \/ /\ Forget(Top(t).id)
          /\ stack'[t] # <<>> /\ Top(t)'.at = "status_get" /\ Top(t)'.id = Top(t).id
          /\ \E g \in SessionRequest : g.at = "disconnected" /\ Below(t)' = <<g>>

ReplyOutcome(t) ==
    UNCHANGED reply \/ \E r \in Response : reply' = [reply EXCEPT ![t] = r]

HandlerKeeps(t) ==
    /\ HandlerControl' /\ Elsewhere(t) /\ UNCHANGED tableVars
    /\ active_clients' \subseteq SessionId /\ crossed' \subseteq SessionId
    /\ HandlerOutcome(t) /\ ReplyOutcome(t)

\* A handler runs on a client's stack, alone.
LEMMA RequestPlace ==
    ASSUME HandlerControl, NEW t \in Task, NEW label \in HandlerLabels, At(t, label)
    PROVE  /\ t \in Client /\ stack[t] # <<>> /\ Top(t).at = label /\ Below(t) = <<>>
           /\ Top(t) \in RequestFrame
           /\ label \in CreateLabels => Top(t) \in CreateRequest
           /\ label \in ConnectLabels => Top(t) \in ConnectRequest
           /\ label \in SessionLabels => Top(t) \in SessionRequest
<1>1. /\ stack[t] # <<>> /\ Top(t).at = label /\ t \in Client
      /\ Top(t) \in RequestFrame /\ Below(t) = <<>>
  BY Placed, TopTells DEF HandlerLabels
<1> QED
  BY <1>1 DEF RequestFrame, CreateRequest, ConnectRequest, SessionRequest, CreateLabels,
     ConnectLabels, SessionLabels

\* A handler responds.
LEMMA HandlerResponds ==
    ASSUME HandlerTypeOK, NEW t \in Task, NEW label \in HandlerLabels, Step(t, label),
           NEW kind \in ResponseKind, NEW i \in SessionId \cup {None}, NEW reused \in BOOLEAN,
           Respond(t, kind, i, reused), UNCHANGED clientState
    PROVE  HandlerKeeps(t)
<1> USE DEF HandlerTypeOK
<1>1. At(t, label) /\ UNCHANGED <<sessions, issued, registering, clock>>
  BY DEF Step, managerState, tableState
<1>2. HandlerControl' /\ Elsewhere(t) /\ stack'[t] = <<>>
  BY Responds
<1>3. Top(t) \in RequestFrame
  BY <1>1, RequestPlace
<1> DEFINE r == [kind |-> kind, id |-> i, reused |-> reused, request |-> Top(t).request,
                 key |-> Top(t).key]
<1>4. r \in Response /\ reply' = [reply EXCEPT ![t] = r]
  BY <1>3 DEF Response, Respond, RequestFrame, CreateRequest, ConnectRequest, SessionRequest
<1> HIDE DEF r
<1>5. ReplyOutcome(t)
  BY <1>1, <1>4 DEF ReplyOutcome
<1> QED
  BY <1>1, <1>2, <1>5 DEF HandlerKeeps, HandlerOutcome, tableVars

\* A handler goes on.
LEMMA HandlerGoesOn ==
    ASSUME HandlerTypeOK, NEW t \in Task, NEW label \in HandlerLabels, Step(t, label),
           NEW k \in RequestFrame, k.at \notin {"created", "connected"}, Goto(t, k),
           UNCHANGED <<clientState, reply>>
    PROVE  HandlerKeeps(t)
<1> USE DEF HandlerTypeOK
<1>1. At(t, label) /\ UNCHANGED <<sessions, issued, registering, clock>>
  BY DEF Step, managerState, tableState
<1>2. t \in Client /\ stack[t] # <<>> /\ Below(t) = <<>>
  BY <1>1, RequestPlace
<1>3. Upon(t, k, Below(t))
  BY <1>2 DEF Upon
<1>4. /\ HandlerControl' /\ Elsewhere(t)
      /\ stack'[t] # <<>> /\ Top(t)' = k /\ Below(t)' = <<>>
  BY <1>2, <1>3, GoesOn
<1> QED
  BY <1>1, <1>4 DEF HandlerKeeps, HandlerOutcome, ReplyOutcome, tableVars

\* A handler calls a method.
LEMMA HandlerCallsOn ==
    ASSUME HandlerTypeOK, NEW t \in Task, NEW label \in HandlerLabels, Step(t, label),
           NEW g \in RequestFrame, NEW f, Serves(f, g), CallThen(t, f, g), UNCHANGED reply,
           active_clients' \subseteq SessionId, crossed' \subseteq SessionId,
           g.at = "connected" => g.id \in active_clients',
           f.at # "use_get",
           f.at \in Early /\ f.status = "Active" => g.at = "connected",
           \/ active_clients \subseteq active_clients' /\ UNCHANGED crossed
           \/ /\ Forget(Top(t).id)
              /\ f.at = "status_get" /\ f.id = Top(t).id
              /\ g \in SessionRequest /\ g.at = "disconnected"
    PROVE  HandlerKeeps(t)
<1> USE DEF HandlerTypeOK
<1>1. At(t, label) /\ UNCHANGED <<sessions, issued, registering, clock>>
  BY DEF Step, managerState, tableState
<1>2. t \in Client /\ stack[t] # <<>> /\ Below(t) = <<>>
  BY <1>1, RequestPlace
<1>3. /\ HandlerControl' /\ Elsewhere(t)
      /\ stack'[t] # <<>> /\ Top(t)' = f /\ Below(t)' = <<g>>
  BY <1>2, HandlerCalls
<1>4. HandlerOutcome(t)
  BY <1>1, <1>3 DEF HandlerOutcome
<1> QED
  BY <1>1, <1>3, <1>4 DEF HandlerKeeps, ReplyOutcome, tableVars

\* The frames of the methods that the handlers call.
LEMMA CalledFrames ==
    ASSUME NEW i \in SessionId
    PROVE  /\ UseFrame(i) \in UseFrames /\ UseFrame(i).at = "use_mark"
           /\ CloseFrame(i) \in CloseFrames /\ CloseFrame(i).at = "close"
           /\ \A status \in SessionStatus :
                 /\ Updates(UpdateStatusFrame(i, status), i, status)
                 /\ UpdateStatusFrame(i, status).at = "status_get"
                 /\ UpdateStatusFrame(i, status).id = i
                 /\ UpdateStatusFrame(i, status).status = status
BY DEF UseFrame, UseFrames, CloseFrame, CloseFrames, UpdateStatusFrame, Updates,
   UpdateStatusFrames, StatusGetFrame

\* handle_create_session, up to the new session.
LEMMA CreateSteps ==
    ASSUME HandlerTypeOK, NEW t \in Task,
           CreateFind(t) \/ CreateReuse(t) \/ CreateNew(t) \/ Created(t)
    PROVE  HandlerKeeps(t)
<1> USE DEF HandlerTypeOK
<1> DEFINE f == Top(t)
<1>1. PICK label \in {"find_reusable", "reusing", "create_new", "created"} : Step(t, label)
  BY DEF CreateFind, CreateReuse, CreateNew, Created
<1>2. f \in CreateRequest /\ f.at = label /\ label \in HandlerLabels
  BY <1>1, RequestPlace DEF Step, HandlerLabels, CreateLabels
<1>3. ASSUME NEW k \in CreateRequest, k.at # "created", Goto(t, k), UNCHANGED <<clientState, reply>>
      PROVE  HandlerKeeps(t)
  <2>1. k \in RequestFrame /\ k.at # "connected"
    BY DEF RequestFrame, CreateRequest, CreateLabels
  <2> QED
    BY <1>1, <1>2, <1>3, <2>1, HandlerGoesOn
<1> HIDE DEF f
<1>4. CASE CreateFind(t)
  <2>1. UNCHANGED <<clientState, reply>>
    BY <1>4 DEF CreateFind, NotFinished
  <2>2. FindSession(f.key) \subseteq SessionId
    BY DEF FindSession, Eligible, Pooled
  <2>3. ASSUME NEW i \in FindSession(f.key),
               CallThen(t, UseFrame(i), [f EXCEPT !.at = "reusing", !.id = i])
        PROVE  HandlerKeeps(t)
    <3> DEFINE g == [f EXCEPT !.at = "reusing", !.id = i]
               k == UseFrame(i)
    <3>1. g \in CreateRequest /\ g.at = "reusing"
      BY <1>2, <2>2 DEF CreateRequest, CreateLabels
    <3>2. k \in UseFrames /\ k.at = "use_mark"
      BY <2>2, CalledFrames
    <3> HIDE DEF g, k
    <3>3. Serves(k, g) /\ g \in RequestFrame /\ CallThen(t, k, g)
      BY <2>3, <3>1, <3>2 DEF Serves, RequestFrame, g, k
    <3> QED
      BY <1>1, <1>2, <2>1, <3>1, <3>2, <3>3, HandlerCallsOn DEF Early
  <2>4. CASE Goto(t, [f EXCEPT !.at = "create_new"])
    <3> DEFINE k == [f EXCEPT !.at = "create_new"]
    <3>1. k \in CreateRequest /\ k.at = "create_new"
      BY <1>2 DEF CreateRequest, CreateLabels
    <3> HIDE DEF k
    <3> QED
      BY <1>3, <2>1, <2>4, <3>1 DEF k
  <2> QED
    BY <1>4, <2>3, <2>4 DEF CreateFind, f
<1>5. CASE CreateReuse(t)
  <2>1. UNCHANGED clientState
    BY <1>5 DEF CreateReuse
  <2>2. CASE Respond(t, "SessionCreated", f.id, TRUE)
    <3>1. f.id \in SessionId \cup {None} /\ "SessionCreated" \in ResponseKind
      BY <1>2 DEF CreateRequest, ResponseKind
    <3> QED
      BY <1>1, <1>2, <2>1, <2>2, <3>1, HandlerResponds
  <2>3. CASE Goto(t, [f EXCEPT !.at = "create_new"]) /\ NotFinished
    <3> DEFINE k == [f EXCEPT !.at = "create_new"]
    <3>1. k \in CreateRequest /\ k.at = "create_new"
      BY <1>2 DEF CreateRequest, CreateLabels
    <3> HIDE DEF k
    <3> QED
      BY <1>3, <2>1, <2>3, <3>1 DEF k, NotFinished
  <2> QED
    BY <1>5, <2>2, <2>3 DEF CreateReuse, f
<1>6. CASE CreateNew(t)
  <2> DEFINE g == [f EXCEPT !.at = "created"]
             k == CreateFrame(f.name, f.key)
  <2>1. g \in CreateRequest /\ g.at = "created"
    BY <1>2 DEF CreateRequest, CreateLabels
  <2>2. k \in CreateFrames /\ k.at = "create_check"
    BY <1>2 DEF CreateRequest, CreateFrames, CreateFrame
  <2>3. UNCHANGED <<clientState, reply>> /\ CallThen(t, k, g)
    BY <1>6 DEF CreateNew, NotFinished, f
  <2> HIDE DEF g, k
  <2>4. Serves(k, g) /\ g \in RequestFrame
    BY <2>1, <2>2 DEF Serves, RequestFrame
  <2> QED
    BY <1>1, <1>2, <2>1, <2>2, <2>3, <2>4, HandlerCallsOn DEF Early
<1>7. CASE Created(t)
  <2>1. UNCHANGED clientState
    BY <1>7 DEF Created
  <2>2. CASE /\ ret[t].ok /\ NotFinished
             /\ CallThen(t, UpdateStatusFrame(ret[t].id, "Connecting"),
                         [f EXCEPT !.at = "connecting", !.id = ret[t].id])
    <3> DEFINE i == ret[t].id
               g == [f EXCEPT !.at = "connecting", !.id = i]
               k == UpdateStatusFrame(i, "Connecting")
    <3>1. i \in SessionId
      BY <1>7, <2>2 DEF Created, Step, HandlerControl
    <3>2. g \in ConnectRequest /\ g.at = "connecting" /\ g.id = i
      BY <1>2, <3>1 DEF CreateRequest, ConnectRequest, ConnectLabels
    <3>3. Updates(k, i, "Connecting") /\ k.status = "Connecting" /\ k.at = "status_get"
      BY <3>1, CalledFrames DEF SessionStatus
    <3>4. CallThen(t, k, g)
      BY <2>2
    <3> HIDE DEF g, k, i
    <3>5. Serves(k, g) /\ g \in RequestFrame
      BY <3>2, <3>3 DEF Serves, RequestFrame
    <3> QED
      BY <1>1, <1>2, <2>1, <2>2, <3>2, <3>3, <3>4, <3>5, HandlerCallsOn DEF NotFinished
  <2>3. CASE Respond(t, "MaxSessionsReached", None, FALSE)
    <3>1. "MaxSessionsReached" \in ResponseKind
      BY DEF ResponseKind
    <3> QED
      BY <1>1, <1>2, <2>1, <2>3, <3>1, HandlerResponds
  <2> QED
    BY <1>7, <2>2, <2>3 DEF Created, f
<1> QED
  BY <1>4, <1>5, <1>6, <1>7

\* connect_client and what handle_create_session makes of its result.
LEMMA ConnectSteps ==
    ASSUME HandlerTypeOK, NEW t \in Task,
           StoreClient(t) \/ Connected(t) \/ ConnectFailure(t)
    PROVE  HandlerKeeps(t)
<1> USE DEF HandlerTypeOK
<1> DEFINE f == Top(t)
<1>1. PICK label \in {"connecting", "connected", "connect_failed"} : Step(t, label)
  BY DEF StoreClient, Connected, ConnectFailure
<1>2. f \in ConnectRequest /\ f.at = label /\ label \in HandlerLabels
  BY <1>1, RequestPlace DEF Step, HandlerLabels, ConnectLabels
<1>3. f.id \in SessionId
  BY <1>2 DEF ConnectRequest
<1> HIDE DEF f
<1>4. ASSUME ConnectFailed(t, f), UNCHANGED clientState PROVE HandlerKeeps(t)
  <2> DEFINE g == [f EXCEPT !.at = "connect_failed"]
             k == CloseFrame(f.id)
  <2>1. g \in ConnectRequest /\ g.at = "connect_failed"
    BY <1>2 DEF ConnectRequest, ConnectLabels
  <2>2. k \in CloseFrames /\ k.at = "close"
    BY <1>3, CalledFrames
  <2>3. CallThen(t, k, g) /\ UNCHANGED reply
    BY <1>4 DEF ConnectFailed, NotFinished
  <2> HIDE DEF g, k
  <2>4. Serves(k, g) /\ g \in RequestFrame
    BY <2>1, <2>2 DEF Serves, RequestFrame
  <2> QED
    BY <1>1, <1>2, <1>4, <2>1, <2>2, <2>3, <2>4, HandlerCallsOn DEF Early
<1>5. CASE StoreClient(t)
  <2>1. CASE /\ active_clients' = active_clients \cup {f.id} /\ UNCHANGED crossed
             /\ CallThen(t, UpdateStatusFrame(f.id, "Active"), [f EXCEPT !.at = "connected"])
             /\ NotFinished
    <3> DEFINE g == [f EXCEPT !.at = "connected"]
               k == UpdateStatusFrame(f.id, "Active")
    <3>1. g \in ConnectRequest /\ g.at = "connected" /\ g.id = f.id
      BY <1>2 DEF ConnectRequest, ConnectLabels
    <3>2. Updates(k, f.id, "Active") /\ k.at = "status_get" /\ k.id = f.id
      BY <1>3, CalledFrames DEF SessionStatus
    <3>3. CallThen(t, k, g) /\ UNCHANGED reply
      BY <2>1 DEF NotFinished
    <3> HIDE DEF g, k
    <3>4. Serves(k, g) /\ g \in RequestFrame
      BY <3>1, <3>2 DEF Serves, RequestFrame
    <3> QED
      BY <1>1, <1>2, <1>3, <2>1, <3>1, <3>2, <3>3, <3>4, HandlerCallsOn
  <2> QED
    BY <1>4, <1>5, <2>1 DEF StoreClient, f
<1>6. CASE Connected(t)
  <2>1. CASE Respond(t, "SessionCreated", f.id, FALSE) /\ UNCHANGED clientState
    <3>1. "SessionCreated" \in ResponseKind
      BY DEF ResponseKind
    <3>2. Step(t, "connected") /\ "connected" \in HandlerLabels
      BY <1>6 DEF Connected, HandlerLabels, ConnectLabels
    <3> QED
      BY <1>3, <2>1, <3>1, <3>2, HandlerResponds DEF f
  <2> QED
    BY <1>4, <1>6, <2>1 DEF Connected, f
<1>7. CASE ConnectFailure(t)
  <2>1. "ConnectionFailed" \in ResponseKind
    BY DEF ResponseKind
  <2> QED
    BY <1>1, <1>2, <1>3, <1>7, <2>1, HandlerResponds DEF ConnectFailure, f
<1> QED
  BY <1>5, <1>6, <1>7

\* handle_connect_session
LEMMA ListSteps ==
    ASSUME HandlerTypeOK, NEW t \in Task, HandleConnectSession(t)
    PROVE  HandlerKeeps(t)
<1> USE DEF HandlerTypeOK
<1> DEFINE f == Top(t)
<1>1. PICK label \in {"list_sessions", "try_candidates", "candidate_used"} : Step(t, label)
  BY DEF HandleConnectSession, ConnectList, ConnectTry, ConnectUsed
<1>2. f \in CreateRequest /\ f.at = label /\ label \in HandlerLabels
  BY <1>1, RequestPlace DEF Step, HandlerLabels, CreateLabels
<1>3. ASSUME NEW k \in CreateRequest, k.at # "created", Goto(t, k), UNCHANGED <<clientState, reply>>
      PROVE  HandlerKeeps(t)
  <2>1. k \in RequestFrame /\ k.at # "connected"
    BY DEF RequestFrame, CreateRequest, CreateLabels
  <2> QED
    BY <1>1, <1>2, <1>3, <2>1, HandlerGoesOn
<1> HIDE DEF f
<1>4. CASE ConnectList(t)
  <2> DEFINE s == {i \in Registered : sessions[i].name = f.name /\ sessions[i].status = "Active"}
             k == [f EXCEPT !.at = "try_candidates", !.candidates = s]
  <2>1. s \in SUBSET SessionId
    BY DEF Registered
  <2>2. Goto(t, k) /\ UNCHANGED <<clientState, reply>>
    BY <1>4 DEF ConnectList, NotFinished, f
  <2> HIDE DEF s
  <2>3. k \in CreateRequest /\ k.at = "try_candidates"
    BY <1>2, <2>1 DEF CreateRequest, CreateLabels
  <2> HIDE DEF k
  <2> QED
    BY <1>3, <2>2, <2>3
<1>5. CASE ConnectTry(t)
  <2>1. UNCHANGED <<clientState, reply>>
    BY <1>5 DEF ConnectTry, NotFinished
  <2>2. ASSUME NEW i \in f.candidates,
               CallThen(t, UseFrame(i), [f EXCEPT !.at = "candidate_used", !.id = i,
                                                  !.candidates = @ \ {i}])
        PROVE  HandlerKeeps(t)
    <3> DEFINE g == [f EXCEPT !.at = "candidate_used", !.id = i, !.candidates = @ \ {i}]
               k == UseFrame(i)
    <3>1. i \in SessionId
      BY <1>2 DEF CreateRequest
    <3>2. g \in CreateRequest /\ g.at = "candidate_used"
      BY <1>2, <3>1 DEF CreateRequest, CreateLabels
    <3>3. k \in UseFrames /\ k.at = "use_mark"
      BY <3>1, CalledFrames
    <3> HIDE DEF g, k
    <3>4. Serves(k, g) /\ g \in RequestFrame /\ CallThen(t, k, g)
      BY <2>2, <3>2, <3>3 DEF Serves, RequestFrame, g, k
    <3> QED
      BY <1>1, <1>2, <2>1, <3>2, <3>3, <3>4, HandlerCallsOn DEF Early
  <2>3. CASE Goto(t, [f EXCEPT !.at = "find_reusable"])
    <3> DEFINE k == [f EXCEPT !.at = "find_reusable"]
    <3>1. k \in CreateRequest /\ k.at = "find_reusable"
      BY <1>2 DEF CreateRequest, CreateLabels
    <3> HIDE DEF k
    <3> QED
      BY <1>3, <2>1, <2>3, <3>1 DEF k
  <2> QED
    BY <1>5, <2>2, <2>3 DEF ConnectTry, f
<1>6. CASE ConnectUsed(t)
  <2>1. UNCHANGED clientState
    BY <1>6 DEF ConnectUsed
  <2>2. CASE Respond(t, "SessionCreated", f.id, TRUE)
    <3>1. f.id \in SessionId \cup {None} /\ "SessionCreated" \in ResponseKind
      BY <1>2 DEF CreateRequest, ResponseKind
    <3> QED
      BY <1>1, <1>2, <2>1, <2>2, <3>1, HandlerResponds
  <2>3. CASE Goto(t, [f EXCEPT !.at = "try_candidates"]) /\ NotFinished
    <3> DEFINE k == [f EXCEPT !.at = "try_candidates"]
    <3>1. k \in CreateRequest /\ k.at = "try_candidates"
      BY <1>2 DEF CreateRequest, CreateLabels
    <3> HIDE DEF k
    <3> QED
      BY <1>3, <2>1, <2>3, <3>1 DEF k, NotFinished
  <2> QED
    BY <1>6, <2>2, <2>3 DEF ConnectUsed, f
<1> QED
  BY <1>4, <1>5, <1>6 DEF HandleConnectSession

\* handle_disconnect_session and handle_execute_command
LEMMA SessionSteps ==
    ASSUME HandlerTypeOK, NEW t \in Task,
           HandleDisconnectSession(t) \/ HandleExecuteCommand(t)
    PROVE  HandlerKeeps(t)
<1> USE DEF HandlerTypeOK
<1> DEFINE f == Top(t)
<1>1. PICK label \in {"remove_client", "disconnected", "get_client", "execute"} : Step(t, label)
  BY DEF HandleDisconnectSession, HandleExecuteCommand, RemoveClient, Disconnected, GetClient,
     Execute
<1>2. f \in SessionRequest /\ f.at = label /\ label \in HandlerLabels
  BY <1>1, RequestPlace DEF Step, HandlerLabels, SessionLabels
<1>3. f.id \in SessionId
  BY <1>2 DEF SessionRequest
<1> HIDE DEF f
<1>4. ASSUME NEW kind \in ResponseKind, Respond(t, kind, f.id, FALSE),
             UNCHANGED clientState
      PROVE  HandlerKeeps(t)
  BY <1>1, <1>2, <1>3, <1>4, HandlerResponds
<1>5. CASE RemoveClient(t)
  <2> DEFINE g == [f EXCEPT !.at = "disconnected"]
             k == UpdateStatusFrame(f.id, "Idle")
  <2>1. g \in SessionRequest /\ g.at = "disconnected" /\ g.id = f.id
    BY <1>2 DEF SessionRequest, SessionLabels
  <2>2. /\ Updates(k, f.id, "Idle") /\ k.at = "status_get" /\ k.id = f.id /\ k.status = "Idle"
    BY <1>3, CalledFrames DEF SessionStatus
  <2>3. /\ CallThen(t, k, g) /\ UNCHANGED reply
        /\ Forget(Top(t).id) /\ f.id = Top(t).id
    BY <1>5 DEF RemoveClient, NotFinished, f
  <2>5. active_clients' \subseteq SessionId /\ crossed' \subseteq SessionId
    BY <1>3, <2>3 DEF Forget
  <2> HIDE DEF g, k
  <2>4. Serves(k, g) /\ g \in RequestFrame
    BY <2>1, <2>2 DEF Serves, RequestFrame
  <2> QED
    BY <1>1, <1>2, <2>1, <2>2, <2>3, <2>4, <2>5, HandlerCallsOn
<1>6. CASE Disconnected(t)
  BY <1>4, <1>6 DEF Disconnected, ResponseKind, f
<1>7. CASE GetClient(t)
  <2>1. CASE CallThen(t, UseFrame(f.id), [f EXCEPT !.at = "execute"]) /\ NotFinished
    <3> DEFINE g == [f EXCEPT !.at = "execute"]
               k == UseFrame(f.id)
    <3>1. g \in SessionRequest /\ g.at = "execute"
      BY <1>2 DEF SessionRequest, SessionLabels
    <3>2. k \in UseFrames /\ k.at = "use_mark"
      BY <1>3, CalledFrames
    <3>3. CallThen(t, k, g) /\ UNCHANGED <<clientState, reply>>
      BY <1>7, <2>1 DEF GetClient, NotFinished
    <3> HIDE DEF g, k
    <3>4. Serves(k, g) /\ g \in RequestFrame
      BY <3>1, <3>2 DEF Serves, RequestFrame
    <3> QED
      BY <1>1, <1>2, <3>1, <3>2, <3>3, <3>4, HandlerCallsOn DEF Early
  <2> QED
    BY <1>4, <1>7, <2>1 DEF GetClient, ResponseKind, f
<1>8. CASE Execute(t)
  BY <1>4, <1>8 DEF Execute, ResponseKind, f
<1> QED
  BY <1>5, <1>6, <1>7, <1>8 DEF HandleDisconnectSession, HandleExecuteCommand

\* A request comes in.
LEMMA RequestBegins ==
    ASSUME HandlerTypeOK, NEW t \in Task, HandleRequest(t)
    PROVE  /\ HandlerControl' /\ Elsewhere(t) /\ UNCHANGED <<tableVars, clientState>>
           /\ reply' = [reply EXCEPT ![t] = None]
           /\ t \in Client /\ stack[t] = <<>> /\ stack'[t] # <<>> /\ Below(t)' = <<>>
           /\ Top(t)' \in RequestFrame /\ Top(t)'.at # "connected"
<1> USE DEF HandlerTypeOK
<1>1. ASSUME NEW f \in RequestFrame, f.at \notin {"created", "connected"}, Accept(t, f)
      PROVE  /\ HandlerControl' /\ Elsewhere(t) /\ UNCHANGED <<tableVars, clientState>>
             /\ reply' = [reply EXCEPT ![t] = None]
             /\ t \in Client /\ stack[t] = <<>> /\ stack'[t] # <<>> /\ Below(t)' = <<>>
             /\ Top(t)' \in RequestFrame /\ Top(t)'.at # "connected"
  <2>1. /\ Enters(t, f) /\ t \in Client /\ UNCHANGED <<sessions, issued, registering, clock>>
        /\ UNCHANGED clientState /\ reply' = [reply EXCEPT ![t] = None]
    BY <1>1 DEF Accept, Begin, tableState
  <2>2. /\ HandlerControl' /\ Elsewhere(t)
        /\ stack'[t] # <<>> /\ Top(t)' = f /\ Below(t)' = <<>>
    BY <1>1, <2>1, Begins
  <2> QED
    BY <1>1, <2>1, <2>2 DEF tableVars, Enters
<1>2. ASSUME NEW n \in Name, NEW k \in ConnectionKey
      PROVE  /\ Request("find_reusable", "CreateSession", None, n, k) \in RequestFrame
             /\ Request("find_reusable", "CreateSession", None, n, k).at = "find_reusable"
             /\ Request("list_sessions", "ConnectSession", None, n, k) \in RequestFrame
             /\ Request("list_sessions", "ConnectSession", None, n, k).at = "list_sessions"
  BY DEF Request, RequestFrame, CreateRequest, CreateLabels, RequestKind
<1>3. ASSUME NEW i \in issued
      PROVE  /\ Request("remove_client", "DisconnectSession", i, None, None) \in RequestFrame
             /\ Request("remove_client", "DisconnectSession", i, None, None).at = "remove_client"
             /\ Request("get_client", "ExecuteCommand", i, None, None) \in RequestFrame
             /\ Request("get_client", "ExecuteCommand", i, None, None).at = "get_client"
  BY DEF Request, RequestFrame, SessionRequest, SessionLabels, RequestKind, TableTypeOK
<1> QED
  BY <1>1, <1>2, <1>3 DEF HandleRequest

\* The same for all steps of the handlers.
LEMMA HandlerSteps ==
    ASSUME HandlerTypeOK, NEW t \in Task,
           HandleCreateSession(t) \/ HandleConnectSession(t)
           \/ HandleDisconnectSession(t) \/ HandleExecuteCommand(t)
    PROVE  HandlerKeeps(t)
BY CreateSteps, ConnectSteps, ListSteps, SessionSteps DEF HandleCreateSession

\* Every step keeps everything well typed, and does to the map of sessions what
\* the registry's callers may do.
LEMMA HandlerStepTypes ==
    ASSUME HandlerTypeOK, [HandlerNext]_handlerVars
    PROVE  HandlerTypeOK' /\ [TableNext]_tableVars
<1> USE DEF HandlerTypeOK
<1>1. ASSUME HandlerControl', [TableNext]_tableVars, active_clients' \subseteq SessionId,
             crossed' \subseteq SessionId, reply' \in [Task -> Response \cup {None}]
      PROVE  HandlerTypeOK' /\ [TableNext]_tableVars
  BY <1>1, TableStepTypes
<1>2. ASSUME NEW t \in Task, HandleRequest(t) PROVE HandlerTypeOK' /\ [TableNext]_tableVars
  <2>1. reply' \in [Task -> Response \cup {None}]
    BY <1>2, RequestBegins
  <2> QED
    BY <1>1, <1>2, <2>1, RequestBegins
<1>3. ASSUME NEW t \in Task,
             HandleCreateSession(t) \/ HandleConnectSession(t)
             \/ HandleDisconnectSession(t) \/ HandleExecuteCommand(t)
      PROVE  HandlerTypeOK' /\ [TableNext]_tableVars
  <2>1. HandlerKeeps(t)
    BY <1>3, HandlerSteps
  <2>2. reply' \in [Task -> Response \cup {None}]
    BY <2>1 DEF HandlerKeeps, ReplyOutcome
  <2> QED
    BY <1>1, <2>1, <2>2 DEF HandlerKeeps
<1>4. ASSUME NEW t \in Task, Background(t) PROVE HandlerTypeOK' /\ [TableNext]_tableVars
  <2>1. UNCHANGED <<clientState, reply>>
    BY <1>4 DEF Background
  <2>2. HandlerControl' /\ [TableNext]_tableVars
    BY <1>4, HandlerUpdateStatus, HandlerUse, HandlerClose, HandlerCreate, HandlerCleanup
    DEF Background
  <2> QED
    BY <1>1, <2>1, <2>2
<1>5. CASE ManagerClockStep /\ UNCHANGED <<clientState, reply>>
  <2>1. UNCHANGED <<stack, ret>> /\ TableClockStep
    BY <1>5 DEF ManagerClockStep, TableClockStep, tableState
  <2>2. HandlerControl'
    BY <2>1 DEF HandlerControl, Stacked, Top, Below, At
  <2>3. [TableNext]_tableVars
    BY <2>1 DEF TableNext
  <2> QED
    BY <1>1, <1>5, <2>2, <2>3
<1>6. CASE UNCHANGED handlerVars
  <2>1. UNCHANGED <<stack, ret, clientState, reply, tableVars>>
    BY <1>6 DEF handlerVars, tableVars
  <2>2. HandlerControl'
    BY <2>1 DEF HandlerControl, Stacked, Top, Below, At
  <2> QED
    BY <1>1, <2>1, <2>2
<1> QED
  BY <1>2, <1>3, <1>4, <1>5, <1>6 DEF HandlerNext, HandlerStep

\* Initially there is no session, no request and no client.
LEMMA HandlerInitTypes ==
    ASSUME HandlerInit
    PROVE  HandlerTypeOK
<1>1. TableTypeOK
  BY DEF HandlerInit, ManagerInit, TableInit, TableTypeOK
<1>2. HandlerControl
  BY DEF HandlerInit, ManagerInit, HandlerControl, Stacked, At
<1> QED
  BY <1>1, <1>2 DEF HandlerTypeOK, HandlerInit

\* The handlers' frames, those of the methods they call, the map of clients and
\* the responses stay well typed, for any number of clients: each method is
\* called from a handler that knows what to do with its result.
THEOREM HandlerTypeCorrect == HandlerSpec => []HandlerTypeOK
<1>1. HandlerTypeOK /\ [HandlerNext]_handlerVars => HandlerTypeOK'
  BY HandlerStepTypes
<1> QED
  BY <1>1, HandlerInitTypes, PTL DEF HandlerSpec

\* However the requests of the daemon's clients and the cleanup interleave, they
\* act on the registry's map only as single callers of the registry would.
THEOREM HandlerImplementsTable == HandlerSpec => TableSpec
<1>1. HandlerInit => TableInit
  BY DEF HandlerInit, ManagerInit
<1>2. HandlerTypeOK /\ [HandlerNext]_handlerVars => [TableNext]_tableVars
  BY HandlerStepTypes
<1> QED
  BY <1>1, <1>2, HandlerTypeCorrect, PTL DEF HandlerSpec, TableSpec

\* Hence what is proved of the map holds in the daemon: the limit is exceeded by
\* fewer than there are tasks, and a session that was closed or expired never
\* comes back, whatever request was under way for it.
THEOREM HandlerSessions ==
    HandlerSpec => []IdsDistinct /\ []SessionOvershootBounded /\ GoneForever
BY HandlerImplementsTable, TableIdsDistinct, SessionOvershootAlwaysBounded, SessionsGoneForever, PTL

-----------------------------------------------------------------------------
(* The map of client connections.                                           *)

\* The session was used, or has left the map for good.
Used(i) == i \in Gone \/ (i \in Registered /\ sessions[i].use_count > 0)

\* The session has its client, or lost it to a request that overtook its own.
Covered == active_clients \cup crossed

\* While connect_client waits for the session to become active, and until it
\* responds, the client is in the map unless a request to disconnect came between.
Held(t) ==
    stack[t] # <<>> =>
        /\ Top(t).at = "connected" => Top(t).id \in Covered
        /\ \A g \in RequestFrame :
              g.at = "connected" /\ Below(t) = <<g>> => g.id \in Covered

\* connect_client waits for the session to become active.
Connects(t) == \E g \in RequestFrame : g.at = "connected" /\ Below(t) = <<g>>

\* Whoever is about to make a session active works for connect_client or used it.
Marked(t) ==
    stack[t] # <<>> =>
        /\ Top(t).at = "use_get" => Used(Top(t).id)
        /\ Top(t).at \in Early /\ Top(t).status = "Active" => Connects(t) \/ Used(Top(t).id)

\* handle_disconnect_session has taken the client of i from the map and the
\* session is not idle yet.
Disconnects(t, i) ==
    /\ stack[t] # <<>> /\ Top(t).at \in Early /\ Top(t).id = i
    /\ \E g \in RequestFrame : g.at = "disconnected" /\ Below(t) = <<g>>

Unused(status) == {i \in InStatus(status) : sessions[i].use_count = 0}

\* An active session that was never used is covered, or is being disconnected.
ActiveBacked ==
    \A i \in Unused("Active") : i \in Covered \/ \E t \in Task : Disconnects(t, i)

\* The inductive invariant of the map of clients.
ClientInv == ActiveBacked /\ \A t \in Task : Held(t) /\ Marked(t)

\* A task that is idle or cleans up.
Quiet(t) == stack[t] = <<>> \/ (Top(t) \in CleanupFrames /\ Below(t) = <<>>)

\* Of a quiet task nothing is claimed.
LEMMA QuietKept ==
    ASSUME NEW u, Quiet(u)'
    PROVE  Held(u)' /\ Marked(u)'
<1>1. CASE stack'[u] = <<>>
  BY <1>1 DEF Held, Marked
<1>2. CASE Top(u)' \in CleanupFrames /\ Below(u)' = <<>>
  <2>1. Top(u)'.at \notin {"connected", "use_get", "status_get", "status_update"}
    BY <1>2, Labels
  <2>2. ASSUME NEW g PROVE Below(u)' # <<g>>
    BY <1>2
  <2> QED
    BY <2>1, <2>2 DEF Held, Marked, Early
<1> QED
  BY <1>1, <1>2 DEF Quiet

\* What Held speaks of is what a request to disconnect looks for.
LEMMA HeldActivating ==
    ASSUME HandlerControl, NEW u \in Task, stack[u] # <<>>
    PROVE  /\ Top(u).at = "connected" => Activating(u, Top(u).id)
           /\ \A g \in RequestFrame :
                 g.at = "connected" /\ Below(u) = <<g>> => Activating(u, g.id)
<1>1. Upon(u, Top(u), Below(u)) /\ stack[u] = <<Top(u)>> \o Below(u)
  BY DEF HandlerControl, Stacked
<1>2. ASSUME Top(u).at = "connected" PROVE Activating(u, Top(u).id)
  <2>1. Below(u) = <<>>
    BY <1>1, <1>2, TopTells DEF ConnectLabels
  <2>2. <<Top(u)>> \o <<>> = <<Top(u)>>
    OBVIOUS
  <2>3. stack[u] = <<Top(u)>>
    BY <1>1, <2>1, <2>2
  <2>4. Len(stack[u]) = 1 /\ stack[u][1] = Top(u)
    BY <2>3
  <2> QED
    BY <1>2, <2>4 DEF Activating
<1>3. ASSUME NEW g \in RequestFrame, g.at = "connected", Below(u) = <<g>>
      PROVE  Activating(u, g.id)
  <2>1. stack[u] = <<Top(u), g>>
    BY <1>1, <1>3, TwoFrames
  <2>2. Len(stack[u]) = 2 /\ stack[u][2] = g
    BY <2>1
  <2> QED
    BY <1>3, <2>2 DEF Activating
<1> QED
  BY <1>2, <1>3

\* No session loses its cover while connect_client relies on it.
CoverKept == \A i \in Covered : i \in Covered' \/ ~ \E u \in Task : Activating(u, i)

\* A session that was used remains one.
UsesKept == \A i : Used(i) => Used(i)'

\* The step of one task leaves to the others what they rely on.
LEMMA OthersKept ==
    ASSUME HandlerControl, ClientInv, NEW t \in Task, Elsewhere(t), CoverKept, UsesKept,
           Held(t)', Marked(t)'
    PROVE  \A u \in Task : Held(u)' /\ Marked(u)'
<1> SUFFICES ASSUME NEW u \in Task, u # t, stack'[u] # <<>>
             PROVE  Held(u)' /\ Marked(u)'
  BY DEF Held, Marked
<1>1. stack[u] # <<>> /\ Top(u)' = Top(u) /\ Below(u)' = Below(u)
  BY DEF Elsewhere, Top, Below
<1>2. Held(u) /\ Marked(u)
  BY DEF ClientInv
<1>3. Held(u)'
  <2>1. ASSUME Top(u).at = "connected" PROVE Top(u).id \in Covered'
    BY <1>1, <1>2, <2>1, HeldActivating DEF Held, CoverKept
  <2>2. ASSUME NEW g \in RequestFrame, g.at = "connected", Below(u) = <<g>>
        PROVE  g.id \in Covered'
    BY <1>1, <1>2, <2>2, HeldActivating DEF Held, CoverKept
  <2> QED
    BY <1>1, <2>1, <2>2 DEF Held
<1>4. Marked(u)'
  <2>1. Connects(u)' <=> Connects(u)
    BY <1>1 DEF Connects
  <2>2. PICK i : i = Top(u).id
    OBVIOUS
  <2>3. Used(i) => Used(i)'
    BY DEF UsesKept
  <2>4. Used(Top(u).id) => Used(Top(u).id)'
    BY <1>1, <2>2, <2>3 DEF Used
  <2> QED
    BY <1>1, <1>2, <2>1, <2>4 DEF Marked
<1> QED
  BY <1>3, <1>4

\* Active sessions stay backed when each that is active and unused was so before,
\* and its cover is not taken away without being disconnected.
LEMMA BackedKept ==
    ASSUME ActiveBacked, NEW t \in Task, Elsewhere(t),
           \A i \in Unused("Active")' :
              \/ i \in Covered'
              \/ /\ i \in Unused("Active")
                 /\ i \in Covered \/ Disconnects(t, i) => Disconnects(t, i)'
    PROVE  ActiveBacked'
<1> SUFFICES ASSUME NEW i \in Unused("Active")', i \notin Covered'
             PROVE  \E u \in Task : Disconnects(u, i)'
  BY DEF ActiveBacked
<1>1. CASE i \in Covered
  BY <1>1
<1>2. ASSUME NEW u \in Task, Disconnects(u, i) PROVE \E v \in Task : Disconnects(v, i)'
  <2>1. CASE u = t
    BY <1>2, <2>1
  <2>2. CASE u # t
    BY <1>2, <2>2 DEF Disconnects, Elsewhere, Top, Below
  <2> QED
    BY <2>1, <2>2
<1> QED
  BY <1>1, <1>2 DEF ActiveBacked

\* What the operations on the map do to the active sessions that were never used.
LEMMA SameSessions ==
    ASSUME UNCHANGED sessions
    PROVE  Unused("Active")' = Unused("Active")
BY DEF Unused, InStatus, Registered

\* A session that is removed is no longer active, and gone if it was used.
LEMMA DroppedSession ==
    ASSUME TableTypeOK, NEW k \in SessionId, DropSession(k)
    PROVE  /\ Unused("Active")' \subseteq Unused("Active")
           /\ IdsDistinct => k \in Gone'
BY DEF DropSession, TableTypeOK, Unused, InStatus, Registered, IdsDistinct, Gone

\* mark_used makes a session one that was used.
LEMMA MarkedSession ==
    ASSUME TableTypeOK, NEW k, MarkSessionUsed(k)
    PROVE  /\ Unused("Active")' \subseteq Unused("Active") /\ Used(k)'
           /\ \A i \in SessionId : i # k => sessions'[i] = sessions[i]
<1>1. /\ k \in SessionId /\ sessions[k] \in SessionMetadata
      /\ sessions' = [sessions EXCEPT ![k] = MarkUsed(sessions[k], clock)]
  BY DEF MarkSessionUsed, Registered, TableTypeOK
<1> DEFINE m == MarkUsed(sessions[k], clock)
<1>2. m.use_count > 0
  BY <1>1 DEF MarkUsed, SessionMetadata
<1>5. m # None
  <2>1. "Idle" \in SessionStatus /\ clock \in ClockValues
    BY DEF SessionStatus, TableTypeOK
  <2>2. m \in SessionMetadata
    BY <1>1, <2>1, MetadataOperations
  <2> QED
    BY <2>2, NoneAssumption
<1> HIDE DEF m
<1>3. /\ sessions'[k] = m /\ \A i \in SessionId : i # k => sessions'[i] = sessions[i]
  BY <1>1 DEF m, TableTypeOK
<1>4. m.use_count # 0
  BY <1>1 DEF m, MarkUsed, SessionMetadata
<1> QED
  BY <1>1, <1>2, <1>3, <1>4, <1>5 DEF Unused, InStatus, Registered, Used

\* A status update makes at most its own session active, and loses no use.
LEMMA StatusSet ==
    ASSUME TableTypeOK, NEW k, NEW status \in SessionStatus, SetSessionStatus(k, status)
    PROVE  /\ \A i \in Unused("Active")' :
                 \/ i # k /\ i \in Unused("Active")
                 \/ i = k /\ status = "Active" /\ ~Used(k)
           /\ k \in Registered' /\ sessions'[k].use_count = sessions[k].use_count
           /\ \A i \in SessionId : i # k => sessions'[i] = sessions[i]
<1>1. /\ k \in Registered /\ k \in SessionId /\ sessions[k] \in SessionMetadata
      /\ sessions' = [sessions EXCEPT ![k] = SetStatus(sessions[k], status, clock)]
  BY DEF SetSessionStatus, Registered, TableTypeOK
<1> DEFINE m == SetStatus(sessions[k], status, clock)
<1>2. m.use_count = sessions[k].use_count /\ m.status = status /\ sessions[k].use_count \in Nat
  BY <1>1 DEF SetStatus, SessionMetadata
<1>5. m # None
  BY <1>1, NoneAssumption, MetadataOperations DEF TableTypeOK
<1> HIDE DEF m
<1>3. sessions'[k] = m /\ \A i \in SessionId : i # k => sessions'[i] = sessions[i]
  BY <1>1 DEF m, TableTypeOK
<1>4. k \notin Gone
  BY <1>1 DEF Gone
<1> QED
  BY <1>1, <1>2, <1>3, <1>4, <1>5 DEF Unused, InStatus, Registered, Used

\* A session that is inserted is connecting, so not active.
LEMMA InsertedSession ==
    ASSUME TableTypeOK, Connecting, NEW t \in Task, InsertSession(t)
    PROVE  Unused("Active")' \subseteq Unused("Active")
BY DEF InsertSession, TableTypeOK, SessionMetadata, Connecting, Unused, InStatus, Registered

\* No operation of the daemon on the map takes a use back: a session that was used
\* stays so or leaves for good.
LEMMA UsesStay ==
    ASSUME TableTypeOK, IdsDistinct, [TableNext]_tableVars,
           \/ UNCHANGED sessions
           \/ \E i \in SessionId : DropSession(i)
           \/ \E i : MarkSessionUsed(i)
           \/ \E i : \E status \in SessionStatus : SetSessionStatus(i, status)
           \/ \E t \in Task : InsertSession(t)
    PROVE  UsesKept
<1>1. Gone \subseteq Gone'
  BY GoneStaysGone
<1> SUFFICES ASSUME NEW i \in Registered, sessions[i].use_count > 0
             PROVE  Used(i)'
  BY <1>1 DEF UsesKept, Used
<1>2. i \in SessionId /\ sessions[i] # None
  BY DEF Registered
<1>3. ASSUME sessions'[i] = sessions[i] PROVE Used(i)'
  BY <1>2, <1>3 DEF Used, Registered
<1>4. ASSUME NEW k \in SessionId, DropSession(k) PROVE Used(i)'
  <2>1. k # i => sessions'[i] = sessions[i]
    BY <1>2, <1>4 DEF DropSession, TableTypeOK
  <2> QED
    BY <1>3, <1>4, <2>1, DroppedSession DEF Used
<1>5. ASSUME NEW k, MarkSessionUsed(k) PROVE Used(i)'
  BY <1>2, <1>3, <1>5, MarkedSession
<1>6. ASSUME NEW k, NEW status \in SessionStatus, SetSessionStatus(k, status) PROVE Used(i)'
  BY <1>2, <1>3, <1>6, StatusSet DEF Used
<1>7. ASSUME NEW t \in Task, InsertSession(t) PROVE Used(i)'
  <2>1. registering[t].id # i
    BY <1>7 DEF InsertSession, IdsDistinct
  <2>2. sessions'[i] = sessions[i]
    BY <1>2, <1>7, <2>1 DEF InsertSession, TableTypeOK
  <2> QED
    BY <1>3, <2>2
<1>8. CASE UNCHANGED sessions
  BY <1>3, <1>8
<1> QED
  BY <1>4, <1>5, <1>6, <1>7, <1>8

\* New metadata waits to be inserted with the status that register gave it.
LEMMA TableConnecting == TableSpec => []Connecting
<1>1. TableInit => Connecting
  BY DEF TableInit, Connecting
<1>2. TableTypeOK /\ Connecting /\ [TableNext]_tableVars => Connecting'
  <2> SUFFICES ASSUME TableTypeOK, Connecting, [TableNext]_tableVars
               PROVE  Connecting'
    OBVIOUS
  <2>1. ASSUME NEW t \in Task, NEW i \in SessionId, NEW n \in Name, NEW k \in ConnectionKey,
               AdmitSession(t, i, n, k)
        PROVE  Connecting'
    <3> DEFINE m == [NewMetadata(i, n, k, clock) EXCEPT !.status = "Connecting"]
    <3>1. m.status = "Connecting"
      BY DEF NewMetadata
    <3>2. registering' = [registering EXCEPT ![t] = m]
      BY <2>1 DEF AdmitSession
    <3> HIDE DEF m
    <3> QED
      BY <3>1, <3>2 DEF Connecting, TableTypeOK
  <2>2. ASSUME NEW t \in Task, InsertSession(t) PROVE Connecting'
    BY <2>2 DEF InsertSession, Connecting, TableTypeOK
  <2>3. CASE UNCHANGED registering
    BY <2>3 DEF Connecting
  <2> QED
    BY <2>1, <2>2, <2>3 DEF TableNext, DropSession, MarkSessionUsed, SetSessionStatus,
       ReplaceSession, ClearSessions, TableClockStep, tableVars
<1> QED
  BY <1>1, <1>2, TableTypeCorrect, PTL DEF TableSpec

\* When a method returns, the handler that called it finds its client in the map
\* if it waits at "connected".
LEMMA ReturnKeeps ==
    ASSUME HandlerControl, NEW t \in Task, stack[t] # <<>>, Top(t).at \in MethodLabels, Held(t),
           stack'[t] = Below(t), UNCHANGED clientState
    PROVE  Held(t)' /\ Marked(t)'
<1>1. Upon(t, Top(t), Below(t))
  BY DEF HandlerControl, Stacked
<1>2. ASSUME NEW g \in RequestFrame, Below(t) = <<g>> PROVE Held(t)' /\ Marked(t)'
  <2>1. Top(t)' = g /\ Below(t)' = <<>>
    <3>1. stack'[t] = <<g>>
      BY <1>2
    <3>2. Head(<<g>>) = g /\ Tail(<<g>>) = <<>>
      OBVIOUS
    <3> QED
      BY <3>1, <3>2 DEF Top, Below
  <2>2. g.at \notin {"use_get", "status_get", "status_update"}
    BY Labels DEF CreateLabels, ConnectLabels, SessionLabels
  <2>3. g.at = "connected" => g.id \in Covered'
    BY <1>2 DEF Held, Covered
  <2>4. ASSUME NEW k PROVE Below(t)' # <<k>>
    BY <2>1
  <2> QED
    BY <2>1, <2>2, <2>3, <2>4 DEF Held, Marked, Early
<1>3. ASSUME NEW h \in WaitingClose, NEW g \in RequestFrame, g.at = "connect_failed",
             Below(t) = <<h, g>>
      PROVE  Held(t)' /\ Marked(t)'
  <2>1. Top(t)' = h /\ Below(t)' = <<g>>
    <3>1. stack'[t] = <<h, g>>
      BY <1>3
    <3>2. Head(<<h, g>>) = h /\ Tail(<<h, g>>) = <<g>>
      OBVIOUS
    <3> QED
      BY <3>1, <3>2 DEF Top, Below
  <2>2. h.at = "close_pool_remove"
    BY DEF WaitingClose
  <2>3. ASSUME NEW k, Below(t)' = <<k>> PROVE k.at # "connected"
    BY <1>3, <2>1, <2>3
  <2> QED
    BY <2>1, <2>2, <2>3 DEF Held, Marked, Early
<1> QED
  BY <1>1, <1>2, <1>3, TopTells

\* When a method goes on, its handler still waits.
LEMMA GoesOnHeld ==
    ASSUME NEW t \in Task, stack[t] # <<>>, Held(t), Below(t)' = Below(t),
           Top(t)'.at # "connected", UNCHANGED clientState
    PROVE  Held(t)'
BY DEF Held, Covered

\* A status update that connect_client waits for is one of its own session.
LEMMA ConnectedId ==
    ASSUME HandlerControl, NEW t \in Task, stack[t] # <<>>, Top(t).at \in Early,
           NEW g \in RequestFrame, g.at = "connected", Below(t) = <<g>>
    PROVE  g.id = Top(t).id
<1>1. Top(t).at \in MethodLabels
  BY DEF Early, MethodLabels
<1>2. Upon(t, Top(t), Below(t))
  BY DEF HandlerControl, Stacked
<1>3. PICK k \in RequestFrame : Serves(Top(t), k) /\ Below(t) = <<k>>
  BY <1>1, <1>2, TopTells
<1>4. k = g
  BY <1>3
<1>5. Updates(Top(t), g.id, "Active")
  BY <1>3, <1>4 DEF Serves
<1> QED
  BY <1>5 DEF Updates

\* update_session_status: a session becomes active only as the frame says.
LEMMA UpdateKeepsClients ==
    ASSUME HandlerTypeOK, IdsDistinct, ClientInv, NEW t \in Task, UpdateSessionStatus(t),
           UNCHANGED clientState
    PROVE  ClientInv'
<1> USE DEF HandlerTypeOK
<1>1. /\ Elsewhere(t) /\ t \in Client /\ stack[t] # <<>> /\ Top(t) \in UpdateStatusFrames
      /\ UpdateOutcome(t) /\ [TableNext]_tableVars
  BY HandlerUpdateStatus
<1>2. Top(t).at \in MethodLabels
  BY <1>1, StatusLabels DEF MethodLabels
<1>3. Held(t) /\ Marked(t) /\ ActiveBacked
  BY DEF ClientInv
<1>4. ASSUME GoesOnWith(t)
      PROVE  /\ Held(t)' /\ stack'[t] # <<>>
             /\ Top(t)'.id = Top(t).id /\ Top(t)'.status = Top(t).status
             /\ Top(t)'.at \notin {"connected", "use_get"}
  <2>1. /\ stack'[t] # <<>> /\ Below(t)' = Below(t) /\ Top(t)'.id = Top(t).id
        /\ Top(t)'.status = Top(t).status /\ Top(t)' \in UpdateStatusFrames
    BY <1>4 DEF GoesOnWith, Updates
  <2>2. Top(t)'.at \notin {"connected", "use_get"}
    BY <2>1, StatusLabels
  <2> QED
    BY <1>1, <1>3, <2>1, <2>2, GoesOnHeld
<1>9. Top(t).id \in SessionId /\ Top(t).status \in SessionStatus
  BY <1>1 DEF UpdateStatusFrames, StatusGetFrame, StatusFrame, StatusCheckFrame
<1>10. UsesKept /\ CoverKept /\ Covered' = Covered
  <2>1. UNCHANGED sessions \/ SetSessionStatus(Top(t).id, Top(t).status)
    BY <1>1 DEF UpdateOutcome
  <2>2. UsesKept
    BY <1>1, <1>9, <2>1, UsesStay
  <2> QED
    BY <2>2 DEF CoverKept, Covered
<1>5. CASE /\ At(t, "status_get") /\ GoesOnWith(t) /\ Top(t)'.at = "status_update"
           /\ UNCHANGED sessions
  <2>1. Held(t)' /\ Marked(t)'
    <3>1. Connects(t)' <=> Connects(t)
      BY <1>5 DEF GoesOnWith, Connects
    <3>2. Used(Top(t).id) => Used(Top(t).id)'
      <4>1. PICK i : i = Top(t).id
        OBVIOUS
      <4>2. Used(i) => Used(i)' /\ Top(t)'.id = i
        BY <1>4, <1>5, <1>10, <4>1 DEF UsesKept
      <4> QED
        BY <4>1, <4>2 DEF Used
    <3> QED
      BY <1>1, <1>3, <1>4, <1>5, <3>1, <3>2 DEF Marked, Early, At
  <2>2. ASSUME NEW i, Disconnects(t, i) PROVE Disconnects(t, i)'
    BY <1>4, <1>5, <2>2 DEF Disconnects, GoesOnWith, Early
  <2>3. ActiveBacked'
    BY <1>1, <1>3, <1>5, <2>2, <1>10, SameSessions, BackedKept
  <2> QED
    BY <1>1, <1>10, <2>1, <2>3, OthersKept DEF ClientInv
<1>6. CASE /\ At(t, "status_update") /\ GoesOnWith(t) /\ Top(t)'.at \notin Early
           /\ SetSessionStatus(Top(t).id, Top(t).status)
  <2>1. Held(t)' /\ Marked(t)'
    BY <1>4, <1>6 DEF Marked
  <2>2. ASSUME NEW i \in Unused("Active")'
        PROVE  \/ i \in Covered'
               \/ i \in Unused("Active") /\ ~Disconnects(t, i)
    <3>1. CASE i # Top(t).id /\ i \in Unused("Active")
      BY <3>1 DEF Disconnects
    <3>2. CASE i = Top(t).id /\ Top(t).status = "Active" /\ ~Used(Top(t).id)
      <4>1. Connects(t)
        BY <1>1, <1>3, <1>6, <3>2 DEF Marked, At, Early
      <4>2. PICK g \in RequestFrame : g.at = "connected" /\ Below(t) = <<g>>
        BY <4>1 DEF Connects
      <4>3. g.id = Top(t).id
        BY <1>1, <1>6, <4>2, ConnectedId DEF At, Early
      <4>4. g.id \in Covered
        BY <1>1, <1>3, <4>2 DEF Held
      <4> QED
        BY <3>2, <4>3, <4>4 DEF Covered
    <3> QED
      BY <1>6, <1>9, <2>2, <3>1, <3>2, StatusSet
  <2>3. ActiveBacked'
    BY <1>1, <1>3, <2>2, <1>10, BackedKept
  <2> QED
    BY <1>1, <1>10, <2>1, <2>3, OthersKept DEF ClientInv
<1>7. CASE /\ Top(t).at \notin Early /\ GoesOnWith(t) /\ Top(t)'.at \notin Early
           /\ UNCHANGED sessions
  <2>1. Held(t)' /\ Marked(t)'
    BY <1>4, <1>7 DEF Marked
  <2>2. ASSUME NEW i PROVE ~Disconnects(t, i)
    BY <1>7 DEF Disconnects
  <2>3. ActiveBacked'
    BY <1>1, <1>3, <1>7, <2>2, <1>10, SameSessions, BackedKept
  <2> QED
    BY <1>1, <1>10, <2>1, <2>3, OthersKept DEF ClientInv
<1>8. CASE /\ Top(t).at \in Early => Top(t).id \notin Registered
           /\ stack'[t] = Below(t) /\ UNCHANGED sessions
  <2>1. Held(t)' /\ Marked(t)'
    BY <1>1, <1>2, <1>3, <1>8, ReturnKeeps
  <2>2. ASSUME NEW i \in Unused("Active") PROVE ~Disconnects(t, i)
    BY <1>8 DEF Disconnects, Unused, InStatus
  <2>3. ActiveBacked'
    BY <1>1, <1>3, <1>8, <2>2, <1>10, SameSessions, BackedKept
  <2> QED
    BY <1>1, <1>10, <2>1, <2>3, OthersKept DEF ClientInv
<1> QED
  BY <1>1, <1>5, <1>6, <1>7, <1>8 DEF UpdateOutcome

\* The other methods: use_session makes a session active after it has marked it
\* as used; create_session inserts sessions that are not active.
LEMMA MethodsKeepClients ==
    ASSUME HandlerTypeOK, IdsDistinct, ClientInv, Connecting, NEW t \in Task,
           UseSession(t) \/ CloseSession(t) \/ CreateSession(t), UNCHANGED clientState
    PROVE  ClientInv'
<1> USE DEF HandlerTypeOK
<1>1. Held(t) /\ Marked(t) /\ ActiveBacked
  BY DEF ClientInv
<1>6. CoverKept /\ Covered' = Covered
  BY DEF CoverKept, Covered
<1>2. ASSUME stack[t] # <<>>, Top(t).at \notin Early, Elsewhere(t),
             Unused("Active")' \subseteq Unused("Active")
      PROVE  ActiveBacked'
  <2>1. ASSUME NEW i PROVE ~Disconnects(t, i)
    BY <1>2 DEF Disconnects
  <2> QED
    BY <1>1, <1>2, <1>6, <2>1, BackedKept
<1>3. CASE UseSession(t)
  <2>1. /\ Elsewhere(t) /\ t \in Client /\ stack[t] # <<>> /\ Top(t) \in UseFrames
        /\ UseOutcome(t) /\ [TableNext]_tableVars
    BY <1>3, HandlerUse
  <2>2. Top(t).at \in {"use_mark", "use_get"} /\ Top(t).id \in SessionId
    BY <2>1 DEF UseFrames
  <2>3. Unused("Active")' \subseteq Unused("Active")
    BY <2>1, SameSessions, MarkedSession DEF UseOutcome
  <2>6. UsesKept
    BY <2>1, UsesStay DEF UseOutcome
  <2>4. Held(t)' /\ Marked(t)'
    <3>1. CASE /\ MarkSessionUsed(Top(t).id)
               /\ stack'[t] # <<>> /\ Top(t)'.at = "use_get" /\ Top(t)'.id = Top(t).id
               /\ Below(t)' = Below(t)
      <4>1. Used(Top(t).id)'
        <5>4. PICK i : i = Top(t).id
          OBVIOUS
        <5>1. MarkSessionUsed(i)
          BY <3>1, <5>4
        <5>2. Top(t)'.id = i
          BY <3>1, <5>4
        <5>3. Used(i)'
          BY <5>1, MarkedSession
        <5> QED
          BY <5>2, <5>3 DEF Used
      <4>2. Marked(t)'
        BY <3>1, <4>1 DEF Marked, Early
      <4> QED
        BY <1>1, <2>1, <3>1, <4>2, GoesOnHeld
    <3>2. CASE /\ At(t, "use_get") /\ UNCHANGED sessions
               /\ stack'[t] # <<>> /\ Top(t)' = UpdateStatusFrame(Top(t).id, "Active")
               /\ Below(t)' = Below(t)
      <4>1. Top(t)'.at = "status_get" /\ Top(t)'.id = Top(t).id
        BY <2>2, <3>2, CalledFrames DEF SessionStatus
      <4>2. Used(Top(t).id)
        BY <1>1, <2>1, <3>2 DEF Marked, At
      <4>3. Marked(t)'
        <5>1. PICK i : i = Top(t).id
          OBVIOUS
        <5>2. Used(i)' /\ Top(t)'.id = i
          BY <2>6, <4>1, <4>2, <5>1 DEF UsesKept
        <5>3. Used(Top(t).id)'
          BY <5>2 DEF Used
        <5> QED
          BY <3>2, <4>1, <5>3 DEF Marked, Early
      <4> QED
        BY <1>1, <2>1, <3>2, <4>1, <4>3, GoesOnHeld
    <3>3. CASE UNCHANGED sessions /\ stack'[t] = Below(t)
      BY <1>1, <2>1, <2>2, <3>3, ReturnKeeps DEF MethodLabels
    <3> QED
      BY <2>1, <3>1, <3>2, <3>3 DEF UseOutcome
  <2> QED
    BY <1>2, <1>6, <2>6, <2>1, <2>2, <2>3, <2>4, OthersKept DEF ClientInv, Early
<1>4. CASE CloseSession(t)
  <2>1. /\ Elsewhere(t) /\ t \in Client /\ stack[t] # <<>> /\ Top(t) \in CloseFrames
        /\ CloseOutcome(t) /\ [TableNext]_tableVars
    BY <1>4, HandlerClose
  <2>2. Top(t).at \in {"close", "close_pool_remove", "close_unregister", "close_record"}
    BY <2>1, Labels
  <2>3. Unused("Active")' \subseteq Unused("Active")
    BY <2>1, SameSessions, DroppedSession DEF CloseOutcome
  <2>6. UsesKept
    BY <2>1, UsesStay DEF CloseOutcome
  <2>4. CASE stack'[t] = Below(t)
    <3>1. Held(t)' /\ Marked(t)'
      BY <1>1, <2>1, <2>2, <2>4, ReturnKeeps DEF MethodLabels
    <3> QED
      BY <1>2, <1>6, <2>6, <2>1, <2>2, <2>3, <3>1, OthersKept DEF ClientInv, Early
  <2>5. CASE /\ stack'[t] # <<>>
             /\ Top(t)' \in CloseFrames \/ Updates(Top(t)', Top(t)'.id, "Closing")
             /\ \/ Below(t)' = Below(t)
                \/ \E h \in WaitingClose, g \in RequestFrame : Below(t)' = <<h, g>>
    <3>1. /\ Top(t)'.at \notin {"connected", "use_get"}
          /\ Top(t)'.at \in Early => Top(t)'.status = "Closing"
      <4>1. CASE Top(t)' \in CloseFrames
        BY <4>1, Labels DEF Early
      <4>2. CASE Updates(Top(t)', Top(t)'.id, "Closing")
        <5>1. Top(t)' \in UpdateStatusFrames /\ Top(t)'.status = "Closing"
          BY <4>2 DEF Updates
        <5> QED
          BY <5>1, StatusLabels
      <4> QED
        BY <2>5, <4>1, <4>2
    <3>2. Marked(t)'
      BY <3>1 DEF Marked
    <3>3. Held(t)'
      <4>1. CASE Below(t)' = Below(t)
        BY <1>1, <2>1, <3>1, <4>1, GoesOnHeld
      <4>2. ASSUME NEW h, NEW g, Below(t)' = <<h, g>>, NEW k PROVE Below(t)' # <<k>>
        BY <4>2
      <4> QED
        BY <2>5, <3>1, <4>1, <4>2 DEF Held
    <3> QED
      BY <1>2, <1>6, <2>6, <2>1, <2>2, <2>3, <3>2, <3>3, OthersKept DEF ClientInv, Early
  <2> QED
    BY <2>1, <2>4, <2>5 DEF CloseOutcome
<1>5. CASE CreateSession(t)
  <2>1. /\ Elsewhere(t) /\ t \in Client /\ stack[t] # <<>> /\ Top(t) \in CreateFrames
        /\ CreateOutcome(t) /\ [TableNext]_tableVars
    BY <1>5, HandlerCreate
  <2>2. Top(t).at \in {"create_check", "create_insert", "create_record"}
    BY <2>1, Labels
  <2>3. Unused("Active")' \subseteq Unused("Active")
    BY <2>1, SameSessions, InsertedSession DEF CreateOutcome
  <2>6. UsesKept
    BY <2>1, UsesStay DEF CreateOutcome
  <2>4. Held(t)' /\ Marked(t)'
    <3>1. CASE stack'[t] = Below(t)
      BY <1>1, <2>1, <2>2, <3>1, ReturnKeeps DEF MethodLabels
    <3>2. CASE stack'[t] # <<>> /\ Top(t)' \in CreateFrames /\ Below(t)' = Below(t)
      <4>1. Top(t)'.at \in {"create_check", "create_insert", "create_record"}
        BY <3>2, Labels
      <4> QED
        BY <1>1, <2>1, <3>2, <4>1, GoesOnHeld DEF Marked, Early
    <3> QED
      BY <2>1, <3>1, <3>2 DEF CreateOutcome
  <2> QED
    BY <1>2, <1>6, <2>6, <2>1, <2>2, <2>3, <2>4, OthersKept DEF ClientInv, Early
<1> QED
  BY <1>3, <1>4, <1>5

\* The cleanup only takes sessions away.
LEMMA CleanupKeepsClients ==
    ASSUME HandlerTypeOK, IdsDistinct, ClientInv, NEW t \in Task, Cleanup(t), UNCHANGED clientState
    PROVE  ClientInv'
<1> USE DEF HandlerTypeOK
<1>1. Elsewhere(t) /\ CleanupOutcome(t) /\ [TableNext]_tableVars
  BY HandlerCleanup
<1>2. Unused("Active")' \subseteq Unused("Active")
  BY <1>1, SameSessions, DroppedSession DEF CleanupOutcome
<1>3. UsesKept /\ CoverKept
  <2>1. UsesKept
    BY <1>1, UsesStay DEF CleanupOutcome
  <2> QED
    BY <2>1 DEF CoverKept, Covered
<1>4. Held(t)' /\ Marked(t)'
  <2>1. Quiet(t)'
    BY <1>1 DEF CleanupOutcome, Quiet
  <2> QED
    BY <2>1, QuietKept
<1>5. ASSUME NEW i PROVE ~Disconnects(t, i)
  <2>1. CASE Top(t) \in CleanupFrames
    BY <2>1, Labels DEF Disconnects, Early
  <2> QED
    BY <1>1, <2>1 DEF CleanupOutcome, Disconnects
<1>6. ActiveBacked'
  <2>1. Covered' = Covered
    BY DEF Covered
  <2> QED
    BY <1>1, <1>2, <1>5, <2>1, BackedKept DEF ClientInv
<1> QED
  BY <1>1, <1>3, <1>4, <1>6, OthersKept DEF ClientInv

\* The handlers store the client before they ask for the status Active, and ask
\* for the status Idle when they have removed it.
LEMMA HandlersKeepClients ==
    ASSUME HandlerTypeOK, IdsDistinct, ClientInv, NEW t \in Task, stack[t] # <<>>,
           Top(t) \in RequestFrame, Elsewhere(t), UNCHANGED tableVars, HandlerOutcome(t)
    PROVE  ClientInv'
<1> USE DEF HandlerTypeOK
<1>1. ASSUME NEW i PROVE ~Disconnects(t, i)
  BY Labels DEF Disconnects, Early, CreateLabels, ConnectLabels, SessionLabels
<1>2. Unused("Active")' = Unused("Active") /\ UsesKept
  <2>1. UNCHANGED sessions /\ [TableNext]_tableVars
    BY DEF tableVars
  <2> QED
    BY <2>1, SameSessions, UsesStay
<1>3. ActiveBacked' /\ CoverKept
  <2>1. CASE active_clients \subseteq active_clients' /\ UNCHANGED crossed
    <3>1. Covered \subseteq Covered'
      BY <2>1 DEF Covered
    <3> QED
      BY <1>1, <1>2, <3>1, BackedKept DEF ClientInv, CoverKept
  <2>2. CASE /\ Forget(Top(t).id)
             /\ stack'[t] # <<>> /\ Top(t)'.at = "status_get" /\ Top(t)'.id = Top(t).id
             /\ \E g \in SessionRequest : g.at = "disconnected" /\ Below(t)' = <<g>>
    <3>1. Disconnects(t, Top(t).id)'
      <4>1. \E g \in RequestFrame : g.at = "disconnected" /\ Below(t)' = <<g>>
        BY <2>2 DEF RequestFrame
      <4> QED
        BY <2>2, <4>1 DEF Disconnects, Early
    <3>2. ASSUME NEW i \in Covered, i # Top(t).id PROVE i \in Covered'
      BY <2>2, <3>2 DEF Covered, Forget
    <3>3. ASSUME NEW u \in Task, Activating(u, Top(t).id) PROVE Top(t).id \in Covered'
      BY <2>2, <3>3 DEF Covered, Forget
    <3>4. ASSUME NEW i \in Unused("Active")', i \notin Covered'
          PROVE  i \in Covered => Disconnects(t, i)'
      <4>1. CASE i = Top(t).id
        <5>1. Top(t)'.id = i
          BY <2>2, <4>1
        <5> QED
          BY <3>1, <5>1 DEF Disconnects
      <4> QED
        BY <3>2, <3>4, <4>1
    <3>5. ActiveBacked'
      BY <1>1, <1>2, <3>4, BackedKept DEF ClientInv
    <3> QED
      BY <3>2, <3>3, <3>5 DEF CoverKept
  <2> QED
    BY <2>1, <2>2 DEF HandlerOutcome
<1>4. Held(t)' /\ Marked(t)'
  <2>1. CASE stack'[t] = <<>>
    BY <2>1 DEF Held, Marked
  <2>2. CASE /\ stack'[t] # <<>> /\ Below(t)' = <<>>
             /\ Top(t)' \in RequestFrame /\ Top(t)'.at # "connected"
    <3>1. Top(t)'.at \notin {"use_get", "status_get", "status_update"}
      BY <2>2, Labels DEF CreateLabels, ConnectLabels, SessionLabels
    <3>2. ASSUME NEW g PROVE Below(t)' # <<g>>
      BY <2>2
    <3> QED
      BY <2>2, <3>1, <3>2 DEF Held, Marked, Early
  <2>3. ASSUME stack'[t] # <<>>,
               NEW g \in RequestFrame, Below(t)' = <<g>>, Serves(Top(t)', g),
               g.at = "connected" => g.id \in active_clients',
               Top(t)'.at \in Early /\ Top(t)'.status = "Active" => g.at = "connected",
               Top(t)'.at # "use_get"
        PROVE  Held(t)' /\ Marked(t)'
    <3>1. Top(t)'.at # "connected"
      BY <2>3, ServesLabels DEF MethodLabels
    <3>2. ASSUME NEW k, Below(t)' = <<k>> PROVE k = g
      BY <2>3, <3>2
    <3>3. Held(t)'
      BY <2>3, <3>1, <3>2 DEF Held, Covered
    <3>4. g.at = "connected" => Connects(t)'
      BY <2>3 DEF Connects
    <3> QED
      BY <2>3, <3>3, <3>4 DEF Marked
  <2> QED
    BY <2>1, <2>2, <2>3 DEF HandlerOutcome
<1> QED
  BY <1>2, <1>3, <1>4, OthersKept DEF ClientInv

\* Every step keeps the invariant.
LEMMA ClientsKept ==
    ASSUME HandlerTypeOK, IdsDistinct, ClientInv, Connecting, [HandlerNext]_handlerVars
    PROVE  ClientInv'
<1> USE DEF HandlerTypeOK
<1>1. ASSUME NEW t \in Task, HandleRequest(t) PROVE ClientInv'
  <2>1. /\ Elsewhere(t) /\ UNCHANGED <<tableVars, clientState>>
        /\ stack[t] = <<>> /\ stack'[t] # <<>> /\ Below(t)' = <<>>
        /\ Top(t)' \in RequestFrame /\ Top(t)'.at # "connected"
    BY <1>1, RequestBegins
  <2>2. Held(t)' /\ Marked(t)'
    <3>1. Top(t)'.at \notin {"use_get", "status_get", "status_update"}
      BY <2>1, Labels DEF CreateLabels, ConnectLabels, SessionLabels
    <3>2. ASSUME NEW g PROVE Below(t)' # <<g>>
      BY <2>1
    <3> QED
      BY <2>1, <3>1, <3>2 DEF Held, Marked, Early
  <2>3. ASSUME NEW i PROVE ~Disconnects(t, i)
    BY <2>1 DEF Disconnects
  <2>4. UNCHANGED sessions /\ [TableNext]_tableVars /\ Covered' = Covered
    BY <2>1 DEF tableVars, Covered
  <2>5. ActiveBacked'
    BY <2>1, <2>3, <2>4, SameSessions, BackedKept DEF ClientInv
  <2>6. UsesKept /\ CoverKept
    BY <2>4, UsesStay DEF CoverKept
  <2> QED
    BY <2>1, <2>2, <2>5, <2>6, OthersKept DEF ClientInv
<1>2. ASSUME NEW t \in Task,
             HandleCreateSession(t) \/ HandleConnectSession(t)
             \/ HandleDisconnectSession(t) \/ HandleExecuteCommand(t)
      PROVE  ClientInv'
  <2>1. HandlerKeeps(t)
    BY <1>2, HandlerSteps
  <2>2. PICK label \in HandlerLabels : At(t, label)
    BY <1>2 DEF HandleCreateSession, CreateFind, CreateReuse, CreateNew, Created, StoreClient,
       Connected, ConnectFailure, HandleConnectSession, ConnectList, ConnectTry, ConnectUsed,
       HandleDisconnectSession, RemoveClient, Disconnected, HandleExecuteCommand, GetClient,
       Execute, Step, HandlerLabels, CreateLabels, ConnectLabels, SessionLabels
  <2>3. stack[t] # <<>> /\ Top(t) \in RequestFrame
    BY <2>2, RequestPlace
  <2> QED
    BY <2>1, <2>3, HandlersKeepClients DEF HandlerKeeps
<1>3. ASSUME NEW t \in Task, Background(t) PROVE ClientInv'
  BY <1>3, UpdateKeepsClients, MethodsKeepClients, CleanupKeepsClients DEF Background
<1>4. CASE (ManagerClockStep /\ UNCHANGED <<clientState, reply>>) \/ UNCHANGED handlerVars
  <2>1. UNCHANGED <<sessions, issued, registering, stack, clientState>>
    BY <1>4 DEF ManagerClockStep, tableState, handlerVars
  <2> QED
    BY <2>1 DEF ClientInv, ActiveBacked, Unused, InStatus, Registered, Disconnects, Held, Marked,
       Used, Gone, Covered, Connects, Top, Below
<1> QED
  BY <1>1, <1>2, <1>3, <1>4 DEF HandlerNext, HandlerStep

\* The inductive invariant of the map of clients, for any number of clients and
\* cleanup tasks and any configuration.
THEOREM ClientsAlwaysInv == HandlerSpec => []ClientInv
<1>1. HandlerInit => ClientInv
  BY DEF HandlerInit, ManagerInit, TableInit, ClientInv, ActiveBacked, Unused, InStatus,
     Registered, Held, Marked
<1>2. HandlerTypeOK /\ IdsDistinct /\ Connecting /\ ClientInv /\ [HandlerNext]_handlerVars
        => ClientInv'
  BY ClientsKept
<1> QED
  BY <1>1, <1>2, HandlerTypeCorrect, HandlerSessions, HandlerImplementsTable, TableConnecting, PTL
  DEF HandlerSpec

\* Between requests every active session that was never reused has its client
\* connection, or a request to disconnect overtook the one that connected it,
\* whatever clients and cleanup tasks do at the same time.
THEOREM ActiveAlwaysHasClient == HandlerSpec => []ActiveHasClient
<1>1. ClientInv => ActiveHasClient
  BY DEF ClientInv, ActiveBacked, Unused, Disconnects, ActiveHasClient, Quiescent, Covered
<1> QED
  BY <1>1, ClientsAlwaysInv, PTL
=============================================================================
