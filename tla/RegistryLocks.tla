--------------------------- MODULE RegistryLocks ---------------------------
(***************************************************************************)
(* The order in which the registry's operations take its three RwLocks     *)
(* (core/src/session/registry.rs).  The data behind the locks is left out: *)
(* see SessionRegistry.                                                    *)
(*                                                                         *)
(* tokio::sync::RwLock is fair: requests are granted in the order in which *)
(* they were made, so a reader waits behind a writer that waits before it. *)
(***************************************************************************)
EXTENDS Naturals, Sequences, SequencesExt

CONSTANTS
    User,     \* tasks that use the registry concurrently
    Ops       \* the operations they call

Locks == {"sessions", "name_index", "connection_index"}

Read(l) == [do |-> "read", lock |-> l]
Write(l) == [do |-> "write", lock |-> l]
Drop(l) == [do |-> "drop", lock |-> l]

\* One critical section on its own.
Alone(step) == <<step, Drop(step.lock)>>

(* What each operation does with the locks when it takes its longest path. *)
RegisterLocks ==
    <<Read("sessions"), Read("name_index"), Drop("name_index"), Drop("sessions")>>
    \o Alone(Write("sessions")) \o Alone(Write("name_index")) \o Alone(Write("connection_index"))

UnregisterLocks ==
    Alone(Write("sessions")) \o Alone(Write("name_index")) \o Alone(Write("connection_index"))

UpdateLocks ==
    <<Write("sessions")>> \o Alone(Write("connection_index")) \o Alone(Write("name_index"))
    \o <<Drop("sessions")>>

ListByNameLocks ==
    <<Read("name_index"), Read("sessions"), Drop("sessions"), Drop("name_index")>>

ListByConnectionKeyLocks ==
    <<Read("connection_index"), Read("sessions"), Drop("sessions"), Drop("connection_index")>>

\* Mutation: clear takes the map's lock last.
ClearLocksReversed ==
    <<Write("connection_index"), Write("name_index"), Write("sessions"),
      Drop("connection_index"), Drop("name_index"), Drop("sessions")>>

ClearLocks ==
    <<Write("sessions"), Write("name_index"), Write("connection_index"),
      Drop("connection_index"), Drop("name_index"), Drop("sessions")>>

Program ==
    [register |-> RegisterLocks,
     unregister |-> UnregisterLocks,
     get |-> Alone(Read("sessions")),
     update_status |-> Alone(Write("sessions")),
     update |-> UpdateLocks,
     list_by_name |-> ListByNameLocks,
     list_by_connection_key |-> ListByConnectionKeyLocks,
     clear |-> ClearLocks]

ASSUME LockAssumption == Ops \subseteq DOMAIN Program

VARIABLES
    todo,      \* caller -> the lock steps left of its operation
    holders,   \* lock -> the requests it has granted
    waiters    \* lock -> the requests waiting for it, oldest first

lockVars == <<todo, holders, waiters>>

LockInit ==
    /\ todo = [c \in User |-> <<>>]
    /\ holders = [l \in Locks |-> {}]
    /\ waiters = [l \in Locks |-> <<>>]

Waiting(c) == \E l \in Locks : \E r \in ToSet(waiters[l]) : r.who = c

Call(c, op) ==
    /\ todo[c] = <<>>
    /\ todo' = [todo EXCEPT ![c] = Program[op]]
    /\ UNCHANGED <<holders, waiters>>

\* .read() or .write(): queue up.
Ask(c) ==
    /\ todo[c] # <<>> /\ Head(todo[c]).do # "drop" /\ ~Waiting(c)
    /\ waiters' = [waiters EXCEPT ![Head(todo[c]).lock] =
                      Append(@, [who |-> c, do |-> Head(todo[c]).do])]
    /\ UNCHANGED <<todo, holders>>

\* The oldest request is granted as soon as the holders allow it.
CanGrant(l) ==
    /\ waiters[l] # <<>>
    /\ IF Head(waiters[l]).do = "write" THEN holders[l] = {}
       ELSE \A h \in holders[l] : h.do = "read"

Grant(l) ==
    /\ CanGrant(l)
    /\ holders' = [holders EXCEPT ![l] = @ \cup {Head(waiters[l])}]
    /\ waiters' = [waiters EXCEPT ![l] = Tail(@)]
    /\ todo' = [todo EXCEPT ![Head(waiters[l]).who] = Tail(@)]

\* The guard goes out of scope.
Release(c) ==
    /\ todo[c] # <<>> /\ Head(todo[c]).do = "drop"
    /\ holders' = [holders EXCEPT ![Head(todo[c]).lock] = {h \in @ : h.who # c}]
    /\ todo' = [todo EXCEPT ![c] = Tail(@)]
    /\ UNCHANGED waiters

LockNext ==
    \/ \E c \in User, op \in Ops : Call(c, op)
    \/ \E c \in User : Ask(c) \/ Release(c)
    \/ \E l \in Locks : Grant(l)

\* The runtime polls every task that can go on, and a lock that becomes free
\* wakes its oldest waiter.
LockFairness ==
    /\ \A c \in User : WF_lockVars(Ask(c)) /\ WF_lockVars(Release(c))
    /\ \A l \in Locks : WF_lockVars(Grant(l))

LockSpec == LockInit /\ [][LockNext]_lockVars /\ LockFairness

-----------------------------------------------------------------------------
(* Properties.                                                             *)

\* Every call of a registry operation returns.
CallsReturn == \A c \in User : todo[c] # <<>> ~> todo[c] = <<>>
=============================================================================
