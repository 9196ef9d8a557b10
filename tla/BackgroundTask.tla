--------------------------- MODULE BackgroundTask ---------------------------
(***************************************************************************)
(* The periodic task that SessionLifecycle starts and stops                *)
(* (core/src/session/lifecycle.rs): a flag behind a mutex, and spawned     *)
(* loops that look at the flag after every tick.  Nothing ties a loop to   *)
(* the start that spawned it: stop only clears the flag.                   *)
(***************************************************************************)
EXTENDS Naturals, FiniteSets

CONSTANTS
    MaxTasks   \* bound on the tasks that are spawned

ASSUME TaskAssumption == MaxTasks \in Nat

VARIABLES
    running,   \* the flag, cleanup_running
    loops      \* spawn number -> where the loop is

taskVars == <<running, loops>>

LoopId == 1..MaxTasks
\* "spawning": start has set the flag and has not spawned the loop yet;
\* "working": the loop found the flag set and runs the callback.
LoopPhase == {"none", "spawning", "ticking", "working", "ended"}

TaskTypeOK ==
    /\ running \in BOOLEAN
    /\ loops \in [LoopId -> LoopPhase]

TaskInit == running = FALSE /\ loops = [n \in LoopId |-> "none"]

Live == {n \in LoopId : loops[n] \in {"spawning", "ticking", "working"}}

\* A start that finds the flag set returns at once.
StartTask(n) ==
    /\ ~running
    /\ loops[n] = "none"
    /\ running' = TRUE
    /\ loops' = [loops EXCEPT ![n] = "spawning"]

SpawnLoop(n) ==
    /\ loops[n] = "spawning"
    /\ loops' = [loops EXCEPT ![n] = "ticking"]
    /\ UNCHANGED running

\* The interval ticks, then the loop locks the flag and looks at it.
LoopChecks(n) ==
    /\ loops[n] = "ticking"
    /\ loops' = [loops EXCEPT ![n] = IF running THEN "working" ELSE "ended"]
    /\ UNCHANGED running

\* Mutation: the loop is left after one round.
LoopWorksOnce(n) ==
    /\ loops[n] = "working"
    /\ loops' = [loops EXCEPT ![n] = "ended"]
    /\ UNCHANGED running

LoopWorks(n) ==
    /\ loops[n] = "working"
    /\ loops' = [loops EXCEPT ![n] = "ticking"]
    /\ UNCHANGED running

StopTask ==
    /\ running
    /\ running' = FALSE
    /\ UNCHANGED loops

LoopStep(n) == SpawnLoop(n) \/ LoopChecks(n) \/ LoopWorks(n)

TaskNext ==
    \/ \E n \in LoopId : StartTask(n) \/ LoopStep(n)
    \/ StopTask

\* The interval keeps ticking and the runtime polls every spawned task.
TaskFairness == \A n \in LoopId : WF_taskVars(LoopStep(n))

TaskSpec == TaskInit /\ [][TaskNext]_taskVars /\ TaskFairness

-----------------------------------------------------------------------------
(* Properties.                                                             *)

\* The flag never promises a loop that is not there: a stop that races with a
\* start leaves either the flag cleared or a live loop behind it.
RunningHasLoop == running => Live # {}

-----------------------------------------------------------------------------
(* What comments of the repository say and this code does not keep: see    *)
(* "Disagreements" in the README.                                          *)

\* There is one cleanup task: the flag keeps a second one from being started.
OneLoop == Cardinality(Live) <= 1
=============================================================================
