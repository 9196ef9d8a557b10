-------------------------- MODULE ProcessTransport --------------------------
(***************************************************************************)
(* The transports that run yuha-remote as a child process (client/src/     *)
(* transport/local.rs, wsl.rs and shared.rs), with the loop of that child  *)
(* (remote/src/main.rs) at the other end of the pipes.  A client keeps one *)
(* stream at a time and may connect again; the process it is part of may   *)
(* be killed.  What requests are about is RemoteProtocol's subject.        *)
(***************************************************************************)
EXTENDS Naturals

CONSTANTS
    Child,      \* the processes that are spawned, each once
    MaxAsked,   \* bound on the requests
    NoChild

ASSUME ProcessAssumption == MaxAsked \in Nat /\ NoChild \notin Child

VARIABLES
    alive,      \* whether the client's process lives
    stream,     \* the child whose ProcessStream the client holds, or NoChild
    asking,     \* whether the client waits for a response
    asked,      \* number of requests
    child,      \* child -> "unused", "reading", "handling", "leaving" or "ended"
    stdin,      \* child -> whether there is a request in its pipe
    stdout      \* child -> whether there is a response in its pipe

processVars == <<alive, stream, asking, asked, child, stdin, stdout>>

ProcessInit ==
    /\ alive = TRUE /\ stream = NoChild /\ asking = FALSE /\ asked = 0
    /\ child = [c \in Child |-> "unused"]
    /\ stdin = [c \in Child |-> FALSE] /\ stdout = [c \in Child |-> FALSE]

\* The client's ends of the pipes are closed when nobody holds the stream.
Held(c) == alive /\ stream = c

ChildGoes(c, state) == child' = [child EXCEPT ![c] = state]

-----------------------------------------------------------------------------
(* The client.                                                             *)

\* Drop for ProcessStream: start_kill, which takes effect whatever the child does.
AfterDrop == IF stream = NoChild THEN child ELSE [child EXCEPT ![stream] = "ended"]

\* connect: the command is spawned with pipes of its own; the new stream takes the
\* place of the old one, which is dropped.  A spawn that fails changes nothing.
SpawnChild(c) ==
    /\ alive /\ ~asking /\ child[c] = "unused"
    /\ child' = [AfterDrop EXCEPT ![c] = "reading"]
    /\ stream' = c
    /\ UNCHANGED <<alive, asking, asked, stdin, stdout>>

\* The stream is dropped, also with the future of a request that is under way.
DropStream ==
    /\ alive /\ stream # NoChild
    /\ child' = AfterDrop
    /\ stream' = NoChild /\ asking' = FALSE
    /\ UNCHANGED <<alive, asked, stdin, stdout>>

\* send_request: a write to a child that ended fails.
AskChild ==
    /\ alive /\ ~asking /\ stream # NoChild /\ asked < MaxAsked
    /\ asked' = asked + 1
    /\ IF child[stream] = "ended" THEN UNCHANGED <<asking, stdin>>
       ELSE asking' = TRUE /\ stdin' = [stdin EXCEPT ![stream] = TRUE]
    /\ UNCHANGED <<alive, stream, child, stdout>>

\* The response, or the end of the stream.
ChildAnswers ==
    /\ alive /\ asking
    /\ stdout[stream] \/ child[stream] = "ended"
    /\ asking' = FALSE
    /\ stdout' = [stdout EXCEPT ![stream] = FALSE]
    /\ UNCHANGED <<alive, stream, asked, child, stdin>>

\* The client's process ends without running any destructor.
ClientKilled ==
    /\ alive
    /\ alive' = FALSE /\ asking' = FALSE
    /\ UNCHANGED <<stream, asked, child, stdin, stdout>>

-----------------------------------------------------------------------------
(* The child: run_with_ipc over standard input and output.                 *)
ReadRequest(c) ==
    /\ child[c] = "reading" /\ stdin[c]
    /\ stdin' = [stdin EXCEPT ![c] = FALSE]
    /\ ChildGoes(c, "handling")
    /\ UNCHANGED <<alive, stream, asking, asked, stdout>>

\* Mutation: the loop goes on after an error.
ReadEndAgain(c) ==
    /\ child[c] = "reading" /\ ~stdin[c] /\ ~Held(c)
    /\ UNCHANGED processVars

\* The end of the input is an error of receive_request, which ends the loop.
ReadEnd(c) ==
    /\ child[c] = "reading" /\ ~stdin[c] /\ ~Held(c)
    /\ ChildGoes(c, "leaving")
    /\ UNCHANGED <<alive, stream, asking, asked, stdin, stdout>>

\* send_response fails, and ends the loop, when nobody holds the other end.
WriteResponse(c) ==
    /\ child[c] = "handling"
    /\ IF Held(c) THEN ChildGoes(c, "reading") /\ stdout' = [stdout EXCEPT ![c] = TRUE]
       ELSE ChildGoes(c, "leaving") /\ UNCHANGED stdout
    /\ UNCHANGED <<alive, stream, asking, asked, stdin>>

\* main returns after the loop.
Returns(c) ==
    /\ child[c] = "leaving"
    /\ ChildGoes(c, "ended")
    /\ UNCHANGED <<alive, stream, asking, asked, stdin, stdout>>

ChildStep(c) == ReadRequest(c) \/ ReadEnd(c) \/ WriteResponse(c) \/ Returns(c)

\* A child may also die by itself.
ChildDies(c) ==
    /\ child[c] \in {"reading", "handling"}
    /\ ChildGoes(c, "ended")
    /\ UNCHANGED <<alive, stream, asking, asked, stdin, stdout>>

ProcessNext ==
    \/ DropStream \/ AskChild \/ ChildAnswers \/ ClientKilled
    \/ \E c \in Child : SpawnChild(c) \/ ChildStep(c) \/ ChildDies(c)

\* The child is scheduled, and handling a request ends.
ProcessFairness == \A c \in Child : WF_processVars(ChildStep(c))

ProcessSpec == ProcessInit /\ [][ProcessNext]_processVars /\ ProcessFairness

-----------------------------------------------------------------------------
(* Properties.                                                             *)

\* No child is left behind: one whose stream is held by nobody, because it was
\* dropped or replaced or because the client was killed, comes to its end, also in
\* the middle of a request.
ChildEnds == \A c \in Child : child[c] # "unused" /\ ~Held(c) ~> child[c] = "ended"
=============================================================================
