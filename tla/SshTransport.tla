---------------------------- MODULE SshTransport ----------------------------
(***************************************************************************)
(* The SSH transport (client/src/transport/ssh.rs): how it uploads the     *)
(* remote binary and starts it, and the byte stream it makes of the        *)
(* connection, for the connections that one process makes to one host.     *)
(*                                                                         *)
(* Each part of the binary is sent as a shell command on a channel of its  *)
(* own, with no reply wanted and no exit status awaited: the SSH server    *)
(* starts the commands in order and runs them side by side.  All           *)
(* connections upload to the same file, whose name is made of the client's *)
(* process id.  A command that fails does so unnoticed.  The data of all channels of a connection comes to one      *)
(* handler, which does not look at the channel.                            *)
(*                                                                         *)
(* The parts of the binary are numbers; a datum is a pair of the command   *)
(* that wrote it and its number.  A connect that fails on the way is one   *)
(* that sends no more commands.                                            *)
(***************************************************************************)
EXTENDS Naturals, Sequences, SequencesExt

CONSTANTS
    Connection,   \* the connections of the process to the host
    MaxChunks,    \* bound on the number of parts of the binary
    MaxOutput,    \* bound on the messages the remote processes write
    MaxMessage,   \* bound on the size of a message
    MaxRead       \* bound on the size of the caller's buffer

ASSUME SshAssumption ==
    /\ MaxChunks \in Nat \ {0}
    /\ MaxOutput \in Nat /\ MaxMessage \in Nat \ {0} /\ MaxRead \in Nat \ {0}

VARIABLES
    upload,      \* connection -> auto_upload_binary
    chunks,      \* number of parts of the binary; one part is sent by the short form
    sent,        \* connection -> number of commands sent
    command,     \* connection -> command -> "none", "started", "open" (it has the file open
                 \* for writing) or "done"
    file,        \* the parts in the remote file
    mode,        \* "none" as long as there is no file, then "plain" or "executable"
    remote,      \* connection -> <<>>, then <<f>> where f is the file that was run as
                 \* the remote process: a sequence of parts, empty when not executable
    overlap,     \* connections that sent a command while an earlier one was running
    disturbed,   \* connections one of whose commands failed, or whose upload another
                 \* connection got in the way of
    written,     \* connection -> what its remote process wrote, in messages
    queue,       \* connection -> the handler's channel to the adapter
    read_buf,    \* connection -> the rest of the last message
    consumed     \* connection -> what poll_read has returned

connectVars == <<upload, chunks>>
fileVars == <<file, mode, disturbed>>
uploadVars == <<connectVars, fileVars, sent, command, remote, overlap>>
streamVars == <<written, queue, read_buf, consumed>>
sshVars == <<connectVars, fileVars, sent, command, remote, overlap,
             written, queue, read_buf, consumed>>

\* Mutation: the loop over the remaining chunks leaves out the first of them.
ScriptSkipsChunk(c) ==
    (IF ~upload[c] THEN <<>>
     ELSE IF chunks = 1 THEN <<[do |-> "write_all", part |-> 1]>>
     ELSE <<[do |-> "create", part |-> 1]>>
          \o [n \in 1..(chunks - 2) |-> [do |-> "append", part |-> n + 2]]
          \o <<[do |-> "chmod", part |-> 0]>>)
    \o <<[do |-> "run", part |-> 0]>>

\* The commands, in the order in which connect sends them.
Script(c) ==
    (IF ~upload[c] THEN <<>>
     ELSE IF chunks = 1 THEN <<[do |-> "write_all", part |-> 1]>>
     ELSE <<[do |-> "create", part |-> 1]>>
          \o [n \in 1..(chunks - 1) |-> [do |-> "append", part |-> n + 1]]
          \o <<[do |-> "chmod", part |-> 0]>>)
    \o <<[do |-> "run", part |-> 0]>>

Binary == [n \in 1..chunks |-> n]

\* The long form is for more than two chunks (128 and 64 KiB in the code).
SshInit ==
    /\ upload \in [Connection -> BOOLEAN] /\ chunks \in {1} \cup 3..MaxChunks
    /\ sent = [c \in Connection |-> 0]
    /\ command = [c \in Connection |-> [n \in DOMAIN Script(c) |-> "none"]]
    /\ file = <<>> /\ mode = "none" /\ overlap = {} /\ disturbed = {}
    /\ remote = [c \in Connection |-> <<>>]
    /\ written = [c \in Connection |-> <<>>]
    /\ queue = [c \in Connection |-> <<>>]
    /\ read_buf = [c \in Connection |-> <<>>]
    /\ consumed = [c \in Connection |-> <<>>]

-----------------------------------------------------------------------------
(* connect and transfer_binary_to_remote                                   *)
Unfinished(c) == {n \in DOMAIN Script(c) : command[c][n] \in {"started", "open"}}

\* channel_open_session and exec, which does not wait for the command.
SendCommand(c) ==
    /\ sent[c] < Len(Script(c))
    /\ sent' = [sent EXCEPT ![c] = @ + 1]
    /\ overlap' = IF Unfinished(c) = {} THEN overlap ELSE overlap \cup {c}
    /\ command' = [command EXCEPT ![c][sent[c] + 1] = "started"]
    /\ UNCHANGED <<connectVars, fileVars, remote, streamVars>>

\* MyHandler::data
HandlerData(c, message) ==
    /\ queue' = [queue EXCEPT ![c] = Append(@, message)]
    /\ UNCHANGED <<read_buf, consumed>>

-----------------------------------------------------------------------------
(* The shells that the SSH server runs.                                    *)
Runs(c, n, do) == command[c][n] = "started" /\ Script(c)[n].do \in do

Finish(c, n) ==
    /\ command' = [command EXCEPT ![c][n] = "done"]
    /\ UNCHANGED <<connectVars, sent, overlap>>

\* Every other connection between its first command and its start is disturbed.
Disturb(c) ==
    disturbed' = disturbed \cup
        {d \in Connection \ {c} : upload[d] /\ sent[d] > 0 /\ remote[d] = <<>>}

\* A shell has the file open for writing: it cannot be run.
BeingWritten == \E d \in Connection : \E n \in DOMAIN Script(d) : command[d][n] = "open"

\* The shell opens the file, which truncates it unless base64 is to append.
OpenFile(c, n) ==
    /\ Runs(c, n, {"create", "write_all", "append"})
    /\ file' = IF Script(c)[n].do = "append" THEN file ELSE <<>>
    /\ mode' = IF mode = "none" THEN "plain" ELSE mode
    /\ command' = [command EXCEPT ![c][n] = "open"]
    /\ Disturb(c)
    /\ UNCHANGED <<connectVars, sent, overlap, remote, streamVars>>

Writes(c, n, do) == command[c][n] = "open" /\ Script(c)[n].do \in do

\* The part goes to the start of the file, over anything appended meanwhile.  The
\* short form also sets the permissions and says that it is done.
WriteFirst(c, n) ==
    /\ Writes(c, n, {"create", "write_all"})
    /\ file' = <<Script(c)[n].part>> \o SubSeq(file, 2, Len(file))
    /\ Finish(c, n) /\ Disturb(c)
    /\ IF Script(c)[n].do = "write_all"
       THEN mode' = "executable" /\ HandlerData(c, <<[from |-> n, datum |-> 0]>>)
       ELSE UNCHANGED <<mode, queue, read_buf, consumed>>
    /\ UNCHANGED <<remote, written>>

AppendPart(c, n) ==
    /\ Writes(c, n, {"append"})
    /\ file' = Append(file, Script(c)[n].part)
    /\ Finish(c, n) /\ Disturb(c)
    /\ UNCHANGED <<mode, remote, streamVars>>

Chmod(c, n) ==
    /\ Runs(c, n, {"chmod"}) /\ mode # "none"
    /\ mode' = "executable"
    /\ Finish(c, n)
    /\ UNCHANGED <<file, disturbed, remote, streamVars>>

\* The shell runs the file it finds, whatever is in it by now; without an upload
\* that is the one that is installed.
RunRemote(c, n) ==
    /\ Runs(c, n, {"run"}) /\ (upload[c] => ~BeingWritten)
    /\ remote' = [remote EXCEPT ![c] =
                    <<IF ~upload[c] THEN Binary ELSE IF mode = "executable" THEN file ELSE <<>> >>]
    /\ Finish(c, n)
    /\ UNCHANGED <<fileVars, streamVars>>

\* Any command may fail at any point: the file is being run, being written or not
\* there, the disk is full.  connect does not look at the exit status.
CommandFails(c, n) ==
    /\ command[c][n] \in {"started", "open"}
    /\ remote' = IF Script(c)[n].do = "run" THEN [remote EXCEPT ![c] = << <<>> >>] ELSE remote
    /\ Finish(c, n)
    /\ disturbed' = disturbed \cup {c}
    /\ UNCHANGED <<file, mode, streamVars>>

Messages == FoldFunction(LAMBDA w, n : Len(w) + n, 0, written)

\* The remote process writes, when it is the right one.
RemoteOutput(c, size) ==
    LET datum == [from |-> Len(Script(c)), datum |-> Len(written[c]) + 1]
        message == [k \in 1..size |-> datum]
    IN
    /\ remote[c] = <<Binary>> /\ Messages < MaxOutput
    /\ written' = [written EXCEPT ![c] = Append(@, message)]
    /\ HandlerData(c, message)
    /\ UNCHANGED uploadVars

-----------------------------------------------------------------------------
(* SshChannelAdapter                                                       *)
First(s, n) == SubSeq(s, 1, IF n < Len(s) THEN n ELSE Len(s))
Rest(s, n) == SubSeq(s, n + 1, Len(s))

\* poll_read with room for n: first what the last message left over ...
ReadBuffered(c, n) ==
    /\ read_buf[c] # <<>>
    /\ consumed' = [consumed EXCEPT ![c] = @ \o First(read_buf[c], n)]
    /\ read_buf' = [read_buf EXCEPT ![c] = Rest(@, n)]
    /\ UNCHANGED <<uploadVars, written, queue>>

\* Mutation: the next message is taken although there is something left over.
ReadQueuedFirst(c, n) ==
    /\ queue[c] # <<>>
    /\ consumed' = [consumed EXCEPT ![c] = @ \o First(Head(queue[c]), n)]
    /\ read_buf' = [read_buf EXCEPT ![c] = @ \o Rest(Head(queue[c]), n)]
    /\ queue' = [queue EXCEPT ![c] = Tail(@)]
    /\ UNCHANGED <<uploadVars, written>>

\* ... then the next message.
ReadQueued(c, n) ==
    /\ read_buf[c] = <<>> /\ queue[c] # <<>>
    /\ consumed' = [consumed EXCEPT ![c] = @ \o First(Head(queue[c]), n)]
    /\ read_buf' = [read_buf EXCEPT ![c] = Rest(Head(queue[c]), n)]
    /\ queue' = [queue EXCEPT ![c] = Tail(@)]
    /\ UNCHANGED <<uploadVars, written>>

PollRead(c) == \E n \in 1..MaxRead : ReadBuffered(c, n) \/ ReadQueued(c, n)

ServerStep(c, n) ==
    \/ OpenFile(c, n) \/ WriteFirst(c, n) \/ AppendPart(c, n) \/ Chmod(c, n)
    \/ RunRemote(c, n) \/ CommandFails(c, n)

SshNext ==
    \E c \in Connection :
        \/ SendCommand(c) \/ PollRead(c)
        \/ \E n \in DOMAIN Script(c) : ServerStep(c, n)
        \/ \E size \in 1..MaxMessage : RemoteOutput(c, size)

SshSpec == SshInit /\ [][SshNext]_sshVars

-----------------------------------------------------------------------------
(* Properties.                                                             *)

\* Whatever the sizes of the messages and of the caller's buffers, the adapter is
\* the byte stream of the remote process and of no other command: what it returned,
\* what it keeps and what is queued is what the process wrote, in that order.  (The
\* short form of the upload writes to the same stream when it is done.)
StreamIsRemotes ==
    \A c \in Connection : ~(upload[c] /\ chunks = 1) =>
        consumed[c] \o read_buf[c] \o FlattenSeq(queue[c]) = FlattenSeq(written[c])

\* If every command of a connection succeeds, and ends before the next one is sent,
\* and no other connection writes to the file before the process is started, the
\* process is started from the whole binary.
SerialUploadRuns ==
    \A c \in Connection : remote[c] # <<>> /\ c \notin overlap \cup disturbed
                          => remote[c] = <<Binary>>

-----------------------------------------------------------------------------
(* What comments of the repository say and this code does not keep: see    *)
(* "Disagreements" in the README.                                          *)

\* The remote process is started from the binary that was transferred.
RunsBinary == \A c \in Connection : remote[c] # <<>> => remote[c] = <<Binary>>

\* The path of an upload is a connection's own: a connection that waits for each
\* of its commands runs what it uploaded.
UniquePath ==
    \A c \in Connection : remote[c] # <<>> /\ c \notin overlap => remote[c] = <<Binary>>

\* The stream is that of the channel on which the remote process runs.
OnlyRemoteData ==
    \A c \in Connection : \A n \in DOMAIN consumed[c] : consumed[c][n].from = Len(Script(c))
=============================================================================
