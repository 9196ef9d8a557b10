--------------------------- MODULE MessageChannel ---------------------------
(***************************************************************************)
(* The framing of core/src/message_channel.rs over a byte stream: a length *)
(* of two bytes, big endian, then the payload.  The stream hands over its  *)
(* bytes in chunks of any size; a receive that waits for more may be       *)
(* dropped at any time and called again, as the select! of                 *)
(* RemoteServer::run_with_ipc does every 100 ms.                           *)
(*                                                                         *)
(* A byte is a number below Base (256 in the code).                        *)
(***************************************************************************)
EXTENDS Naturals, Sequences, SequencesExt, FiniteSets

CONSTANTS
    Base,         \* number of values of a byte
    Payloads,     \* the payloads that are sent
    MaxMessages   \* bound on the calls of send

Byte == 0..(Base - 1)

ASSUME ChannelAssumption ==
    /\ Base \in Nat \ {0, 1} /\ MaxMessages \in Nat
    /\ Payloads \subseteq Seq(Byte)

VARIABLES
    sends,        \* number of calls of send so far
    accepted,     \* payloads that send did not refuse
    writing,      \* bytes that send has still to write
    wire,         \* bytes written and not yet read
    read_buffer,
    receiving,    \* whether a receive is pending
    received,     \* what receive returned
    open          \* the stream: FALSE once it is closed or broken

channelVars == <<sends, accepted, writing, wire, read_buffer, receiving, received, open>>

MaxPayload == Base * Base - 1   \* u16::MAX

ChannelTypeOK ==
    /\ sends \in 0..MaxMessages
    /\ {accepted, received} \subseteq Seq(Payloads)
    /\ {writing, wire, read_buffer} \subseteq Seq(Byte)
    /\ receiving \in BOOLEAN /\ open \in BOOLEAN

ChannelInit ==
    /\ sends = 0 /\ accepted = <<>> /\ received = <<>>
    /\ writing = <<>> /\ wire = <<>> /\ read_buffer = <<>>
    /\ receiving = FALSE /\ open = TRUE

\* write_u16
Header(n) == <<n \div Base, n % Base>>

Frame(payload) == Header(Len(payload)) \o payload

\* Mutation: the limit is not checked, and the length is cut to two bytes.
SendUnchecked(payload) ==
    /\ open /\ writing = <<>> /\ sends < MaxMessages
    /\ sends' = sends + 1
    /\ writing' = Header(Len(payload) % (Base * Base)) \o payload
    /\ accepted' = Append(accepted, payload)
    /\ UNCHANGED <<wire, read_buffer, receiving, received, open>>

\* A payload that is too long is refused before anything is written.
Send(payload) ==
    /\ open /\ writing = <<>> /\ sends < MaxMessages
    /\ sends' = sends + 1
    /\ IF Len(payload) > MaxPayload
       THEN UNCHANGED <<writing, accepted>>
       ELSE writing' = Frame(payload) /\ accepted' = Append(accepted, payload)
    /\ UNCHANGED <<wire, read_buffer, receiving, received, open>>

\* write_u16, write_all and flush: the stream takes some of the bytes.
WriteSome(n) ==
    /\ open /\ n \in 1..Len(writing)
    /\ wire' = wire \o SubSeq(writing, 1, n)
    /\ writing' = SubSeq(writing, n + 1, Len(writing))
    /\ UNCHANGED <<sends, accepted, read_buffer, receiving, received, open>>

Close ==
    /\ open
    /\ open' = FALSE
    /\ UNCHANGED <<sends, accepted, writing, wire, read_buffer, receiving, received>>

-----------------------------------------------------------------------------
\* receive is called, by receive_request or by receive_response.
Receive ==
    /\ ~receiving
    /\ receiving' = TRUE
    /\ UNCHANGED <<sends, accepted, writing, wire, read_buffer, received, open>>

PayloadLen == read_buffer[1] * Base + read_buffer[2]

\* Mutation: a message is taken only when the next one has begun.
CompleteStrictly == Len(read_buffer) >= 2 /\ Len(read_buffer) > 2 + PayloadLen

Complete == Len(read_buffer) >= 2 /\ Len(read_buffer) >= 2 + PayloadLen

\* receive_binary finds a whole message in its buffer.
TakeFrame ==
    /\ receiving /\ Complete
    /\ received' = Append(received, SubSeq(read_buffer, 3, 2 + PayloadLen))
    /\ read_buffer' = SubSeq(read_buffer, 3 + PayloadLen, Len(read_buffer))
    /\ receiving' = FALSE
    /\ UNCHANGED <<sends, accepted, writing, wire, open>>

\* read_buf appends what the stream has.
ReadSome(n) ==
    /\ receiving /\ ~Complete
    /\ n \in 1..Len(wire)
    /\ read_buffer' = read_buffer \o SubSeq(wire, 1, n)
    /\ wire' = SubSeq(wire, n + 1, Len(wire))
    /\ UNCHANGED <<sends, accepted, writing, receiving, received, open>>

\* read_buf returns 0: ChannelClosed.
ReadEof ==
    /\ receiving /\ ~Complete
    /\ ~open /\ wire = <<>>
    /\ receiving' = FALSE
    /\ UNCHANGED <<sends, accepted, writing, wire, read_buffer, received, open>>

\* Mutation: the buffer belongs to the call of receive.
CancelForgets ==
    /\ receiving /\ ~Complete
    /\ receiving' = FALSE
    /\ read_buffer' = <<>>
    /\ UNCHANGED <<sends, accepted, writing, wire, received, open>>

\* The future is dropped while it waits in read_buf.
CancelReceive ==
    /\ receiving /\ ~Complete
    /\ receiving' = FALSE
    /\ UNCHANGED <<sends, accepted, writing, wire, read_buffer, received, open>>

WriteStep == \E n \in 1..Len(writing) : WriteSome(n)
ReadStep == Receive \/ TakeFrame \/ \E n \in 1..Len(wire) : ReadSome(n)

ChannelNext ==
    \/ \E payload \in Payloads : Send(payload)
    \/ WriteStep \/ ReadStep
    \/ ReadEof \/ CancelReceive \/ Close

\* Both ends are polled, and the reader calls receive again while there is
\* something to read.  A receive may be dropped before its first bytes come, again
\* and again; once there are bytes its first poll takes them, so it cannot miss
\* them forever.
ChannelFairness ==
    /\ WF_channelVars(WriteStep)
    /\ WF_channelVars(Receive /\ read_buffer \o wire # <<>>) /\ WF_channelVars(TakeFrame)
    /\ SF_channelVars(\E n \in 1..Len(wire) : ReadSome(n))

ChannelSpec == ChannelInit /\ [][ChannelNext]_channelVars /\ ChannelFairness

-----------------------------------------------------------------------------
(* Properties.                                                             *)

Encoded(messages) == FlattenSeq([n \in DOMAIN messages |-> Frame(messages[n])])

\* However the stream cuts the frames and wherever a receive is dropped, the
\* bytes that are not yet a received message are those of the messages after it.
FramesAligned ==
    Encoded(received) \o read_buffer \o wire \o writing = Encoded(accepted)

\* Every message whose send was accepted is received, unless the stream closes.
SentIsReceived ==
    \A n \in 1..MaxMessages : Len(accepted) >= n ~> Len(received) >= n \/ ~open

\* The channel is a queue of whole messages.
Fifo == INSTANCE MessageFifo WITH
    Message <- Payloads,
    in_transit <- SubSeq(accepted, Len(received) + 1, Len(accepted))
ImplementsFifo == Fifo!FifoSpec
=============================================================================
