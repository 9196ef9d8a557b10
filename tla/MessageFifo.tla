---------------------------- MODULE MessageFifo ----------------------------
(***************************************************************************)
(* What a message channel promises its two ends: the messages that send    *)
(* accepted, whole and in order, each received at most once, until the     *)
(* connection is lost.                                                     *)
(***************************************************************************)
EXTENDS Sequences

CONSTANTS Message

VARIABLES
    in_transit,  \* accepted by send and not yet received
    received     \* what receive returned

fifoVars == <<in_transit, received>>

FifoInit == in_transit = <<>> /\ received = <<>>

Accept(m) ==
    /\ in_transit' = Append(in_transit, m)
    /\ UNCHANGED received

Deliver ==
    /\ in_transit # <<>>
    /\ received' = Append(received, Head(in_transit))
    /\ in_transit' = Tail(in_transit)

FifoNext == Deliver \/ \E m \in Message : Accept(m)

FifoSpec == FifoInit /\ [][FifoNext]_fifoVars
=============================================================================
