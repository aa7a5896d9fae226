------------------------------ MODULE MessageFifo ------------------------------
(* What a secure channel promises in each direction: the messages that were
   accepted arrive whole, once and in their order, until the connection ends; and
   all of them arrive if it does not. *)
EXTENDS Naturals, Sequences

CONSTANTS Message, MaxSent

VARIABLES
    accepted,    \* the messages the sender was not refused
    delivered,   \* the messages the receiver was given
    lost         \* has the connection ended?

fifoVars == <<accepted, delivered, lost>>

FifoInit == accepted = << >> /\ delivered = << >> /\ lost = FALSE

AcceptMessage(message) ==
    /\ ~lost /\ Len(accepted) < MaxSent
    /\ accepted' = Append(accepted, message)
    /\ UNCHANGED <<delivered, lost>>

Deliver ==
    /\ ~lost /\ Len(delivered) < Len(accepted)
    /\ delivered' = Append(delivered, accepted[Len(delivered) + 1])
    /\ UNCHANGED <<accepted, lost>>

Lose == ~lost /\ lost' = TRUE /\ UNCHANGED <<accepted, delivered>>

FifoNext == (\E message \in Message : AcceptMessage(message)) \/ Deliver \/ Lose

FifoSpec == FifoInit /\ [][FifoNext]_fifoVars /\ WF_fifoVars(Deliver)
=================================================================================
