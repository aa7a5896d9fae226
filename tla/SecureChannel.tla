----------------------------- MODULE SecureChannel -----------------------------
(* One direction of the secure channel between the phone and the desktop
   (src/ale-gui/src/remote_crypto.rs; send_secure in remote_server.rs): a message
   that does not fit in one encrypted frame is cut into chunks with a header, and
   the receiver puts them together again, or ends the connection.  A payload is its
   length, in units that make the limits small; encryption, which turns any loss
   or change on the way into the end of the connection, is external. *)
EXTENDS Naturals, Sequences

CONSTANTS
    Message,
    Size(_),       \* the length of a message's encoding
    MaxMessage,    \* MAX_SECURE_MESSAGE_BYTES
    MaxPlain,      \* MAX_NOISE_PLAINTEXT
    Header,        \* CHUNK_HEADER_LEN
    Tag,           \* what encryption adds to a plaintext
    Id,            \* the random names of cut messages
    MaxSent        \* bound: messages of one connection

\* Mutant: the header is not counted in the frame.
ChunkSizeAlone == MaxPlain

ChunkSize == MaxPlain - Header

\* MAX_ENCRYPTED_FRAME_BYTES, the limit of the WebSocket's frames and messages too.
MaxFrame == MaxPlain + Tag

ASSUME SecureChannelAssumption ==
    /\ \A message \in Message : Size(message) \in Nat \ {0}
    /\ {MaxMessage, MaxPlain, Header, Tag, MaxSent} \subseteq Nat
    /\ Header < MaxPlain

VARIABLES
    accepted, delivered,
    unsent,      \* the frames of the message that is being sent
    wire,        \* the frames on the way; TCP keeps their order
    incoming,    \* IncomingMessage, or its absence (total = 0)
    lost,        \* the connection ended, or was ended by a message too large
    rejected,    \* ... or by the receiver, which refused a frame
    ids          \* the names that were drawn

channelVars == <<accepted, delivered, unsent, wire, incoming, lost, rejected, ids>>

NoIncoming == [id |-> 0, total |-> 0, next |-> 0, payload |-> 0]

ChannelInit ==
    /\ accepted = << >> /\ delivered = << >>
    /\ unsent = << >> /\ wire = << >>
    /\ incoming = NoIncoming
    /\ lost = FALSE /\ rejected = FALSE /\ ids = {}

Connected == ~lost /\ ~rejected

------------------------------------------------------------------------------
(* The sender. *)

Smaller(a, b) == IF a < b THEN a ELSE b

\* div_ceil of the length by the size of a chunk.
Chunks(length) == (length + ChunkSize - 1) \div ChunkSize

\* The frames of a message: of the chunks, the last holds what is left.
Frames(message, id) ==
    LET length == Size(message)
    IN IF length <= MaxPlain
       THEN <<[cut |-> FALSE, id |-> 0, index |-> 0, total |-> 0, length |-> length,
               of |-> message]>>
       ELSE [i \in 1 .. Chunks(length) |->
                [cut |-> TRUE, id |-> id, index |-> i - 1, total |-> Chunks(length),
                 length |-> Smaller(ChunkSize, length - (i - 1) * ChunkSize),
                 of |-> message]]

\* encrypt_message: a message that is too large is refused, which ends the
\* connection like every error of send_secure.
EncryptMessage(message, id) ==
    /\ Connected /\ unsent = << >> /\ Len(accepted) < MaxSent /\ id \notin ids
    /\ IF Size(message) > MaxMessage
       THEN lost' = TRUE /\ UNCHANGED <<accepted, unsent, ids>>
       ELSE /\ accepted' = Append(accepted, message)
            /\ unsent' = Frames(message, id)
            /\ ids' = ids \union {id}
            /\ UNCHANGED lost
    /\ UNCHANGED <<delivered, wire, incoming, rejected>>

SendFrame ==
    /\ Connected /\ unsent # << >>
    /\ wire' = Append(wire, Head(unsent))
    /\ unsent' = Tail(unsent)
    /\ UNCHANGED <<accepted, delivered, incoming, lost, rejected, ids>>

\* SEND_TIMEOUT, a broken connection, a close by either side.
Break ==
    /\ Connected
    /\ lost' = TRUE
    /\ UNCHANGED <<accepted, delivered, unsent, wire, incoming, rejected, ids>>

------------------------------------------------------------------------------
(* decrypt_frame. *)

Reject == rejected' = TRUE /\ incoming' = NoIncoming /\ UNCHANGED delivered

\* serde_json::from_slice: what is not a whole message is not a message.
Decoded(frame, payload) ==
    IF payload = Size(frame.of)
    THEN delivered' = Append(delivered, frame.of) /\ UNCHANGED rejected
    ELSE rejected' = TRUE /\ UNCHANGED delivered

\* A frame that is not a chunk must not come between chunks.
ReceiveWhole(frame) ==
    IF incoming # NoIncoming \/ frame.length > MaxMessage THEN Reject
    ELSE Decoded(frame, frame.length) /\ UNCHANGED incoming

\* What the chunk is added to: the first one begins a message.
Begun(frame) ==
    IF frame.index = 0 THEN [id |-> frame.id, total |-> frame.total, next |-> 0, payload |-> 0]
    ELSE incoming

InSequence(frame) ==
    /\ frame.total > 0 /\ frame.index < frame.total
    /\ frame.index = 0 <=> incoming = NoIncoming
    /\ Begun(frame).id = frame.id /\ Begun(frame).total = frame.total
    /\ Begun(frame).next = frame.index

ReceiveChunk(frame) ==
    LET payload == Begun(frame).payload + frame.length
    IN IF ~InSequence(frame) \/ payload > MaxMessage THEN Reject
       ELSE IF frame.index + 1 # frame.total
       THEN /\ incoming' = [Begun(frame) EXCEPT !.next = @ + 1, !.payload = payload]
            /\ UNCHANGED <<delivered, rejected>>
       ELSE incoming' = NoIncoming /\ Decoded(frame, payload)

\* The length of a frame on the wire.
Encrypted(frame) == (IF frame.cut THEN Header ELSE 0) + frame.length + Tag

\* The socket and decrypt_frame refuse a frame that is too large before they read it.
DecryptFrame ==
    /\ Connected /\ wire # << >>
    /\ wire' = Tail(wire)
    /\ IF Encrypted(Head(wire)) > MaxFrame THEN Reject
       ELSE IF Head(wire).cut THEN ReceiveChunk(Head(wire)) ELSE ReceiveWhole(Head(wire))
    /\ UNCHANGED <<accepted, unsent, lost, ids>>

ChannelNext ==
    \/ \E message \in Message, id \in Id : EncryptMessage(message, id)
    \/ SendFrame \/ Break \/ DecryptFrame

\* A message that was begun is sent to its end, or the send times out; the
\* receiver reads.  Nobody has to send.
ChannelFairness == WF_channelVars(SendFrame) /\ WF_channelVars(DecryptFrame)

------------------------------------------------------------------------------

Fifo == INSTANCE MessageFifo

\* However messages are cut, up to the limit of their length, they arrive whole,
\* once and in order, and while the connection lasts all of them arrive: no legal
\* message is refused by the other side, for its own length or for that of one of its
\* frames (encrypt_message, decrypt_frame, WebSocketConfig).
ImplementsFifo == Fifo!FifoSpec
=================================================================================
