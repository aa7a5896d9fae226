-------------------------------- MODULE AudioUpload --------------------------------
(* A recording that a phone uploads: AudioAssembler of ale-gui/src/remote_server.rs and
   the three messages of a connection that reach it.  A piece of sound is known by the
   upload it was sent for and by its number, and has a size in bytes. *)
EXTENDS Naturals, Sequences, FiniteSets, SequencesExt

CONSTANTS Uploads,       \* request ids
          Sizes,         \* sizes of a piece: some of whole frames, some not
          MaxChunk,      \* MAX_AUDIO_CHUNK_BYTES
          MaxBytes,      \* one minute of sound
          MaxPieces      \* bound: numbers of pieces, and what a counter of them holds

ASSUME UploadAssumption == Sizes \subseteq Nat /\ {MaxChunk, MaxBytes, MaxPieces} \subseteq Nat

VARIABLES
    upload,    \* active_audio: none, or its id, the next number and the sound so far
    payload    \* the last recording that was taken for a request, and its announcement
uploadVars == <<upload, payload>>

NoUpload == [id |-> 0, next |-> 0, pcm |-> << >>]
BytesPerFrame == 2

Bytes(pcm) ==
    LET sum[n \in 0..Len(pcm)] == IF n = 0 THEN 0 ELSE sum[n - 1] + pcm[n].bytes
    IN sum[Len(pcm)]

UploadInit ==
    /\ upload = NoUpload
    /\ payload = [pcm |-> << >>, frames |-> 0]

\* AudioStart, for a format the desktop takes; one upload at a time.
StartUpload ==
    /\ upload = NoUpload
    /\ \E id \in Uploads : upload' = [NoUpload EXCEPT !.id = id]
    /\ UNCHANGED payload

Pieces == [of : Uploads, number : 0..MaxPieces - 1, bytes : Sizes]

\* A variant: the numbers of the pieces are not looked at.
FitsUnnumbered(piece) ==
    /\ piece.of = upload.id
    /\ piece.bytes \in 1..MaxChunk /\ piece.bytes % BytesPerFrame = 0
    /\ Bytes(upload.pcm) + piece.bytes <= MaxBytes
    /\ upload.next + 1 <= MaxPieces

\* push: the next piece of this upload, of whole frames, that fits the minute.
Fits(piece) ==
    /\ piece.of = upload.id /\ piece.number = upload.next
    /\ piece.bytes \in 1..MaxChunk /\ piece.bytes % BytesPerFrame = 0
    /\ Bytes(upload.pcm) + piece.bytes <= MaxBytes
    /\ upload.next + 1 <= MaxPieces

\* AudioChunk: whatever does not fit ends the upload.
TakePiece ==
    /\ upload # NoUpload
    /\ \E piece \in Pieces :
          upload' = IF Fits(piece)
                    THEN [upload EXCEPT !.next = @ + 1, !.pcm = Append(@, piece)]
                    ELSE NoUpload
    /\ UNCHANGED payload

\* finish: the numbers, the length and the hash of the announcement must be right.
Matches(end) ==
    /\ end.of = upload.id /\ end.chunks = upload.next
    /\ upload.pcm # << >>
    /\ end.frames = Bytes(upload.pcm) \div BytesPerFrame
    /\ end.hashed = upload.pcm

\* AudioEnd: the upload is over, and becomes a request when the announcement is right.
\* The phone announces what it has sent, or leaves out or repeats a piece of it.
Announced ==
    LET pcm == upload.pcm IN
    {pcm, Append(pcm, [of |-> upload.id, number |-> 0, bytes |-> BytesPerFrame])} \cup
    {RemoveAt(pcm, i) : i \in DOMAIN pcm}

EndUpload ==
    /\ upload # NoUpload
    /\ \E id \in Uploads, chunks \in 0..MaxPieces, pcm \in Announced :
          LET end == [of |-> id, chunks |-> chunks, hashed |-> pcm,
                      frames |-> Bytes(pcm) \div BytesPerFrame] IN
          payload' = IF Matches(end) THEN [pcm |-> upload.pcm, frames |-> end.frames]
                     ELSE payload
    /\ upload' = NoUpload

\* CancelRequest, a pause, or the end of the connection.
DropUpload ==
    /\ upload # NoUpload
    /\ upload' = NoUpload
    /\ UNCHANGED payload

UploadNext == StartUpload \/ TakePiece \/ EndUpload \/ DropUpload

--------------------------------------------------------------------------------
\* A recording that becomes a request consists of the pieces of one upload, each once
\* and in the order they were recorded in, of whole frames, and of a minute at most
\* (AudioAssembler::finish).
UploadsAreWhole ==
    LET pcm == payload.pcm IN
    /\ \A i \in DOMAIN pcm : /\ pcm[i].of = pcm[1].of
                             /\ pcm[i].number = i - 1
                             /\ pcm[i].bytes % BytesPerFrame = 0
    /\ Bytes(pcm) <= MaxBytes
    /\ payload.frames * BytesPerFrame = Bytes(pcm)
================================================================================
