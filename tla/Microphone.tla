-------------------------------- MODULE Microphone --------------------------------
(* The desktop's own recorder (ale-gui/src/audio.rs): buffers of the sound device are
   brought to 16 kHz and kept in a ring, which a listener reads piece by piece; and the
   detector that tells when somebody speaks (ale-core/src/vad.rs).  A sample is known by
   its number, and a position between two samples by a number of parts of one. *)
EXTENDS Integers, Sequences

CONSTANTS Steps,         \* the device's rates: parts of a sample between two outputs
          Parts,         \* parts of a sample
          BufferSizes,   \* samples in a buffer of the device
          Capacity,      \* samples of the ring; a minute in the code
          MaxInput,      \* bound: samples of the device
          StartFrames,   \* frames of speech before somebody is taken to speak
          EndFrames,     \* frames of silence before the speech is taken to be over
          MaxFrames      \* bound: frames

ASSUME MicrophoneAssumption ==
    /\ Steps \subseteq Nat \ {0} /\ BufferSizes \subseteq Nat
    /\ {Parts, StartFrames, EndFrames} \subseteq Nat \ {0}
    /\ Capacity \in Nat

VARIABLES
    resampler,  \* step, position, the samples that wait and how many are gone
    ring,       \* the outputs in the ring, and the numbers of the first and the next
    listener,   \* the cursor, what the last read returned, where it began
    voice       \* the detector's state and counters, and the frames so far
microphoneVars == <<resampler, ring, listener, voice>>

MicrophoneInit ==
    /\ resampler \in [step : Steps, at : {0}, waiting : {0}, gone : {0}]
    /\ ring = [samples |-> << >>, first |-> 0, next |-> 0]
    /\ listener = [cursor |-> 0, heard |-> << >>, from |-> 0]
    /\ voice = [state |-> "silent", speech |-> 0, silence |-> 0, frames |-> << >>]

Lesser(a, b) == IF a < b THEN a ELSE b

\* The positions of the outputs that a buffer completes: between two samples that are
\* there (InputNormalizer::push_interleaved).
Outputs(r, waiting) ==
    LET n == CHOOSE n \in 0..Parts * waiting :
                /\ r.at + n * r.step + Parts >= waiting * Parts
                /\ n > 0 => r.at + (n - 1) * r.step + Parts < waiting * Parts
    IN [k \in 1..n |-> r.gone * Parts + r.at + (k - 1) * r.step]

\* SampleBuffer::push: the oldest make room.
Stored(samples, new) ==
    LET all == samples \o new
        excess == IF Len(all) > Capacity THEN Len(all) - Capacity ELSE 0
    IN [samples |-> SubSeq(all, excess + 1, Len(all)), first |-> ring.first + excess,
        next |-> ring.next + Len(new)]

\* A buffer of the device; the samples that no later output needs are dropped.
PushBuffer ==
    /\ \E size \in BufferSizes :
          LET waiting == resampler.waiting + size
              out == Outputs(resampler, waiting)
              at == resampler.at + Len(out) * resampler.step
              used == IF waiting = 0 THEN 0 ELSE Lesser(at \div Parts, waiting - 1) IN
          /\ resampler.gone + waiting <= MaxInput
          /\ resampler' = [resampler EXCEPT !.at = at - used * Parts,
                               !.waiting = waiting - used, !.gone = @ + used]
          /\ ring' = Stored(ring.samples, out)
    /\ UNCHANGED <<listener, voice>>

\* SampleBuffer::samples_since.
Listen ==
    /\ LET from == IF listener.cursor < ring.first THEN ring.first
                   ELSE listener.cursor IN
       listener' = [cursor |-> ring.next, from |-> from,
                    heard |-> SubSeq(ring.samples, from - ring.first + 1,
                                     Len(ring.samples))]
    /\ UNCHANGED <<resampler, ring, voice>>

--------------------------------------------------------------------------------
(* VoiceActivityDetector::process_frame. *)

Heard(v, speech) ==
    CASE v.state = "silent" /\ speech ->
            [v EXCEPT !.speech = @ + 1, !.silence = 0,
                      !.state = IF v.speech + 1 >= StartFrames THEN "speaking" ELSE @]
      [] v.state = "silent" /\ ~speech -> [v EXCEPT !.speech = 0]
      [] v.state = "speaking" /\ speech -> [v EXCEPT !.silence = 0]
      [] v.state = "speaking" /\ ~speech ->
            [v EXCEPT !.silence = @ + 1,
                      !.state = IF v.silence + 1 >= EndFrames THEN "ended" ELSE @]
      [] v.state = "ended" -> [v EXCEPT !.state = "silent", !.speech = 0, !.silence = 0]

HearFrame ==
    /\ Len(voice.frames) < MaxFrames
    /\ \E speech \in BOOLEAN :
          LET v == Heard(voice, speech) IN
          voice' = [v EXCEPT !.frames =
                        Append(@, [speech |-> speech, state |-> v.state])]
    /\ UNCHANGED <<resampler, ring, listener>>

SamplerNext == PushBuffer \/ Listen
MicrophoneNext == SamplerNext \/ HearFrame

--------------------------------------------------------------------------------
\* However the device cuts the sound, the outputs are those of one long buffer: one at
\* each multiple of the step, up to the last that has a sample after it; the ring holds
\* the newest of them.
ResamplingIsSeamless ==
    LET position(k) == k * resampler.step
        input == resampler.gone + resampler.waiting IN
    /\ \A i \in DOMAIN ring.samples : ring.samples[i] = position(ring.first + i - 1)
    /\ ring.next > 0 => position(ring.next - 1) + Parts < input * Parts
    /\ input > 0 => position(ring.next) + Parts >= input * Parts
    /\ Len(ring.samples) = Lesser(ring.next, Capacity)

\* The listener hears every sample once and in order, but for those the ring has lost.
ListenerMissesNothing ==
    /\ listener.from + Len(listener.heard) = listener.cursor
    /\ \A i \in DOMAIN listener.heard :
          listener.heard[i] = (listener.from + i - 1) * resampler.step

\* Speech begins after frames of speech that follow no other speech, and ends after
\* frames of silence: the detector's counters agree with the frames it was given.
SpeechIsBounded ==
    LET n == Len(voice.frames)
        was(i) == IF i = 1 THEN "silent" ELSE voice.frames[i - 1].state
        last(k, speech) ==
            n >= k /\ \A i \in n - k + 1..n : voice.frames[i].speech = speech
    IN n > 0 =>
       voice.state =
           CASE was(n) = "silent" ->
                   IF /\ last(StartFrames, TRUE)
                      /\ \A i \in n - StartFrames + 1..n : was(i) = "silent"
                   THEN "speaking" ELSE "silent"
             [] was(n) = "speaking" ->
                   IF last(EndFrames, FALSE) THEN "ended" ELSE "speaking"
             [] was(n) = "ended" -> "silent"

\* What the recorder gives to its listener and tells of it is what the device has heard.
RecordingsAreWhole == ResamplingIsSeamless /\ ListenerMissesNothing /\ SpeechIsBounded
================================================================================
