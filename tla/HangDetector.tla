------------------------------- MODULE HangDetector -------------------------------
(* How the helper tells a hang from a pause: HangDetector::update of
   ale-gui/src/diagnostics.rs, which the helper calls once a round with the answer of
   the window to a message and the age of the program's last heartbeat.  Times are in
   seconds; a round that comes late tells of a suspended computer. *)
EXTENDS Integers, Sequences

CONSTANTS Rounds,    \* the distances between two rounds
          MaxProbes  \* bound: rounds

ASSUME HangAssumption == Rounds \subseteq Nat /\ MaxProbes \in Nat

VARIABLES
    detector,  \* first failure, failures in a row, last probe, end of the grace
    hung,      \* what the last call returned
    beatAt,    \* when the last heartbeat was seen
    probes     \* the rounds so far: when, the window's answer, the last heartbeat
hangVars == <<detector, hung, beatAt, probes>>

Never == -1
LongRound == 6
Grace == 5
HangTime == 5
BeatTime == 10
Failures == 3

Now == probes[Len(probes)].time

HangInit ==
    /\ detector = [first |-> Never, failures |-> 0, last |-> Never, grace |-> 0]
    /\ hung = FALSE
    /\ beatAt = Never
    /\ probes = << >>

\* A round after a pause starts all over and gives the program five seconds.
Resumed(d, now) ==
    IF d.last # Never /\ now - d.last > LongRound
    THEN [d EXCEPT !.first = Never, !.failures = 0, !.grace = now + Grace]
    ELSE d

Counted(d, now, answer) ==
    IF answer = "no"
    THEN [d EXCEPT !.first = IF @ = Never THEN now ELSE @, !.failures = @ + 1]
    ELSE [d EXCEPT !.first = Never, !.failures = 0]

Updated(d, now, answer) == [Counted(Resumed(d, now), now, answer) EXCEPT !.last = now]

IsHung(d, now, answer, beat, closing) ==
    /\ ~closing
    /\ now >= d.grace
    /\ \/ d.failures >= Failures /\ now - d.first >= HangTime
       \/ answer # "none" /\ beat # Never /\ now - beat >= BeatTime

\* One round.  The window answers, does not answer, or is not there; a program that
\* closes does not open again.
Probe ==
    /\ Len(probes) < MaxProbes
    /\ probes # << >> => ~probes[Len(probes)].closing
    /\ \E wait \in Rounds, answer \in {"yes", "no", "none"},
          beats \in BOOLEAN, closing \in BOOLEAN :
          LET now == IF probes = << >> THEN 0 ELSE Now + wait
              beat == IF beats THEN now ELSE beatAt IN
          /\ detector' = Updated(detector, now, answer)
          /\ hung' = IsHung(detector', now, answer, beat, closing)
          /\ beatAt' = beat
          /\ probes' = Append(probes, [time |-> now, answer |-> answer, beat |-> beat,
                                       closing |-> closing])

--------------------------------------------------------------------------------
\* What DIAGNOSTICS.md promises: a hang is three answers missing in a row over five
\* seconds, or a heartbeat missing for ten, and never the five seconds after the
\* computer was suspended.
WasSuspended(i) == i > 1 /\ probes[i].time - probes[i - 1].time > LongRound
HangIsReal ==
    LET n == Len(probes) IN
    n > 0 =>
    (hung <=>
        /\ ~probes[n].closing
        /\ \A i \in 1..n : WasSuspended(i) => probes[n].time >= probes[i].time + Grace
        /\ \/ \E i \in 1..n :
                 /\ n - i >= Failures - 1
                 /\ probes[n].time - probes[i].time >= HangTime
                 /\ \A k \in i..n : probes[k].answer = "no"
                 /\ \A k \in i + 1..n : ~WasSuspended(k)
           \/ /\ probes[n].answer # "none" /\ probes[n].beat # Never
              /\ probes[n].time - probes[n].beat >= BeatTime)
================================================================================
