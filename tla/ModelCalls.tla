----------------------------- MODULE ModelCalls -----------------------------
(***************************************************************************)
(* What the daemon connection promises the code that schedules a job: the  *)
(* job runs at most once, not at all when it is refused, and its caller    *)
(* gets the result of that run or loses it.                                *)
(***************************************************************************)
EXTENDS Naturals

CONSTANT Job

VARIABLES
    outcome, \* new, open, answered, refused or lost
    ran      \* the jobs that ran

Init ==
    /\ outcome = [j \in Job |-> "new"]
    /\ ran = {}

Become(j, from, to) ==
    /\ outcome[j] \in from
    /\ outcome' = [outcome EXCEPT ![j] = to]
    /\ UNCHANGED ran

Ask(j) == Become(j, {"new"}, "open")

Refuse(j) == j \notin ran /\ Become(j, {"new", "open"}, "refused")

\* A job that nobody waits for any more may still run.
Run(j) ==
    /\ outcome[j] \in {"open", "lost"}
    /\ j \notin ran
    /\ ran' = ran \cup {j}
    /\ UNCHANGED outcome

Answer(j) == j \in ran /\ Become(j, {"open"}, "answered")

\* Callers go away one at a time; when the connection is lost, many lose theirs.
Lose ==
    \E S \in SUBSET {j \in Job : outcome[j] = "open"} :
        /\ outcome' = [j \in Job |-> IF j \in S THEN "lost" ELSE outcome[j]]
        /\ UNCHANGED ran

Next == Lose \/ \E j \in Job : Ask(j) \/ Refuse(j) \/ Run(j) \/ Answer(j)

Spec == Init /\ [][Next]_<<outcome, ran>>
=============================================================================
