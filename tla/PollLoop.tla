------------------------------ MODULE PollLoop ------------------------------
(***************************************************************************)
(* What the loops of WiFi.c promise their callers: having started, each    *)
(* asks at least once and at most MaxAsked times, goes on only after an    *)
(* answer that decides nothing, and returns the last answer.               *)
(***************************************************************************)
EXTENDS Naturals

CONSTANTS
    Tasks,
    MaxAsked,     \* how often a loop asks at most
    Answers

VARIABLES
    undecided,    \* per task: the answers its loop goes on after, {} if it has none
    asked,        \* how many of them it has had
    answer        \* the last of them, and what the loop returns

Init ==
    /\ undecided = [t \in Tasks |-> {}]
    /\ asked = [t \in Tasks |-> 0]
    /\ answer \in [Tasks -> Answers]

\* The answer of task t becomes any that there is.
Answered(t) ==
    /\ answer'[t] \in Answers
    /\ answer' = [answer EXCEPT ![t] = answer'[t]]

\* Without a loop, a task may return whatever it likes.
Elsewhere(t) ==
    /\ undecided[t] = {}
    /\ Answered(t)
    /\ UNCHANGED <<undecided, asked>>

Start(t) ==
    /\ undecided[t] = {}
    /\ undecided'[t] \subseteq Answers
    /\ undecided' = [undecided EXCEPT ![t] = undecided'[t]]
    /\ UNCHANGED <<asked, answer>>

Again(t) ==
    /\ asked[t] + 1 < MaxAsked
    /\ Answered(t) /\ answer'[t] \in undecided[t]
    /\ asked' = [asked EXCEPT ![t] = @ + 1]
    /\ UNCHANGED undecided

End(t) ==
    /\ undecided[t] # {}
    /\ Answered(t)
    /\ answer'[t] \notin undecided[t] \/ asked[t] + 1 = MaxAsked
    /\ undecided' = [undecided EXCEPT ![t] = {}]
    /\ asked' = [asked EXCEPT ![t] = 0]

Next == \E t \in Tasks : Elsewhere(t) \/ Start(t) \/ Again(t) \/ End(t)

Spec == Init /\ [][Next]_<<undecided, asked, answer>>
=============================================================================
