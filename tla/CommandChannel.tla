--------------------------- MODULE CommandChannel ---------------------------
(***************************************************************************)
(* What the SPI driver promises its callers, without pins, semaphores or   *)
(* transfers: a task issues a command, the coprocessor executes it at most *)
(* once, and the call comes back either answered - then the coprocessor    *)
(* has executed this very command - or unanswered, which says nothing      *)
(* about whether it was executed.  A command may still be executed after   *)
(* its call has come back unanswered.                                      *)
(***************************************************************************)
EXTENDS Naturals, Sequences

CONSTANT Tasks      \* the FreeRTOS tasks that call the driver

VARIABLES
    issued,         \* commands issued so far; the last one's number
    executed,       \* the commands the coprocessor has executed, in order
    pending,        \* per task: the number of the command it waits for, or 0
    answered        \* per task: the command its last call was answered for, or 0

vars == <<issued, executed, pending, answered>>

Init ==
    /\ issued = 0
    /\ executed = << >>
    /\ pending = [t \in Tasks |-> 0]
    /\ answered = [t \in Tasks |-> 0]

Issue(t) ==
    /\ pending[t] = 0
    /\ issued' = issued + 1
    /\ pending' = [pending EXCEPT ![t] = issued + 1]
    /\ answered' = [answered EXCEPT ![t] = 0]
    /\ UNCHANGED executed

Done == {executed[k] : k \in DOMAIN executed}

Execute ==
    /\ \E n \in 1..issued \ Done : executed' = Append(executed, n)
    /\ UNCHANGED <<issued, pending, answered>>

ReturnAnswered(t) ==
    /\ pending[t] \in Done
    /\ answered' = [answered EXCEPT ![t] = pending[t]]
    /\ pending' = [pending EXCEPT ![t] = 0]
    /\ UNCHANGED <<issued, executed>>

ReturnUnanswered(t) ==
    /\ pending[t] # 0
    /\ pending' = [pending EXCEPT ![t] = 0]
    /\ UNCHANGED <<issued, executed, answered>>

Next ==
    \/ \E t \in Tasks : Issue(t) \/ ReturnAnswered(t) \/ ReturnUnanswered(t)
    \/ Execute

Spec == Init /\ [][Next]_vars
=============================================================================
