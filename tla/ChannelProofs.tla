---------------------------- MODULE ChannelProofs ----------------------------
(***************************************************************************)
(* Proofs about the SPI driver as a command channel, for any number of     *)
(* tasks, command codes, calls and restarts, and for callers that exclude  *)
(* one another: the driver implements CommandChannel, and with a           *)
(* coprocessor that acknowledges in time no call fails without cause.      *)
(* Both rest on IInv of SpiDrvProofs and on one more invariant each.       *)
(***************************************************************************)
EXTENDS SpiDrvProofs

-----------------------------------------------------------------------------
(* A command is executed at most once *)

\* What Append adds to the set of executed calls.
LEMMA AppendDone ==
    ASSUME NEW s \in Seq(Nat), NEW n \in Nat
    PROVE  {Append(s, n)[k] : k \in DOMAIN Append(s, n)} = {s[k] : k \in DOMAIN s} \union {n}
<1>1. \A k \in 1..Len(s) : Append(s, n)[k] = s[k]
    OBVIOUS
<1>2. Append(s, n)[Len(s) + 1] = n /\ Len(s) + 1 \in 1..Len(s) + 1
    OBVIOUS
<1>3. DOMAIN s = 1..Len(s) /\ DOMAIN Append(s, n) = 1..Len(s) + 1
    OBVIOUS
<1>4. 1..Len(s) + 1 = 1..Len(s) \union {Len(s) + 1}
    OBVIOUS
<1> QED
    BY <1>1, <1>2, <1>3, <1>4, SMTT(30)

\* A step that executes and issues nothing keeps AtMostOnce, if it takes
\* nothing in and no command becomes unsent.
LEMMA AtMostOnceKept ==
    /\ AtMostOnce
    /\ UNCHANGED <<executed, calls, cur>>
    /\ rx' \in {rx, Nothing}
    /\ UNCHANGED <<espPhase, espJob>> \/ espPhase' \notin {"work", "reply"}
    /\ \A u \in Tasks : /\ Unsent(u)' => Unsent(u)
                        /\ (Active(u) /\ stage[u] # "init")' => Active(u) /\ stage[u] # "init"
    => AtMostOnce'
<1> SUFFICES ASSUME AtMostOnce,
                    UNCHANGED <<executed, calls, cur>>,
                    rx' \in {rx, Nothing},
                    UNCHANGED <<espPhase, espJob>> \/ espPhase' \notin {"work", "reply"},
                    \A u \in Tasks :
                       /\ Unsent(u)' => Unsent(u)
                       /\ (Active(u) /\ stage[u] # "init")' => Active(u) /\ stage[u] # "init"
             PROVE  AtMostOnce'
    OBVIOUS
<1>1. DoneCalls' = DoneCalls
    BY DEF DoneCalls
<1>2. ASSUME NEW u \in Tasks, Unsent(u)'
      PROVE  cur'[u].id \notin DoneCalls' /\ (espPhase' = "work" => espJob'.id # cur'[u].id)
    BY <1>1, <1>2 DEF AtMostOnce
<1>3. ASSUME NEW u \in Tasks, (Active(u) /\ stage[u] # "init")'
      PROVE  cur'[u].id \in 1..calls'
    BY <1>3 DEF AtMostOnce
<1> QED
    BY <1>1, <1>2, <1>3 DEF AtMostOnce

LEMMA AtMostOnceInit == Init => AtMostOnce
BY DEF Init, AtMostOnce, DoneCalls, Active, Unsent, At

LEMMA AtMostOnceStep ==
    ASSUME Serialized, TypeOK, IInv, AtMostOnce, [Next]_vars
    PROVE  AtMostOnce'
<1>1. ASSUME NEW t \in Tasks, NEW c \in Cmds, Call(t, c) PROVE AtMostOnce'
  <2>1. \A u \in Tasks : u # t => ~Active(u) /\ ~Active(u)'
    BY <1>1 DEF Active, At, Exclusive, Call, TypeOK, Goto
  <2>2. /\ DoneCalls' = DoneCalls
        /\ calls \in Nat /\ calls' = calls + 1
        /\ cur'[t].id = calls + 1
        /\ rx' = Nothing /\ espPhase' = espPhase /\ espJob' = espJob
    BY <1>1 DEF Call, TypeOK, DoneCalls, ClearBuffers, espVars
  <2>3. calls + 1 \notin 1..calls /\ 1..calls \subseteq 1..calls + 1 /\ calls + 1 \in 1..calls + 1
    BY <2>2
  <2> QED
    BY <2>1, <2>2, <2>3 DEF AtMostOnce, Unsent
<1>2. ASSUME NEW t \in Tasks, WiFiInit(t) PROVE AtMostOnce'
  <2>1. UNCHANGED <<executed, calls, cur>> /\ rx' \in {rx, Nothing}
    BY <1>2 DEF WiFiInit, ResetESP, spiVars
  <2>2. UNCHANGED <<espPhase, espJob>> \/ espPhase' \notin {"work", "reply"}
    BY <1>2 DEF WiFiInit, ResetESP, spiVars
  <2>3. \A u \in Tasks : /\ Unsent(u)' => Unsent(u)
                         /\ (Active(u) /\ stage[u] # "init")' => Active(u) /\ stage[u] # "init"
    BY <1>2 DEF WiFiInit, ResetESP, spiVars, TypeOK, IInv, StageOfStep, Active, Unsent,
       Sent, At, Goto
  <2> QED
    BY <2>1, <2>2, <2>3, AtMostOnceKept
<1>3. ASSUME NEW t \in Tasks, SpiDrvEnd(t) PROVE AtMostOnce'
  <2>1. UNCHANGED <<executed, calls, cur>> /\ rx' \in {rx, Nothing}
    BY <1>3 DEF SpiDrvEnd, taskVars
  <2>2. UNCHANGED <<espPhase, espJob>> \/ espPhase' \notin {"work", "reply"}
    BY <1>3 DEF SpiDrvEnd, taskVars
  <2>3. \A u \in Tasks : /\ Unsent(u)' => Unsent(u)
                         /\ (Active(u) /\ stage[u] # "init")' => Active(u) /\ stage[u] # "init"
    BY <1>3 DEF SpiDrvEnd, taskVars, TypeOK, IInv, StageOfStep, Active, Unsent,
       Sent, At, Goto
  <2> QED
    BY <2>1, <2>2, <2>3, AtMostOnceKept
<1>4. ASSUME NEW t \in Tasks, WaitForSlaveSelect(t) PROVE AtMostOnce'
  <2>1. UNCHANGED <<executed, calls, cur>> /\ rx' \in {rx, Nothing}
    BY <1>4 DEF WaitForSlaveSelect, ResetESP, spiVars, espVars
  <2>2. UNCHANGED <<espPhase, espJob>> \/ espPhase' \notin {"work", "reply"}
    BY <1>4 DEF WaitForSlaveSelect, ResetESP, spiVars, espVars
  <2>3. \A u \in Tasks : /\ Unsent(u)' => Unsent(u)
                         /\ (Active(u) /\ stage[u] # "init")' => Active(u) /\ stage[u] # "init"
    BY <1>4 DEF WaitForSlaveSelect, ResetESP, spiVars, espVars, TypeOK, IInv, StageOfStep, Active,
       Unsent,
       Sent, At, Goto
  <2> QED
    BY <2>1, <2>2, <2>3, AtMostOnceKept
<1>5. ASSUME NEW t \in Tasks, BeginDone(t) PROVE AtMostOnce'
  <2>1. UNCHANGED <<executed, calls, cur>> /\ rx' \in {rx, Nothing}
    BY <1>5 DEF BeginDone, spiVars, espVars
  <2>2. UNCHANGED <<espPhase, espJob>> \/ espPhase' \notin {"work", "reply"}
    BY <1>5 DEF BeginDone, spiVars, espVars
  <2>3. \A u \in Tasks : /\ Unsent(u)' => Unsent(u)
                         /\ (Active(u) /\ stage[u] # "init")' => Active(u) /\ stage[u] # "init"
    BY <1>5 DEF BeginDone, spiVars, espVars, TypeOK, IInv, StageOfStep, Active, Unsent,
       Sent, At, Goto
  <2> QED
    BY <2>1, <2>2, <2>3, AtMostOnceKept
<1>6. ASSUME NEW t \in Tasks, CheckReady(t) \/ CheckSelected(t) PROVE AtMostOnce'
  <2>1. UNCHANGED <<executed, calls, cur>> /\ rx' \in {rx, Nothing}
    BY <1>6 DEF CheckReady, CheckSelected, spiVars, espVars
  <2>2. UNCHANGED <<espPhase, espJob>> \/ espPhase' \notin {"work", "reply"}
    BY <1>6 DEF CheckReady, CheckSelected, spiVars, espVars
  <2>3. \A u \in Tasks : /\ Unsent(u)' => Unsent(u)
                         /\ (Active(u) /\ stage[u] # "init")' => Active(u) /\ stage[u] # "init"
    BY <1>6 DEF CheckReady, CheckSelected, spiVars, espVars, TypeOK, IInv, StageOfStep, Active,
       Unsent,
       Sent, At, Goto
  <2> QED
    BY <2>1, <2>2, <2>3, AtMostOnceKept
<1>7. ASSUME NEW t \in Tasks, TakeReady(t) \/ TakeSelected(t) PROVE AtMostOnce'
  <2>1. UNCHANGED <<executed, calls, cur>> /\ rx' \in {rx, Nothing}
    BY <1>7 DEF TakeReady, TakeSelected, spiVars, espVars
  <2>2. UNCHANGED <<espPhase, espJob>> \/ espPhase' \notin {"work", "reply"}
    BY <1>7 DEF TakeReady, TakeSelected, spiVars, espVars
  <2>3. \A u \in Tasks : /\ Unsent(u)' => Unsent(u)
                         /\ (Active(u) /\ stage[u] # "init")' => Active(u) /\ stage[u] # "init"
    BY <1>7 DEF TakeReady, TakeSelected, spiVars, espVars, TypeOK, IInv, StageOfStep, Active,
       Unsent,
       Sent, At, Goto
  <2> QED
    BY <2>1, <2>2, <2>3, AtMostOnceKept
<1>8. ASSUME NEW t \in Tasks, SpinDone(t) \/ Select(t) PROVE AtMostOnce'
  <2>1. UNCHANGED <<executed, calls, cur>> /\ rx' \in {rx, Nothing}
    BY <1>8 DEF SpinDone, Select, spiVars, espVars
  <2>2. UNCHANGED <<espPhase, espJob>> \/ espPhase' \notin {"work", "reply"}
    BY <1>8 DEF SpinDone, Select, spiVars, espVars
  <2>3. \A u \in Tasks : /\ Unsent(u)' => Unsent(u)
                         /\ (Active(u) /\ stage[u] # "init")' => Active(u) /\ stage[u] # "init"
    BY <1>8 DEF SpinDone, Select, spiVars, espVars, TypeOK, IInv, StageOfStep, Active, Unsent,
       Sent, At, Goto
  <2> QED
    BY <2>1, <2>2, <2>3, AtMostOnceKept
<1>9. ASSUME NEW t \in Tasks, PutArray(t) PROVE AtMostOnce'
  <2>1. UNCHANGED <<executed, calls, cur>> /\ rx' \in {rx, Nothing}
    BY <1>9 DEF PutArray, espVars
  <2>2. UNCHANGED <<espPhase, espJob>> \/ espPhase' \notin {"work", "reply"}
    BY <1>9 DEF PutArray, espVars
  <2>3. \A u \in Tasks : /\ Unsent(u)' => Unsent(u)
                         /\ (Active(u) /\ stage[u] # "init")' => Active(u) /\ stage[u] # "init"
    BY <1>9 DEF PutArray, espVars, TypeOK, IInv, OneActive, StageOfStep, Active, Unsent, Sent,
       At, Goto
  <2> QED
    BY <2>1, <2>2, <2>3, AtMostOnceKept
<1>10. ASSUME NEW t \in Tasks, TakeTx(t) PROVE AtMostOnce'
  <2>1. UNCHANGED <<executed, calls, cur>> /\ rx' \in {rx, Nothing}
    BY <1>10 DEF TakeTx, spiVars, espVars
  <2>2. UNCHANGED <<espPhase, espJob>> \/ espPhase' \notin {"work", "reply"}
    BY <1>10 DEF TakeTx, spiVars, espVars
  <2>3. \A u \in Tasks : /\ Unsent(u)' => Unsent(u)
                         /\ (Active(u) /\ stage[u] # "init")' => Active(u) /\ stage[u] # "init"
    BY <1>10 DEF TakeTx, spiVars, espVars, TypeOK, IInv, StageOfStep, Active, Unsent,
       Sent, At, Goto
  <2> QED
    BY <2>1, <2>2, <2>3, AtMostOnceKept
<1>11. ASSUME NEW t \in Tasks, Deselect(t) PROVE AtMostOnce'
  <2>1. UNCHANGED <<executed, calls, cur>> /\ rx' \in {rx, Nothing}
    BY <1>11 DEF Deselect, espVars
  <2>2. UNCHANGED <<espPhase, espJob>> \/ espPhase' \notin {"work", "reply"}
    BY <1>11 DEF Deselect, espVars
  <2>3. \A u \in Tasks : /\ Unsent(u)' => Unsent(u)
                         /\ (Active(u) /\ stage[u] # "init")' => Active(u) /\ stage[u] # "init"
    BY <1>11 DEF Deselect, espVars, TypeOK, IInv, StageOfStep, Active, Unsent,
       Sent, At, Goto
  <2> QED
    BY <2>1, <2>2, <2>3, AtMostOnceKept
<1>12. ASSUME NEW t \in Tasks, ReceiveResponse(t) PROVE AtMostOnce'
  <2>1. UNCHANGED <<executed, calls, cur>> /\ rx' \in {rx, Nothing}
    BY <1>12 DEF ReceiveResponse, ClearBuffers, espVars
  <2>2. UNCHANGED <<espPhase, espJob>> \/ espPhase' \notin {"work", "reply"}
    BY <1>12 DEF ReceiveResponse, ClearBuffers, espVars
  <2>3. \A u \in Tasks : /\ Unsent(u)' => Unsent(u)
                         /\ (Active(u) /\ stage[u] # "init")' => Active(u) /\ stage[u] # "init"
    BY <1>12 DEF ReceiveResponse, ClearBuffers, espVars, TypeOK, IInv, StageOfStep, Active, Unsent,
       Sent, At, Goto
  <2> QED
    BY <2>1, <2>2, <2>3, AtMostOnceKept
<1>13. ASSUME NEW t \in Tasks, Parse(t) PROVE AtMostOnce'
  <2>1. UNCHANGED <<executed, calls, cur>> /\ rx' \in {rx, Nothing}
    BY <1>13 DEF Parse, espVars
  <2>2. UNCHANGED <<espPhase, espJob>> \/ espPhase' \notin {"work", "reply"}
    BY <1>13 DEF Parse, espVars
  <2>3. \A u \in Tasks : /\ Unsent(u)' => Unsent(u)
                         /\ (Active(u) /\ stage[u] # "init")' => Active(u) /\ stage[u] # "init"
    BY <1>13 DEF Parse, espVars, TypeOK, IInv, StageOfStep, Active, Unsent,
       Sent, At, Goto
  <2> QED
    BY <2>1, <2>2, <2>3, AtMostOnceKept
<1>14. CASE ReadyInterrupt
  <2>1. UNCHANGED <<executed, calls, cur>> /\ rx' \in {rx, Nothing}
    BY <1>14 DEF ReadyInterrupt, taskVars, spiVars
  <2>2. UNCHANGED <<espPhase, espJob>> \/ espPhase' \notin {"work", "reply"}
    BY <1>14 DEF ReadyInterrupt, taskVars, spiVars
  <2>3. \A u \in Tasks : /\ Unsent(u)' => Unsent(u)
                         /\ (Active(u) /\ stage[u] # "init")' => Active(u) /\ stage[u] # "init"
    BY <1>14 DEF ReadyInterrupt, taskVars, spiVars, TypeOK, IInv, StageOfStep, Active, Unsent,
       Sent, At, Goto
  <2> QED
    BY <2>1, <2>2, <2>3, AtMostOnceKept
<1>15. CASE TxInterrupt
  <2>1. UNCHANGED <<executed, calls, cur>> /\ rx' \in {rx, Nothing}
    BY <1>15 DEF TxInterrupt, taskVars, espVars
  <2>2. UNCHANGED <<espPhase, espJob>> \/ espPhase' \notin {"work", "reply"}
    BY <1>15 DEF TxInterrupt, taskVars, espVars
  <2>3. \A u \in Tasks : /\ Unsent(u)' => Unsent(u)
                         /\ (Active(u) /\ stage[u] # "init")' => Active(u) /\ stage[u] # "init"
    BY <1>15 DEF TxInterrupt, taskVars, espVars, TypeOK, IInv, StageOfStep, Active, Unsent,
       Sent, At, Goto
  <2> QED
    BY <2>1, <2>2, <2>3, AtMostOnceKept
<1>16. CASE TransferDone
  <2>1. PICK t \in Tasks : At(t, "takeTx")
    BY <1>16 DEF TransferDone, IInv, TxHandover
  <2>2. \A u \in Tasks : u # t => ~Active(u)
    BY <2>1 DEF IInv, OneActive, Active, At
  <2>3. stage[t] = "recv" \/ stage[t] = "send"
    BY <2>1 DEF TypeOK, IInv, StageOfStep, Active, At
  <2>4. DoneCalls' = DoneCalls /\ \A u \in Tasks : Active(u)' = Active(u)
    BY <1>16 DEF TransferDone, DoneCalls, Active, At, taskVars
  <2>5. \A u \in Tasks : ~Unsent(u)'
    BY <1>16, <2>1, <2>2 DEF TransferDone, Unsent, Sent, Active, At, taskVars
  <2>6. CASE espPhase' = "work" /\ espPhase = "cmd"
    <3>1. espJob' = wire /\ wire # Nothing /\ rx' = rx
      BY <1>16, <2>6 DEF TransferDone
    <3>2. Unsent(t) /\ wire = cur[t]
      BY <1>16, <2>1, <2>3, <3>1 DEF TransferDone, IInv, OwnFrame, Unsent, Sent, Active, At
    <3>3. espJob'.id \in 1..calls \ DoneCalls
      BY <3>1, <3>2 DEF AtMostOnce, Unsent
    <3> QED
      BY <1>16, <2>4, <2>5, <2>6, <3>1, <3>3 DEF TransferDone, AtMostOnce, taskVars
  <2>7. CASE ~(espPhase' = "work" /\ espPhase = "cmd")
    BY <1>16, <2>4, <2>5, <2>7 DEF TransferDone, AtMostOnce, taskVars
  <2> QED
    BY <2>6, <2>7
<1>17. CASE EspRaiseBusy
  <2>1. UNCHANGED <<executed, calls, cur>> /\ rx' \in {rx, Nothing}
    BY <1>17 DEF EspRaiseBusy, taskVars, spiVars
  <2>2. UNCHANGED <<espPhase, espJob>> \/ espPhase' \notin {"work", "reply"}
    BY <1>17 DEF EspRaiseBusy, taskVars, spiVars
  <2>3. \A u \in Tasks : /\ Unsent(u)' => Unsent(u)
                         /\ (Active(u) /\ stage[u] # "init")' => Active(u) /\ stage[u] # "init"
    BY <1>17 DEF EspRaiseBusy, taskVars, spiVars, TypeOK, IInv, StageOfStep, Active, Unsent,
       Sent, At, Goto
  <2> QED
    BY <2>1, <2>2, <2>3, AtMostOnceKept
<1>18. CASE EspExecute
  <2>1. espJob.id \in Nat
    BY FrameFacts DEF TypeOK
  <2>2. DoneCalls' = DoneCalls \union {espJob.id}
    <3>1. executed \in Seq(Nat) /\ executed' = Append(executed, espJob.id)
      BY <1>18 DEF EspExecute, TypeOK
    <3>2. {Append(executed, espJob.id)[k] : k \in DOMAIN Append(executed, espJob.id)}
             = {executed[k] : k \in DOMAIN executed} \union {espJob.id}
      BY <2>1, <3>1, AppendDone
    <3> QED
      BY <3>1, <3>2 DEF DoneCalls
  <2>3. \A u \in Tasks : Active(u)' = Active(u) /\ Unsent(u)' = Unsent(u)
    BY <1>18 DEF EspExecute, Active, Unsent, Sent, At, taskVars, spiVars
  <2> QED
    BY <1>18, <2>2, <2>3 DEF EspExecute, AtMostOnce, taskVars, spiVars
<1>19. CASE EspArm
  <2>1. UNCHANGED <<executed, calls, cur>> /\ rx' \in {rx, Nothing}
    BY <1>19 DEF EspArm, taskVars, spiVars
  <2>2. UNCHANGED <<espPhase, espJob>> \/ espPhase' \notin {"work", "reply"}
    BY <1>19 DEF EspArm, taskVars, spiVars
  <2>3. \A u \in Tasks : /\ Unsent(u)' => Unsent(u)
                         /\ (Active(u) /\ stage[u] # "init")' => Active(u) /\ stage[u] # "init"
    BY <1>19 DEF EspArm, taskVars, spiVars, TypeOK, IInv, StageOfStep, Active, Unsent,
       Sent, At, Goto
  <2> QED
    BY <2>1, <2>2, <2>3, AtMostOnceKept
<1>20. CASE EspRestart
  <2>1. UNCHANGED <<executed, calls, cur>> /\ rx' \in {rx, Nothing}
    BY <1>20 DEF EspRestart, taskVars, spiVars
  <2>2. UNCHANGED <<espPhase, espJob>> \/ espPhase' \notin {"work", "reply"}
    BY <1>20 DEF EspRestart, taskVars, spiVars
  <2>3. \A u \in Tasks : /\ Unsent(u)' => Unsent(u)
                         /\ (Active(u) /\ stage[u] # "init")' => Active(u) /\ stage[u] # "init"
    BY <1>20 DEF EspRestart, taskVars, spiVars, TypeOK, IInv, StageOfStep, Active, Unsent,
       Sent, At, Goto
  <2> QED
    BY <2>1, <2>2, <2>3, AtMostOnceKept
<1>21. CASE UNCHANGED vars
  <2>1. UNCHANGED <<executed, calls, cur>> /\ rx' \in {rx, Nothing}
    BY <1>21 DEF vars, taskVars, spiVars, espVars
  <2>2. UNCHANGED <<espPhase, espJob>> \/ espPhase' \notin {"work", "reply"}
    BY <1>21 DEF vars, taskVars, spiVars, espVars
  <2>3. \A u \in Tasks : /\ Unsent(u)' => Unsent(u)
                         /\ (Active(u) /\ stage[u] # "init")' => Active(u) /\ stage[u] # "init"
    BY <1>21 DEF vars, taskVars, spiVars, espVars, TypeOK, IInv, StageOfStep, Active, Unsent,
       Sent, At, Goto
  <2> QED
    BY <2>1, <2>2, <2>3, AtMostOnceKept
<1> QED
    BY <1>1, <1>2, <1>3, <1>4, <1>5, <1>6, <1>7, <1>8, <1>9, <1>10, <1>11, <1>12, <1>13, <1>14,
       <1>15, <1>16, <1>17, <1>18, <1>19, <1>20, <1>21 DEF Next, TaskStep, EspStep

\* Under serialized callers the coprocessor executes a command at most once and
\* only after it was sent, and whatever it answers it has executed.
THEOREM AtMostOnceInvariant == ASSUME Serialized PROVE Spec => []AtMostOnce
<1>1. TypeOK /\ IInv /\ AtMostOnce /\ [Next]_vars => AtMostOnce'
    BY AtMostOnceStep
<1> QED
    BY <1>1, AtMostOnceInit, TypeCorrect, Invariant, PTL DEF Spec

-----------------------------------------------------------------------------
(* The refinement, step by step *)

\* What the refinement mapping makes of one task.
Pending(t)  == IF At(t, "idle") \/ stage[t] = "init" THEN 0 ELSE cur[t].id
Answered(t) == reply[t].id

LEMMA ChannelInit == Init => Channel!Init
BY DEF Init, Channel!Init, At, Nothing

LEMMA ChannelStutter ==
    ASSUME UNCHANGED <<calls, executed, reply>>,
           \A u \in Tasks : Pending(u)' = Pending(u)
    PROVE  UNCHANGED Channel!vars
<1>1. [u \in Tasks |-> Pending(u)'] = [u \in Tasks |-> Pending(u)]
    OBVIOUS
<1>2. [u \in Tasks |-> Answered(u)'] = [u \in Tasks |-> Answered(u)]
    BY DEF Answered
<1> QED
    BY <1>1, <1>2 DEF Channel!vars, Pending, Answered

\* SpiDrv_sendCmd issues.
LEMMA CallIssues ==
    ASSUME TypeOK, NEW t \in Tasks, NEW c \in Cmds, Call(t, c)
    PROVE  Channel!Issue(t)
<1>1. Pending(t) = 0 /\ Pending(t)' = calls + 1 /\ Answered(t)' = 0
    BY DEF Call, Goto, At, TypeOK, Pending, Answered, Nothing
<1>2. \A u \in Tasks : u # t => Pending(u)' = Pending(u) /\ Answered(u)' = Answered(u)
    BY DEF Call, Goto, At, TypeOK, Pending, Answered
<1>3. [u \in Tasks |-> Pending(u)'] = [[u \in Tasks |-> Pending(u)] EXCEPT ![t] = calls + 1]
    BY <1>1, <1>2
<1>4. [u \in Tasks |-> Answered(u)'] = [[u \in Tasks |-> Answered(u)] EXCEPT ![t] = 0]
    BY <1>1, <1>2
<1>5. calls' = calls + 1 /\ executed' = executed
    BY DEF Call, espVars
<1>6. [u \in Tasks |-> Pending(u)][t] = 0
    BY <1>1
<1> QED
    BY <1>3, <1>4, <1>5, <1>6 DEF Channel!Issue, Pending, Answered

\* The parse returns the call: answered, if the command code matched, and then
\* the coprocessor has executed this very command.
LEMMA ParseReturns ==
    ASSUME TypeOK, IInv, AtMostOnce, NEW t \in Tasks, Parse(t)
    PROVE  Channel!ReturnAnswered(t) \/ Channel!ReturnUnanswered(t)
<1>1. Active(t) /\ stage[t] = "recv"
    BY DEF Parse, IInv, StageOfStep, Active, At
<1>2. Pending(t) = cur[t].id /\ Pending(t) \in 1..calls /\ Pending(t)' = 0
    BY <1>1 DEF Parse, Goto, TypeOK, AtMostOnce, Active, At, Pending
<1>3. \A u \in Tasks : u # t => Pending(u)' = Pending(u) /\ Answered(u)' = Answered(u)
    BY DEF Parse, Goto, At, TypeOK, Pending, Answered
<1>4. [u \in Tasks |-> Pending(u)'] = [[u \in Tasks |-> Pending(u)] EXCEPT ![t] = 0]
    BY <1>2, <1>3
<1>5. calls' = calls /\ executed' = executed
    BY DEF Parse, espVars
<1>6. [u \in Tasks |-> Pending(u)][t] = Pending(t)
    OBVIOUS
<1>7. CASE rx.cmd = cur[t].cmd
  <2>1. rx = cur[t] /\ rx # Nothing
    BY <1>1, <1>7, ConstantsAssumption DEF IInv, RxIsOwn, CallMade, Nothing
  <2>2. Pending(t) \in DoneCalls /\ Answered(t)' = Pending(t)
    BY <1>2, <1>7, <2>1 DEF Parse, TypeOK, AtMostOnce, Answered
  <2>3. [u \in Tasks |-> Answered(u)'] = [[u \in Tasks |-> Answered(u)] EXCEPT ![t] = Pending(t)]
    BY <1>3, <2>2
  <2> QED
    BY <1>4, <1>5, <1>6, <2>2, <2>3
    DEF Channel!ReturnAnswered, Channel!Done, DoneCalls, Pending, Answered
<1>8. CASE rx.cmd # cur[t].cmd
  <2>1. reply' = reply
    BY <1>8 DEF Parse
  <2>2. Pending(t) # 0
    BY <1>2 DEF TypeOK
  <2> QED
    BY <1>4, <1>5, <1>6, <2>1, <2>2 DEF Channel!ReturnUnanswered, Pending
<1> QED
    BY <1>7, <1>8

\* The coprocessor executes a command that was issued and not yet executed.
LEMMA ExecuteExecutes ==
    ASSUME TypeOK, AtMostOnce, EspExecute
    PROVE  Channel!Execute
<1>1. espJob.id \in 1..calls \ DoneCalls /\ executed' = Append(executed, espJob.id)
    BY DEF EspExecute, AtMostOnce
<1>2. UNCHANGED <<calls, reply>> /\ \A u \in Tasks : Pending(u)' = Pending(u)
    BY DEF EspExecute, Pending, At, taskVars
<1>3. [u \in Tasks |-> Pending(u)'] = [u \in Tasks |-> Pending(u)]
    BY <1>2
<1> QED
    BY <1>1, <1>2, <1>3 DEF Channel!Execute, Channel!Done, DoneCalls, Pending

\* No other step of a task, an interrupt or the coprocessor is visible.
LEMMA OthersStutter ==
    ASSUME TypeOK, IInv, NEW t \in Tasks,
           \/ WiFiInit(t) \/ SpiDrvEnd(t) \/ WaitForSlaveSelect(t) \/ BeginDone(t)
           \/ CheckReady(t) \/ TakeReady(t) \/ SpinDone(t) \/ Select(t) \/ CheckSelected(t)
           \/ TakeSelected(t) \/ PutArray(t) \/ TakeTx(t) \/ Deselect(t) \/ ReceiveResponse(t)
    PROVE  UNCHANGED Channel!vars
<1>1. /\ UNCHANGED <<calls, executed, reply, cur>>
      /\ \A u \in Tasks \ {t} : pc'[u] = pc[u] /\ stage'[u] = stage[u]
    BY DEF WiFiInit, SpiDrvEnd, WaitForSlaveSelect, BeginDone, CheckReady, TakeReady, SpinDone,
       Select, CheckSelected, TakeSelected, PutArray, TakeTx, Deselect, ReceiveResponse, ResetESP,
       Goto, TypeOK, taskVars, espVars
<1>2. Pending(t)' = Pending(t)
    BY <1>1 DEF WiFiInit, SpiDrvEnd, WaitForSlaveSelect, BeginDone, CheckReady, TakeReady,
       SpinDone,
       Select, CheckSelected, TakeSelected, PutArray, TakeTx, Deselect, ReceiveResponse, TypeOK,
       IInv, StageOfStep, Active, Goto, At, Pending, taskVars
<1>3. \A u \in Tasks : Pending(u)' = Pending(u)
    BY <1>1, <1>2 DEF Pending, At
<1> QED
    BY <1>1, <1>3, ChannelStutter

LEMMA DevicesStutter ==
    ASSUME ReadyInterrupt \/ TxInterrupt \/ TransferDone \/ EspRaiseBusy \/ EspArm \/ EspRestart
           \/ UNCHANGED vars
    PROVE  UNCHANGED Channel!vars
<1>1. UNCHANGED <<calls, executed, reply, cur, pc, stage>>
    BY DEF ReadyInterrupt, TxInterrupt, TransferDone, EspRaiseBusy, EspArm, EspRestart, vars,
       taskVars, espVars
<1>2. \A u \in Tasks : Pending(u)' = Pending(u)
    BY <1>1 DEF Pending, At
<1> QED
    BY <1>1, <1>2, ChannelStutter

LEMMA ChannelStep ==
    ASSUME TypeOK, IInv, AtMostOnce, [Next]_vars
    PROVE  [Channel!Next]_Channel!vars
<1>1. CASE \E t \in Tasks, c \in Cmds : Call(t, c)
    BY <1>1, CallIssues DEF Channel!Next
<1>2. CASE \E t \in Tasks : Parse(t)
    BY <1>2, ParseReturns DEF Channel!Next
<1>3. CASE EspExecute
    BY <1>3, ExecuteExecutes DEF Channel!Next
<1>4. CASE ReadyInterrupt \/ TxInterrupt \/ TransferDone \/ EspRaiseBusy \/ EspArm \/ EspRestart
           \/ UNCHANGED vars
    BY <1>4, DevicesStutter
<1>5. CASE \E t \in Tasks : WiFiInit(t) \/ SpiDrvEnd(t) \/ (TaskStep(t) /\ ~Parse(t))
    BY <1>5, OthersStutter DEF TaskStep
<1> QED
    BY <1>1, <1>2, <1>3, <1>4, <1>5 DEF Next, TaskStep, EspStep

\* The driver is a command channel: through every interleaving of pins,
\* semaphores, transfers and restarts, its callers see commands executed at
\* most once, and answers only to commands that were executed.
THEOREM ChannelImplemented == ASSUME Serialized PROVE Spec => ImplementsChannel
<1>1. TypeOK /\ IInv /\ AtMostOnce /\ [Next]_vars => [Channel!Next]_Channel!vars
    BY ChannelStep
<1> QED
    BY <1>1, ChannelInit, TypeCorrect, Invariant, AtMostOnceInvariant, PTL
    DEF Spec, ImplementsChannel, Channel!Spec

-----------------------------------------------------------------------------
(* No call fails without cause *)

LEMMA PhaseInit == Init => PhaseInv
BY DEF Init, PhaseInv, StaysInitialized, InStep, Transferring, Active, Sent, Fetched,
       SelectedLabels, At

\* SpiDrv_initialized is set before the first exchange of a call and reset only
\* between calls.
LEMMA StaysInitializedStep ==
    ASSUME Serialized, TypeOK, IInv, StaysInitialized, [Next]_vars
    PROVE  StaysInitialized'
<1> USE DEF StaysInitialized, SelectedLabels, Active, At
<1>1. ASSUME NEW t \in Tasks, NEW c \in Cmds, Call(t, c) PROVE StaysInitialized'
    BY <1>1 DEF Call, Exclusive, Goto, TypeOK
<1>2. ASSUME NEW t \in Tasks, WiFiInit(t) PROVE StaysInitialized'
    BY <1>2 DEF WiFiInit, Exclusive, Goto, TypeOK
<1>3. ASSUME NEW t \in Tasks, SpiDrvEnd(t) PROVE StaysInitialized'
    BY <1>3 DEF SpiDrvEnd, Exclusive, taskVars
<1>4. ASSUME NEW t \in Tasks, WaitForSlaveSelect(t) PROVE StaysInitialized'
    BY <1>4 DEF WaitForSlaveSelect, Goto, TypeOK
<1>5. ASSUME NEW t \in Tasks, BeginDone(t) PROVE StaysInitialized'
    BY <1>5 DEF BeginDone
<1>6. ASSUME NEW t \in Tasks, CheckReady(t) \/ TakeReady(t) \/ SpinDone(t) PROVE StaysInitialized'
    BY <1>6 DEF CheckReady, TakeReady, SpinDone, Goto, TypeOK
<1>7. ASSUME NEW t \in Tasks, Select(t) \/ CheckSelected(t) \/ TakeSelected(t)
      PROVE  StaysInitialized'
    BY <1>7 DEF Select, CheckSelected, TakeSelected, Goto, TypeOK
<1>8. ASSUME NEW t \in Tasks, PutArray(t) \/ TakeTx(t) \/ Deselect(t) PROVE StaysInitialized'
    BY <1>8 DEF PutArray, TakeTx, Deselect, Goto, TypeOK
<1>9. ASSUME NEW t \in Tasks, ReceiveResponse(t) PROVE StaysInitialized'
    BY <1>9 DEF ReceiveResponse, Goto, TypeOK
<1>10. ASSUME NEW t \in Tasks, Parse(t) PROVE StaysInitialized'
    BY <1>10 DEF Parse, Goto, TypeOK
<1>11. CASE ReadyInterrupt \/ TxInterrupt \/ TransferDone \/ EspStep \/ EspRestart \/ UNCHANGED vars
    BY <1>11 DEF ReadyInterrupt, TxInterrupt, TransferDone, EspStep, EspRaiseBusy, EspExecute,
       EspArm, EspRestart, vars, taskVars
<1> QED
    BY <1>1, <1>2, <1>3, <1>4, <1>5, <1>6, <1>7, <1>8, <1>9, <1>10, <1>11 DEF Next, TaskStep

\* With a coprocessor that acknowledges in time and does not restart, a step
\* keeps driver and coprocessor in step.
LEMMA InStepStep ==
    ASSUME Serialized, ~LateBusy, TypeOK, IInv, StaysInitialized, InStep, [Next]_vars, restarts' = 0
    PROVE  InStep'
<1> USE DEF InStep
<1>1. ASSUME NEW t \in Tasks, NEW c \in Cmds, Call(t, c) PROVE InStep'
  <2>1. \A u \in Tasks : /\ ~Sent(u) /\ ~(Sent(u)') /\ ~Transferring(u)' /\ ~Fetched(u)'
    BY <1>1 DEF Call, Exclusive, Sent, Fetched, Transferring, Active, At, Goto, TypeOK
  <2> QED
    BY <1>1, <2>1 DEF Call, espVars
<1>2. ASSUME NEW t \in Tasks, WiFiInit(t) PROVE InStep'
  <2>1. \A u \in Tasks : /\ ~(Sent(u)') /\ ~Transferring(u)' /\ ~Fetched(u)'
    BY <1>2 DEF WiFiInit, Exclusive, Sent, Fetched, Transferring, Active, At, Goto, TypeOK
  <2> QED
    BY <1>2, <2>1 DEF WiFiInit, ResetESP
<1>3. ASSUME NEW t \in Tasks, SpiDrvEnd(t) PROVE InStep'
  <2>1. \A u \in Tasks : /\ ~(Sent(u)') /\ ~Transferring(u)' /\ ~Fetched(u)'
    BY <1>3 DEF SpiDrvEnd, Exclusive, Sent, Fetched, Transferring, Active, At, taskVars
  <2> QED
    BY <1>3, <2>1 DEF SpiDrvEnd
<1>4. ASSUME NEW t \in Tasks, WaitForSlaveSelect(t) PROVE InStep'
  <2>1. \A u \in Tasks : u # t => ~Active(u)
    BY <1>4 DEF IInv, OneActive, Active, At, WaitForSlaveSelect
  <2>2. CASE initialized
    BY <1>4, <2>1, <2>2, SMTT(30) DEF WaitForSlaveSelect, TypeOK, Sent, Fetched, Transferring, Active, At,
       Goto,
       spiVars, espVars
  <2>3. CASE ~initialized
    <3>1. \A u \in Tasks : ~(Sent(u)') /\ ~Transferring(u)' /\ ~Fetched(u)'
      BY <1>4, <2>1, <2>3 DEF WaitForSlaveSelect, StaysInitialized, TypeOK, Sent, Fetched,
         Transferring, Active, At, Goto, spiVars
    <3> QED
      BY <1>4, <2>3, <3>1 DEF WaitForSlaveSelect, ResetESP
  <2> QED
    BY <2>2, <2>3
<1>5. ASSUME NEW t \in Tasks, BeginDone(t) \/ CheckReady(t) \/ TakeReady(t) PROVE InStep'
  <2>1. \A u \in Tasks : u # t => ~Active(u)
    BY <1>5 DEF IInv, OneActive, Active, At, BeginDone, CheckReady, TakeReady
  <2>2. \A u \in Tasks : Sent(u)' = Sent(u) /\ ~Fetched(u)' /\ ~Fetched(u) /\ ~Transferring(u)'
    BY <1>5, <2>1 DEF BeginDone, CheckReady, TakeReady, IInv, StageOfStep, TypeOK, Sent, Fetched,
       Transferring, Active, At, Goto, spiVars
  <2> QED
    BY <1>5, <2>2 DEF BeginDone, CheckReady, TakeReady, espVars
<1>6. ASSUME NEW t \in Tasks, SpinDone(t) PROVE InStep'
  <2>1. \A u \in Tasks : u # t => ~Active(u)
    BY <1>6 DEF IInv, OneActive, Active, At, SpinDone
  <2>2. \A u \in Tasks : Sent(u)' = Sent(u) /\ ~Fetched(u)' /\ ~Fetched(u)
    BY <1>6, <2>1 DEF SpinDone, TypeOK, Sent, Fetched, Active, At, Goto, spiVars
  <2>3. \A u \in Tasks : Transferring(u)' => u = t
    BY <1>6, <2>1 DEF SpinDone, TypeOK, Transferring, Active, At, Goto
  <2>4. (stage[t] = "send" => ~Sent(t)) /\ (stage[t] = "recv" => Sent(t))
        /\ stage[t] \in {"send", "recv"}
    BY <1>6 DEF SpinDone, IInv, StageOfStep, TypeOK, Sent, Active, At
  <2>5. espPhase = IF stage[t] = "send" THEN "cmd" ELSE "reply"
    <3>1. espPhase \in {"cmd", "reply"}
      BY <1>6 DEF SpinDone
    <3>2. espPhase = "reply" <=> Sent(t)
      <4>1. \A u \in Tasks : u # t => ~Sent(u)
        BY <2>1 DEF Sent
      <4>2. (\E u \in Tasks : Sent(u) /\ ~Fetched(u)) <=> Sent(t)
        BY <2>2, <4>1
      <4> QED
        BY <3>1, <4>2
    <3> QED
      BY <2>4, <3>1, <3>2
  <2> QED
    BY <1>6, <2>2, <2>3, <2>5 DEF SpinDone, espVars
<1>7. ASSUME NEW t \in Tasks, Select(t) \/ CheckSelected(t) \/ TakeSelected(t) PROVE InStep'
  <2>1. \A u \in Tasks : u # t => ~Active(u)
    BY <1>7 DEF IInv, OneActive, Active, At, Select, CheckSelected, TakeSelected
  <2>2. \A u \in Tasks : /\ Sent(u)' = Sent(u) /\ ~Fetched(u)' /\ ~Fetched(u)
                         /\ Transferring(u)' = Transferring(u)
    BY <1>7, <2>1 DEF Select, CheckSelected, TakeSelected, TypeOK, Sent, Fetched, Transferring,
       Active,
       At, Goto, spiVars
  <2> QED
    BY <1>7, <2>2 DEF Select, CheckSelected, TakeSelected, espVars
<1>8. ASSUME NEW t \in Tasks, PutArray(t) PROVE InStep'
  <2>1. \A u \in Tasks : u # t => ~Active(u)
    BY <1>8 DEF IInv, OneActive, Active, At, PutArray
  <2>2. \A u \in Tasks : /\ Sent(u)' = Sent(u) /\ ~Fetched(u)' /\ ~Fetched(u)
                         /\ Transferring(u)' = Transferring(u)
    BY <1>8, <2>1 DEF PutArray, TypeOK, Sent, Fetched, Transferring, Active, At, Goto
  <2> QED
    BY <1>8, <2>2 DEF PutArray, espVars
<1>9. ASSUME NEW t \in Tasks, TakeTx(t) PROVE InStep'
  <2>1. \A u \in Tasks : u # t => ~Active(u)
    BY <1>9 DEF IInv, OneActive, Active, At, TakeTx
  <2>2. ~shifting
    BY <1>9 DEF TakeTx, IInv, TxHandover
  <2>3. \A u \in Tasks : Sent(u)' = Sent(u) /\ Fetched(u)' = Fetched(u) /\ ~Transferring(u)'
    BY <1>9, <2>1, <2>2 DEF TakeTx, IInv, StageOfStep, TypeOK, Sent, Fetched, Transferring,
       Active, At,
       Goto, spiVars
  <2> QED
    BY <1>9, <2>3 DEF TakeTx, spiVars, espVars
<1>10. ASSUME NEW t \in Tasks, Deselect(t) PROVE InStep'
  <2>1. \A u \in Tasks : u # t => ~Active(u)
    BY <1>10 DEF IInv, OneActive, Active, At, Deselect
  <2>2. \A u \in Tasks : Sent(u)' = Sent(u) /\ Fetched(u)' = Fetched(u) /\ ~Transferring(u)'
    BY <1>10, <2>1 DEF Deselect, IInv, StageOfStep, TypeOK, Sent, Fetched, Transferring, Active,
       At,
       Goto
  <2> QED
    BY <1>10, <2>2 DEF Deselect, espVars
<1>11. ASSUME NEW t \in Tasks, ReceiveResponse(t) PROVE InStep'
  <2>1. \A u \in Tasks : u # t => ~Active(u)
    BY <1>11 DEF IInv, OneActive, Active, At, ReceiveResponse
  <2>2. \A u \in Tasks : Sent(u)' = Sent(u) /\ ~Fetched(u) /\ ~Fetched(u)' /\ ~Transferring(u)'
    BY <1>11, <2>1 DEF ReceiveResponse, IInv, StageOfStep, TypeOK, Sent, Fetched, Transferring,
       Active,
       At, Goto
  <2> QED
    BY <1>11, <2>2 DEF ReceiveResponse, espVars
<1>12. ASSUME NEW t \in Tasks, Parse(t) PROVE InStep'
  <2>1. \A u \in Tasks : u # t => ~Active(u)
    BY <1>12 DEF IInv, OneActive, Active, At, Parse
  <2>2. Fetched(t)
    BY <1>12 DEF Parse, IInv, StageOfStep, Fetched, At
  <2>3. \A u \in Tasks : /\ ~(Sent(u)') /\ ~Fetched(u)' /\ ~Transferring(u)'
                         /\ Sent(u) => Fetched(u)
    BY <1>12, <2>1, <2>2 DEF Parse, TypeOK, Sent, Fetched, Transferring, Active, At, Goto
  <2> QED
    BY <1>12, <2>3 DEF Parse, espVars
<1>13. CASE ReadyInterrupt \/ TxInterrupt \/ UNCHANGED vars
    BY <1>13 DEF ReadyInterrupt, TxInterrupt, Sent, Fetched, Transferring, Active, At, taskVars,
       spiVars, espVars, vars
<1>14. CASE TransferDone
  <2>1. PICK t \in Tasks : At(t, "takeTx")
    BY <1>14 DEF TransferDone, IInv, TxHandover
  <2>2. \A u \in Tasks : u # t => ~Active(u) /\ ~Active(u)'
    BY <1>14, <2>1 DEF TransferDone, IInv, OneActive, Active, At, taskVars
  <2>3. CS /\ ESPBUSY /\ Transferring(t) /\ stage[t] \in {"send", "recv"}
    BY <1>14, <2>1 DEF TransferDone, Acknowledged, Transferring, TypeOK, IInv, SelectHeld,
       StageOfStep, SelectedLabels, Active, At
  <2>4. ESPBUSY' /\ rx' \in {rx, espJob}
    BY <1>14, <2>3 DEF TransferDone
  <2>5. \A u \in Tasks : ~Transferring(u)' /\ (u # t => ~(Sent(u)') /\ ~Fetched(u)')
    BY <1>14, <2>1, <2>2 DEF TransferDone, TypeOK, Transferring, Sent, Fetched, Active, At,
       taskVars
  <2>6. CASE stage[t] = "send"
    <3>1. espPhase = "cmd" /\ wire = cur[t] /\ cur[t].cmd \in Cmds
      BY <1>14, <2>1, <2>3, <2>6 DEF TransferDone, IInv, OwnFrame, CallMade, Unsent, Sent, Active,
         At
    <3>2. wire # Nothing
      BY <3>1, ConstantsAssumption DEF Nothing
    <3>3. espPhase' = "work"
      BY <1>14, <2>3, <3>1, <3>2 DEF TransferDone, Listening
    <3>4. Sent(t)' /\ ~Fetched(t)'
      BY <1>14, <2>1, <2>6 DEF TransferDone, Sent, Fetched, Active, At, taskVars
    <3> QED
      BY <2>4, <2>5, <3>3, <3>4
  <2>7. CASE stage[t] = "recv"
    <3>1. espPhase = "reply" /\ Sent(t)
      BY <2>1, <2>3, <2>7 DEF Sent, Active, At
    <3>2. espPhase' = "rearm" /\ rx' = IF rx = Nothing THEN espJob ELSE rx
      BY <1>14, <2>3, <3>1 DEF TransferDone, Listening
    <3>3. rx' = cur[t]
      BY <2>1, <2>7, <3>1, <3>2 DEF IInv, JobIsCurrent, RxIsOwn, Active, At
    <3>4. Fetched(t)' /\ cur' = cur
      BY <1>14, <2>1, <2>7 DEF TransferDone, Fetched, At, taskVars
    <3> QED
      BY <2>4, <2>5, <3>2, <3>3, <3>4
  <2> QED
    BY <2>3, <2>6, <2>7
<1>15. CASE EspRaiseBusy
    BY <1>15 DEF EspRaiseBusy, Sent, Fetched, Transferring, Active, At, taskVars, spiVars
<1>16. CASE EspExecute
  <2>1. \A u \in Tasks : /\ Sent(u)' = Sent(u) /\ Fetched(u)' = Fetched(u)
                         /\ Transferring(u)' = Transferring(u)
    BY <1>16 DEF EspExecute, Sent, Fetched, Transferring, Active, At, taskVars, spiVars
  <2>2. \A u \in Tasks : ~Transferring(u)
    BY <1>16 DEF EspExecute
  <2> QED
    BY <1>16, <2>1, <2>2 DEF EspExecute, taskVars, spiVars
<1>17. CASE EspArm
  <2>1. \A u \in Tasks : /\ Sent(u)' = Sent(u) /\ Fetched(u)' = Fetched(u)
                         /\ Transferring(u)' = Transferring(u)
    BY <1>17 DEF EspArm, Sent, Fetched, Transferring, Active, At, taskVars, spiVars
  <2>2. \A u \in Tasks : ~Transferring(u)
    BY <1>17 DEF EspArm
  <2> QED
    BY <1>17, <2>1, <2>2 DEF EspArm, taskVars, spiVars
<1>18. CASE EspRestart
    BY <1>18 DEF EspRestart, TypeOK
<1> QED
    BY <1>1, <1>2, <1>3, <1>4, <1>5, <1>6, <1>7, <1>8, <1>9, <1>10, <1>11, <1>12, <1>13, <1>14,
       <1>15, <1>16, <1>17, <1>18 DEF Next, TaskStep, EspStep

\* Restarts are counted and never uncounted.
LEMMA RestartsGrow == TypeOK /\ [Next]_vars /\ restarts' = 0 => restarts = 0
BY DEF TypeOK, Next, Call, WiFiInit, SpiDrvEnd, TaskStep, WaitForSlaveSelect, BeginDone,
   CheckReady,
       TakeReady, SpinDone, Select, CheckSelected, TakeSelected, PutArray, TakeTx, Deselect,
       ReceiveResponse, Parse, ReadyInterrupt, TxInterrupt, TransferDone, EspStep, EspRaiseBusy,
       EspExecute, EspArm, EspRestart, ResetESP, vars, espVars

\* An accepted command and its reply find the coprocessor listening: the two
\* stay in step as long as the coprocessor keeps its part of the handshake.
THEOREM PhaseInvariant == ASSUME Serialized PROVE Spec => []PhaseInv
<1>1. TypeOK /\ IInv /\ PhaseInv /\ [Next]_vars => PhaseInv'
    BY StaysInitializedStep, InStepStep, RestartsGrow DEF PhaseInv
<1> QED
    BY <1>1, PhaseInit, TypeCorrect, Invariant, PTL DEF Spec

\* What a call that has come back shows, of the last call of each task.
LEMMA SpuriousStep ==
    ASSUME TypeOK, IInv, PhaseInv, NoSpuriousFailure, [Next]_vars
    PROVE  NoSpuriousFailure'
<1> SUFFICES ASSUME ~LateBusy, restarts' = 0, NEW t \in Tasks, At(t, "idle")', stage'[t] = "recv"
             PROVE  reply'[t] = cur'[t]
    BY DEF NoSpuriousFailure
<1>1. restarts = 0 /\ InStep
    BY RestartsGrow DEF PhaseInv
<1>2. CASE At(t, "idle") /\ stage[t] = "recv" /\ reply'[t] = reply[t] /\ cur'[t] = cur[t]
    BY <1>1, <1>2 DEF NoSpuriousFailure
<1>3. CASE Parse(t)
  <2>1. Fetched(t) /\ rx = cur[t]
    BY <1>1, <1>3 DEF Parse, IInv, StageOfStep, Fetched, InStep, At
  <2> QED
    BY <1>3, <2>1 DEF Parse, TypeOK
<1>4. Parse(t) \/ (At(t, "idle") /\ stage[t] = "recv" /\ reply'[t] = reply[t] /\ cur'[t] = cur[t])
  <2>1. ASSUME NEW u \in Tasks, TaskStep(u), ~Parse(t)
        PROVE  At(t, "idle") /\ stage[t] = "recv" /\ reply'[t] = reply[t] /\ cur'[t] = cur[t]
    BY <2>1 DEF TaskStep, WaitForSlaveSelect, BeginDone, CheckReady, TakeReady, SpinDone, Select,
       CheckSelected, TakeSelected, PutArray, TakeTx, Deselect, ReceiveResponse, Parse, Goto, At,
       TypeOK
  <2>2. ASSUME NEW u \in Tasks, WiFiInit(u) \/ SpiDrvEnd(u) \/ \E c \in Cmds : Call(u, c)
        PROVE  At(t, "idle") /\ stage[t] = "recv" /\ reply'[t] = reply[t] /\ cur'[t] = cur[t]
    BY <2>2 DEF WiFiInit, SpiDrvEnd, Call, Goto, At, TypeOK, taskVars
  <2>3. CASE UNCHANGED taskVars
    BY <2>3 DEF At, taskVars
  <2>4. TransferDone \/ ReadyInterrupt \/ TxInterrupt \/ EspStep \/ EspRestart \/ UNCHANGED vars
        => UNCHANGED taskVars
    BY DEF TransferDone, ReadyInterrupt, TxInterrupt, EspStep, EspRaiseBusy, EspExecute, EspArm,
       EspRestart, vars
  <2> QED
    BY <2>1, <2>2, <2>3, <2>4 DEF Next
<1> QED
    BY <1>2, <1>3, <1>4

\* With a coprocessor that acknowledges in time and does not restart no call
\* comes back empty-handed, whatever the semaphores still hold from earlier
\* exchanges: SpiDrv_receiveResponseCmd finds the reply to its command.
THEOREM NeverSpurious == ASSUME Serialized PROVE Spec => []NoSpuriousFailure
<1>1. Init => NoSpuriousFailure
    BY DEF Init, NoSpuriousFailure
<1>2. TypeOK /\ IInv /\ PhaseInv /\ NoSpuriousFailure /\ [Next]_vars => NoSpuriousFailure'
    BY SpuriousStep
<1> QED
    BY <1>1, <1>2, TypeCorrect, Invariant, PhaseInvariant, PTL DEF Spec
=============================================================================
