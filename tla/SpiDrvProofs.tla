---------------------------- MODULE SpiDrvProofs ----------------------------
(***************************************************************************)
(* Proofs about the SPI driver, for any number of tasks, command codes,    *)
(* calls and restarts.                                                     *)
(*                                                                         *)
(* Type correctness holds whatever the callers do.  The safety properties  *)
(* need callers that exclude one another (Serialized): then IInv is        *)
(* inductive, and each of them is one of its conjuncts or follows at once. *)
(***************************************************************************)
EXTENDS SpiDrv, TLAPS

\* The definitions every step of a task goes through.
LEMMA FrameFacts ==
    /\ Nothing \in Frame
    /\ \A n \in Nat, c \in Cmds : [id |-> n, cmd |-> c] \in Frame
    /\ \A f \in Frame : f.id \in Nat
BY DEF Nothing, Frame

LEMMA TypeInvariant == TypeOK /\ [Next]_vars => TypeOK'
<1> SUFFICES ASSUME TypeOK, [Next]_vars PROVE TypeOK'
    OBVIOUS
<1> USE DEF TypeOK
<1>1. ASSUME NEW t \in Tasks, NEW c \in Cmds, Call(t, c) PROVE TypeOK'
    BY <1>1, FrameFacts DEF Call, Goto, Labels, ClearBuffers, semVars, espVars
<1>2. ASSUME NEW t \in Tasks, WiFiInit(t) PROVE TypeOK'
    BY <1>2, FrameFacts DEF WiFiInit, ResetESP, Goto, Labels, spiVars
<1>3. ASSUME NEW t \in Tasks, SpiDrvEnd(t) PROVE TypeOK'
    BY <1>3, FrameFacts DEF SpiDrvEnd, taskVars, semVars
<1>4. ASSUME NEW t \in Tasks, TaskStep(t) PROVE TypeOK'
  <2>1. CASE WaitForSlaveSelect(t)
    <3>1. CASE initialized
      BY <2>1, <3>1 DEF WaitForSlaveSelect, Goto, Labels, semVars, espVars, spiVars
    <3>2. CASE ~initialized
      BY <2>1, <3>2, FrameFacts DEF WaitForSlaveSelect, ResetESP, Goto, Labels, spiVars
    <3> QED
      BY <3>1, <3>2
  <2>2. CASE BeginDone(t)
    BY <2>2 DEF BeginDone, Goto, Labels, semVars, espVars, spiVars
  <2>3. CASE CheckReady(t)
    BY <2>3 DEF CheckReady, Goto, Labels, semVars, espVars, spiVars
  <2>4. CASE TakeReady(t)
    BY <2>4 DEF TakeReady, Goto, Labels, espVars, spiVars
  <2>5. CASE SpinDone(t)
    BY <2>5 DEF SpinDone, Goto, Labels, semVars, espVars, spiVars
  <2>6. CASE Select(t)
    BY <2>6 DEF Select, Goto, Labels, semVars, espVars
  <2>7. CASE CheckSelected(t)
    BY <2>7 DEF CheckSelected, Goto, Labels, semVars, espVars, spiVars
  <2>8. CASE TakeSelected(t)
    BY <2>8 DEF TakeSelected, Goto, Labels, espVars, spiVars
  <2>9. CASE PutArray(t)
    BY <2>9, FrameFacts DEF PutArray, Goto, Labels, semVars, espVars
  <2>10. CASE TakeTx(t)
    BY <2>10 DEF TakeTx, Goto, Labels, espVars, spiVars
  <2>11. CASE Deselect(t)
    <3>1. pc' \in [Tasks -> Labels]
      BY <2>11 DEF Deselect, Goto, Labels
    <3>2. /\ CS' \in BOOLEAN
          /\ UNCHANGED <<stage, cur, reply, initialized, semVars, txBuffer, rx, shifting, wire,
                         txIrq, espVars, calls>>
      BY <2>11 DEF Deselect
    <3> QED
      BY <3>1, <3>2 DEF semVars, espVars
  <2>12. CASE ReceiveResponse(t)
    BY <2>12, FrameFacts DEF ReceiveResponse, ClearBuffers, Goto, Labels, semVars, espVars
  <2>13. CASE Parse(t)
    BY <2>13, FrameFacts DEF Parse, Goto, Labels, semVars, espVars
  <2> QED
    BY <1>4, <2>1, <2>2, <2>3, <2>4, <2>5, <2>6, <2>7, <2>8, <2>9, <2>10, <2>11, <2>12,
       <2>13 DEF TaskStep
<1>5. CASE ReadyInterrupt
  <2>1. slaveReadyDetected' \in {"null", "empty", "full"}
    BY <1>5 DEF ReadyInterrupt, Give
  <2> QED
    BY <1>5, <2>1 DEF ReadyInterrupt, taskVars, spiVars
<1>6. CASE TxInterrupt
  <2>1. spiTxCompleted' \in {"null", "empty", "full"}
    BY <1>6 DEF TxInterrupt, Give
  <2> QED
    BY <1>6, <2>1 DEF TxInterrupt, taskVars, espVars
<1>7. CASE TransferDone
  <2>1. /\ rx' \in Frame /\ espJob' \in Frame
        /\ espPhase' \in {"off", "boot", "cmd", "work", "reply", "rearm"}
    BY <1>7, FrameFacts DEF TransferDone
  <2>2. shifting' \in BOOLEAN /\ txIrq' \in BOOLEAN
    BY <1>7 DEF TransferDone
  <2>3. UNCHANGED <<taskVars, initialized, semVars, txBuffer, CS, wire, readyIrq, ESPBUSY,
                    executed, restarts, calls>>
    BY <1>7 DEF TransferDone
  <2> QED
    BY <2>1, <2>2, <2>3 DEF taskVars, semVars
<1>8. CASE EspRaiseBusy
    BY <1>8 DEF EspRaiseBusy, taskVars, semVars, spiVars
<1>9. CASE EspExecute
  <2>1. executed' \in Seq(Nat)
    BY <1>9, FrameFacts DEF EspExecute
  <2> QED
    BY <1>9, <2>1 DEF EspExecute, taskVars, semVars, spiVars
<1>10. CASE EspArm
    BY <1>10 DEF EspArm, taskVars, semVars, spiVars
<1>11. CASE EspRestart
    BY <1>11, FrameFacts DEF EspRestart, taskVars, semVars, spiVars
<1>12. CASE UNCHANGED vars
    BY <1>12 DEF vars, taskVars, semVars, spiVars, espVars
<1> QED
    BY <1>1, <1>2, <1>3, <1>4, <1>5, <1>6, <1>7, <1>8, <1>9, <1>10, <1>11, <1>12
    DEF Next, EspStep

\* Every variable of the driver keeps its type: in particular a semaphore is
\* never made anything but absent, empty or full, and the frames on the wire
\* and in the buffers are frames of calls.  About every function of spi_drv.c.
THEOREM TypeCorrect == Spec => []TypeOK
<1>1. ASSUME Init PROVE TypeOK
  <2>1. pc \in [Tasks -> Labels] /\ stage \in [Tasks -> {"send", "recv", "init"}]
    BY <1>1 DEF Init, Labels
  <2>2. cur \in [Tasks -> Frame] /\ reply \in [Tasks -> Frame]
    BY <1>1, FrameFacts DEF Init
  <2>3. executed \in Seq(Nat)
    BY <1>1 DEF Init
  <2> QED
    BY <1>1, <2>1, <2>2, <2>3, FrameFacts DEF Init, TypeOK
<1> QED
    BY <1>1, TypeInvariant, PTL DEF Spec

-----------------------------------------------------------------------------
(* Callers that exclude one another.  Of each step: first why no other task *)
(* is in the driver, where that matters, then each conjunct of IInv that    *)
(* the step can disturb, then those that it leaves alone.                   *)

LEMMA InvariantInit == Init => IInv
BY DEF Init, IInv, OneActive, TxHandover, SelectHeld, ReadyCreated, NoLostWakeup, StageOfStep,
       CallMade, OwnFrame, JobIsCurrent, RxIsOwn, ReplyIsOwn, Active, Sent, Fetched, Unsent,
       SelectedLabels, At

LEMMA InvariantStep == ASSUME Serialized, TypeOK, IInv, [Next]_vars PROVE IInv'
<1>1. ASSUME NEW t \in Tasks, NEW c \in Cmds, Call(t, c) PROVE IInv'
  <2>1. \A u \in Tasks : ~Active(u)
    BY <1>1 DEF Active, At, Exclusive, Call
  <2>2. OneActive'
    BY <1>1, <2>1 DEF Call, OneActive, Active, At, Goto
  <2>3. StageOfStep'
    BY <1>1, <2>1 DEF Call, TypeOK, StageOfStep, Active, At, Goto
  <2>4. CallMade'
    BY <1>1, <2>1 DEF Call, TypeOK, CallMade, Active, At, Goto
  <2>5. OwnFrame'
    BY <1>1, <2>1 DEF Call, TypeOK, IInv, TxHandover, OwnFrame, Active, Unsent, At, Goto
  <2>6. JobIsCurrent'
    BY <1>1 DEF Call, TypeOK, IInv, JobIsCurrent, Active, Sent, Fetched, Unsent,
       SelectedLabels, At, Goto, espVars
  <2>7. RxIsOwn'
    BY <1>1 DEF Call, RxIsOwn, ClearBuffers
  <2>8. ReplyIsOwn'
    BY <1>1 DEF Call, TypeOK, IInv, ReplyIsOwn
  <2>9. TxHandover' /\ SelectHeld' /\ ReadyCreated' /\ NoLostWakeup'
    BY <1>1, <2>1 DEF Call, IInv, TxHandover, SelectHeld, ReadyCreated, NoLostWakeup,
       Active, SelectedLabels, At, Goto, semVars
  <2> QED
    BY <2>2, <2>3, <2>4, <2>5, <2>6, <2>7, <2>8, <2>9 DEF IInv
<1>2. ASSUME NEW t \in Tasks, WiFiInit(t) PROVE IInv'
  <2>1. \A u \in Tasks : ~Active(u)
    BY <1>2 DEF Active, At, Exclusive, WiFiInit
  <2>2. OneActive'
    BY <1>2, <2>1 DEF WiFiInit, OneActive, Active, At, Goto
  <2>3. ReadyCreated'
    BY <1>2 DEF WiFiInit, ReadyCreated, ResetESP
  <2>4. StageOfStep'
    BY <1>2, <2>1 DEF WiFiInit, StageOfStep, Active, At, Goto
  <2>5. JobIsCurrent'
    BY <1>2 DEF WiFiInit, JobIsCurrent, ResetESP
  <2>6. TxHandover' /\ SelectHeld' /\ NoLostWakeup' /\ CallMade' /\ OwnFrame' /\ RxIsOwn' /\
      ReplyIsOwn'
    BY <1>2, <2>1 DEF WiFiInit, TypeOK, IInv, TxHandover, SelectHeld, NoLostWakeup,
       CallMade, OwnFrame, RxIsOwn, ReplyIsOwn, Active, Unsent, SelectedLabels, At, Goto,
       spiVars, ResetESP
  <2> QED
    BY <2>2, <2>3, <2>4, <2>5, <2>6 DEF IInv
<1>3. ASSUME NEW t \in Tasks, SpiDrvEnd(t) PROVE IInv'
  <2>1. \A u \in Tasks : ~Active(u)
    BY <1>3 DEF Active, At, Exclusive, SpiDrvEnd
  <2>2. SelectHeld'
    BY <1>3, <2>1 DEF SpiDrvEnd, SelectHeld, Active, SelectedLabels, At, taskVars
  <2>3. ReadyCreated'
    BY <1>3, <2>1 DEF SpiDrvEnd, ReadyCreated, Active, SelectedLabels, At, taskVars
  <2>4. JobIsCurrent'
    BY <1>3 DEF SpiDrvEnd, JobIsCurrent
  <2>5. OneActive' /\ TxHandover' /\ NoLostWakeup' /\ StageOfStep' /\ CallMade' /\ OwnFrame'
      /\ RxIsOwn' /\ ReplyIsOwn'
    BY <1>3, <2>1 DEF SpiDrvEnd, IInv, OneActive, TxHandover, NoLostWakeup, StageOfStep,
       CallMade, OwnFrame, RxIsOwn, ReplyIsOwn, Active, Unsent, At, taskVars, semVars
  <2> QED
    BY <2>2, <2>3, <2>4, <2>5 DEF IInv
<1>4. ASSUME NEW t \in Tasks, WaitForSlaveSelect(t) PROVE IInv'
  <2>1. \A u \in Tasks : u # t => ~Active(u)
    BY <1>4 DEF IInv, OneActive, Active, At, WaitForSlaveSelect
  <2>2. ReadyCreated'
    BY <1>4 DEF WaitForSlaveSelect, IInv, ReadyCreated, semVars, ResetESP
  <2>3. NoLostWakeup'
    BY <1>4, <2>1 DEF WaitForSlaveSelect, TypeOK, NoLostWakeup, Active, At, Goto
  <2>4. JobIsCurrent'
    <3>1. CASE initialized
      BY <1>4, <2>1, <3>1, ZenonT(60) DEF WaitForSlaveSelect, TypeOK, IInv, JobIsCurrent, Active, Sent,
         Fetched, Unsent, SelectedLabels, At, Goto, spiVars, espVars
    <3>2. CASE ~initialized
      BY <1>4, <3>2 DEF WaitForSlaveSelect, ResetESP, JobIsCurrent
    <3> QED
      BY <3>1, <3>2
  <2>5. OneActive' /\ StageOfStep' /\ CallMade'
    BY <1>4, <2>1 DEF WaitForSlaveSelect, TypeOK, IInv, OneActive, StageOfStep, CallMade,
       Active, At, Goto
  <2>6. TxHandover'
    BY <1>4 DEF WaitForSlaveSelect, ResetESP, TypeOK, IInv, TxHandover, At, Goto, semVars,
       spiVars
  <2>7. SelectHeld' /\ OwnFrame' /\ RxIsOwn' /\ ReplyIsOwn'
    BY <1>4, <2>1 DEF WaitForSlaveSelect, TypeOK, IInv, SelectHeld, OwnFrame, RxIsOwn,
       ReplyIsOwn, Active, Sent, Unsent, SelectedLabels, At, Goto, spiVars
  <2> QED
    BY <2>2, <2>3, <2>4, <2>5, <2>6, <2>7 DEF IInv
<1>5. ASSUME NEW t \in Tasks, BeginDone(t) PROVE IInv'
  <2>1. \A u \in Tasks : u # t => ~Active(u)
    BY <1>5 DEF IInv, OneActive, Active, At, BeginDone
  <2>2. OneActive'
    BY <1>5, <2>1 DEF BeginDone, OneActive, Active, At, Goto
  <2>3. ReadyCreated'
    BY <1>5 DEF BeginDone, IInv, ReadyCreated, At, semVars
  <2>4. StageOfStep'
    BY <1>5, <2>1 DEF BeginDone, StageOfStep, Active, At, Goto
  <2>5. TxHandover' /\ SelectHeld' /\ NoLostWakeup' /\ CallMade' /\ OwnFrame' /\
      JobIsCurrent' /\ RxIsOwn' /\ ReplyIsOwn'
    BY <1>5, <2>1 DEF BeginDone, IInv, TxHandover, SelectHeld, NoLostWakeup, CallMade,
       OwnFrame, JobIsCurrent, RxIsOwn, ReplyIsOwn, Active, Sent, Fetched, Unsent,
       SelectedLabels, At, Goto, semVars, spiVars, espVars
  <2> QED
    BY <2>2, <2>3, <2>4, <2>5 DEF IInv
<1>6. ASSUME NEW t \in Tasks, CheckReady(t) PROVE IInv'
  <2>1. \A u \in Tasks : u # t => ~Active(u)
    BY <1>6 DEF IInv, OneActive, Active, At, CheckReady
  <2>2. NoLostWakeup'
    BY <1>6, <2>1 DEF CheckReady, NoLostWakeup, Active, At, Goto, espVars
  <2>3. OneActive' /\ TxHandover' /\ SelectHeld' /\ ReadyCreated' /\ StageOfStep' /\
      CallMade' /\ OwnFrame' /\ JobIsCurrent' /\ RxIsOwn' /\ ReplyIsOwn'
    BY <1>6, <2>1 DEF CheckReady, IInv, OneActive, TxHandover, SelectHeld, ReadyCreated,
       StageOfStep, CallMade, OwnFrame, JobIsCurrent, RxIsOwn, ReplyIsOwn, Active, Sent,
       Fetched, Unsent, SelectedLabels, At, Goto, semVars, spiVars, espVars
  <2> QED
    BY <2>2, <2>3 DEF IInv
<1>7. ASSUME NEW t \in Tasks, TakeReady(t) PROVE IInv'
  <2>1. \A u \in Tasks : u # t => ~Active(u)
    BY <1>7 DEF IInv, OneActive, Active, At, TakeReady
  <2>2. ReadyCreated'
    BY <1>7 DEF TakeReady, ReadyCreated
  <2>3. NoLostWakeup'
    BY <1>7, <2>1 DEF TakeReady, TypeOK, NoLostWakeup, Active, At, Goto
  <2>4. OneActive' /\ TxHandover' /\ SelectHeld' /\ StageOfStep' /\ CallMade' /\ OwnFrame'
      /\ JobIsCurrent' /\ RxIsOwn' /\ ReplyIsOwn'
    BY <1>7, <2>1 DEF TakeReady, IInv, OneActive, TxHandover, SelectHeld, StageOfStep,
       CallMade, OwnFrame, JobIsCurrent, RxIsOwn, ReplyIsOwn, Active, Sent, Fetched, Unsent,
       SelectedLabels, At, Goto, spiVars, espVars
  <2> QED
    BY <2>2, <2>3, <2>4 DEF IInv
<1>8. ASSUME NEW t \in Tasks, SpinDone(t) PROVE IInv'
  <2>1. \A u \in Tasks : u # t => ~Active(u)
    BY <1>8 DEF IInv, OneActive, Active, At, SpinDone
  <2>2. JobIsCurrent'
    BY <1>8, <2>1 DEF SpinDone, IInv, JobIsCurrent, Active, Sent, Fetched, Unsent, At, Goto,
       espVars
  <2>3. OneActive' /\ TxHandover' /\ SelectHeld' /\ ReadyCreated' /\ NoLostWakeup' /\
      StageOfStep' /\ CallMade' /\ OwnFrame' /\ RxIsOwn' /\ ReplyIsOwn'
    BY <1>8, <2>1 DEF SpinDone, IInv, OneActive, TxHandover, SelectHeld, ReadyCreated,
       NoLostWakeup, StageOfStep, CallMade, OwnFrame, RxIsOwn, ReplyIsOwn, Active, Sent,
       Unsent, SelectedLabels, At, Goto, semVars, spiVars
  <2> QED
    BY <2>2, <2>3 DEF IInv
<1>9. ASSUME NEW t \in Tasks, Select(t) PROVE IInv'
  <2>1. \A u \in Tasks : u # t => ~Active(u)
    BY <1>9 DEF IInv, OneActive, Active, At, Select
  <2>2. SelectHeld'
    BY <1>9 DEF Select, SelectHeld
  <2>3. JobIsCurrent'
    BY <1>9 DEF Select, IInv, JobIsCurrent, Active, Sent, Fetched, Unsent, At, Goto, espVars
  <2>4. OneActive' /\ TxHandover' /\ ReadyCreated' /\ NoLostWakeup' /\ StageOfStep' /\
      CallMade' /\ OwnFrame' /\ RxIsOwn' /\ ReplyIsOwn'
    BY <1>9, <2>1 DEF Select, IInv, OneActive, TxHandover, ReadyCreated, NoLostWakeup,
       StageOfStep, CallMade, OwnFrame, RxIsOwn, ReplyIsOwn, Active, Sent, Unsent, At, Goto,
       semVars
  <2> QED
    BY <2>2, <2>3, <2>4 DEF IInv
<1>10. ASSUME NEW t \in Tasks, CheckSelected(t) PROVE IInv'
  <2>1. \A u \in Tasks : u # t => ~Active(u)
    BY <1>10 DEF IInv, OneActive, Active, At, CheckSelected
  <2>2. SelectHeld'
    BY <1>10 DEF CheckSelected, IInv, SelectHeld, SelectedLabels, At, spiVars
  <2>3. ReadyCreated'
    BY <1>10 DEF CheckSelected, IInv, ReadyCreated, SelectedLabels, At, semVars
  <2>4. OneActive' /\ TxHandover' /\ NoLostWakeup' /\ StageOfStep' /\ CallMade' /\ OwnFrame'
      /\ JobIsCurrent' /\ RxIsOwn' /\ ReplyIsOwn'
    BY <1>10, <2>1 DEF CheckSelected, IInv, OneActive, TxHandover, NoLostWakeup,
       StageOfStep, CallMade, OwnFrame, JobIsCurrent, RxIsOwn, ReplyIsOwn, Active, Sent,
       Fetched, Unsent, SelectedLabels, At, Goto, semVars, spiVars, espVars
  <2> QED
    BY <2>2, <2>3, <2>4 DEF IInv
<1>11. ASSUME NEW t \in Tasks, TakeSelected(t) PROVE IInv'
  <2>1. \A u \in Tasks : u # t => ~Active(u)
    BY <1>11 DEF IInv, OneActive, Active, At, TakeSelected
  <2>2. ReadyCreated'
    BY <1>11 DEF TakeSelected, IInv, ReadyCreated, SelectedLabels, At
  <2>3. NoLostWakeup'
    BY <1>11, <2>1 DEF TakeSelected, NoLostWakeup, Active, At, Goto
  <2>4. OneActive' /\ TxHandover' /\ SelectHeld' /\ StageOfStep' /\ CallMade' /\ OwnFrame'
      /\ JobIsCurrent' /\ RxIsOwn' /\ ReplyIsOwn'
    BY <1>11, <2>1 DEF TakeSelected, IInv, OneActive, TxHandover, SelectHeld, StageOfStep,
       CallMade, OwnFrame, JobIsCurrent, RxIsOwn, ReplyIsOwn, Active, Sent, Fetched, Unsent,
       SelectedLabels, At, Goto, spiVars, espVars
  <2> QED
    BY <2>2, <2>3, <2>4 DEF IInv
<1>12. ASSUME NEW t \in Tasks, PutArray(t) PROVE IInv'
  <2>1. \A u \in Tasks : u # t => ~Active(u)
    BY <1>12 DEF IInv, OneActive, Active, At, PutArray
  <2>2. TxHandover'
    BY <1>12, <2>1 DEF PutArray, TypeOK, IInv, TxHandover, Active, At, Goto, semVars
  <2>3. OwnFrame'
    BY <1>12, <2>1 DEF PutArray, IInv, TxHandover, OwnFrame, Active, Sent, Unsent, At, Goto
  <2>4. JobIsCurrent'
    BY <1>12, <2>1 DEF PutArray, IInv, JobIsCurrent, Active, Sent, Fetched, Unsent,
       SelectedLabels, At, Goto, espVars
  <2>5. OneActive' /\ SelectHeld' /\ ReadyCreated' /\ NoLostWakeup' /\ StageOfStep' /\
      CallMade' /\ RxIsOwn' /\ ReplyIsOwn'
    BY <1>12, <2>1 DEF PutArray, IInv, OneActive, SelectHeld, ReadyCreated, NoLostWakeup,
       StageOfStep, CallMade, RxIsOwn, ReplyIsOwn, Active, SelectedLabels, At, Goto, semVars
  <2> QED
    BY <2>2, <2>3, <2>4, <2>5 DEF IInv
<1>13. ASSUME NEW t \in Tasks, TakeTx(t) PROVE IInv'
  <2>1. \A u \in Tasks : u # t => ~Active(u)
    BY <1>13 DEF IInv, OneActive, Active, At, TakeTx
  <2>2. TxHandover'
    BY <1>13 DEF TakeTx, IInv, TxHandover, spiVars
  <2>3. JobIsCurrent'
    BY <1>13 DEF TakeTx, IInv, TxHandover, JobIsCurrent, Active, Sent, Fetched, Unsent, At,
       Goto, spiVars, espVars
  <2>4. OneActive' /\ SelectHeld' /\ ReadyCreated' /\ NoLostWakeup' /\ StageOfStep' /\
      CallMade' /\ OwnFrame' /\ RxIsOwn' /\ ReplyIsOwn'
    BY <1>13, <2>1 DEF TakeTx, TypeOK, IInv, OneActive, SelectHeld, ReadyCreated,
       NoLostWakeup, StageOfStep, CallMade, OwnFrame, RxIsOwn, ReplyIsOwn, Active, Sent,
       Unsent, SelectedLabels, At, Goto, spiVars
  <2> QED
    BY <2>2, <2>3, <2>4 DEF IInv
<1>14. ASSUME NEW t \in Tasks, Deselect(t) PROVE IInv'
  <2>1. \A u \in Tasks : u # t => ~Active(u)
    BY <1>14 DEF IInv, OneActive, Active, At, Deselect
  <2>2. SelectHeld'
    BY <1>14, <2>1 DEF Deselect, TypeOK, SelectHeld, Active, SelectedLabels, At, Goto
  <2>3. StageOfStep'
    BY <1>14 DEF Deselect, TypeOK, IInv, StageOfStep, Active, At, Goto
  <2>4. JobIsCurrent'
    BY <1>14 DEF Deselect, IInv, JobIsCurrent, Active, Sent, Fetched, Unsent, At, Goto,
       espVars
  <2>5. OneActive' /\ TxHandover' /\ ReadyCreated' /\ NoLostWakeup' /\ CallMade' /\
      OwnFrame' /\ RxIsOwn' /\ ReplyIsOwn'
    BY <1>14, <2>1 DEF Deselect, IInv, OneActive, TxHandover, ReadyCreated, NoLostWakeup,
       CallMade, OwnFrame, RxIsOwn, ReplyIsOwn, Active, Sent, Unsent, SelectedLabels, At,
       Goto, semVars
  <2> QED
    BY <2>2, <2>3, <2>4, <2>5 DEF IInv
<1>15. ASSUME NEW t \in Tasks, ReceiveResponse(t) PROVE IInv'
  <2>1. \A u \in Tasks : u # t => ~Active(u)
    BY <1>15 DEF IInv, OneActive, Active, At, ReceiveResponse
  <2>2. StageOfStep'
    BY <1>15, <2>1 DEF ReceiveResponse, TypeOK, StageOfStep, Active, At, Goto
  <2>3. OwnFrame'
    BY <1>15, <2>1 DEF ReceiveResponse, TypeOK, OwnFrame, Active, Unsent, At, Goto
  <2>4. JobIsCurrent'
    BY <1>15 DEF ReceiveResponse, TypeOK, IInv, StageOfStep, JobIsCurrent, Active, Sent,
       Fetched, Unsent, At, Goto, espVars
  <2>5. RxIsOwn'
    BY <1>15 DEF ReceiveResponse, RxIsOwn, ClearBuffers
  <2>6. OneActive' /\ TxHandover' /\ SelectHeld' /\ ReadyCreated' /\ NoLostWakeup' /\
      CallMade' /\ ReplyIsOwn'
    BY <1>15, <2>1 DEF ReceiveResponse, IInv, OneActive, TxHandover, SelectHeld,
       ReadyCreated, NoLostWakeup, StageOfStep, CallMade, ReplyIsOwn, Active,
       SelectedLabels, At, Goto, semVars
  <2> QED
    BY <2>2, <2>3, <2>4, <2>5, <2>6 DEF IInv
<1>16. ASSUME NEW t \in Tasks, Parse(t) PROVE IInv'
  <2>1. \A u \in Tasks : u # t => ~Active(u)
    BY <1>16 DEF IInv, OneActive, Active, At, Parse
  <2>2. OneActive'
    BY <1>16, <2>1 DEF Parse, OneActive, Active, At, Goto
  <2>3. JobIsCurrent'
    BY <1>16 DEF Parse, IInv, JobIsCurrent, Active, Sent, Fetched, Unsent, At, Goto, espVars
  <2>4. RxIsOwn'
    BY <1>16 DEF Parse, RxIsOwn
  <2>5. ReplyIsOwn'
    BY <1>16 DEF Parse, IInv, StageOfStep, RxIsOwn, ReplyIsOwn, Active, At
  <2>6. TxHandover' /\ SelectHeld' /\ ReadyCreated' /\ NoLostWakeup' /\ StageOfStep' /\
      CallMade' /\ OwnFrame'
    BY <1>16, <2>1 DEF Parse, TypeOK, IInv, TxHandover, SelectHeld, ReadyCreated,
       NoLostWakeup, StageOfStep, CallMade, OwnFrame, Active, Unsent, SelectedLabels, At,
       Goto, semVars
  <2> QED
    BY <2>2, <2>3, <2>4, <2>5, <2>6 DEF IInv
<1>17. CASE ReadyInterrupt
  <2>1. ReadyCreated'
    BY <1>17 DEF ReadyInterrupt, IInv, ReadyCreated, taskVars, Give
  <2>2. NoLostWakeup'
    BY <1>17 DEF ReadyInterrupt, IInv, ReadyCreated, NoLostWakeup, At, taskVars, Give
  <2>3. OneActive' /\ TxHandover' /\ SelectHeld' /\ StageOfStep' /\ CallMade' /\ OwnFrame'
      /\ JobIsCurrent' /\ RxIsOwn' /\ ReplyIsOwn'
    BY <1>17 DEF ReadyInterrupt, IInv, OneActive, TxHandover, SelectHeld, StageOfStep,
       CallMade, OwnFrame, JobIsCurrent, RxIsOwn, ReplyIsOwn, Active, Sent, Fetched, Unsent,
       At, taskVars, spiVars
  <2> QED
    BY <2>1, <2>2, <2>3 DEF IInv
<1>18. CASE TxInterrupt
  <2>1. TxHandover'
    BY <1>18 DEF TxInterrupt, IInv, TxHandover, At, taskVars
  <2>2. OneActive' /\ SelectHeld' /\ ReadyCreated' /\ NoLostWakeup' /\ StageOfStep' /\
      CallMade' /\ OwnFrame' /\ JobIsCurrent' /\ RxIsOwn' /\ ReplyIsOwn'
    BY <1>18 DEF TxInterrupt, IInv, OneActive, SelectHeld, ReadyCreated, NoLostWakeup,
       StageOfStep, CallMade, OwnFrame, JobIsCurrent, RxIsOwn, ReplyIsOwn, Active, Sent,
       Fetched, Unsent, At, taskVars, espVars
  <2> QED
    BY <2>1, <2>2 DEF IInv
<1>19. CASE TransferDone
  <2>1. TxHandover'
    BY <1>19 DEF TransferDone, IInv, TxHandover, At, taskVars, semVars
  <2>2. OwnFrame'
    BY <1>19 DEF TransferDone, IInv, OwnFrame, Active, Sent, Unsent, At, taskVars
  <2>3. JobIsCurrent'
    BY <1>19 DEF TransferDone, TypeOK, IInv, OneActive, TxHandover, SelectHeld, StageOfStep,
       OwnFrame, JobIsCurrent, Active, Sent, Fetched, Unsent, SelectedLabels, At, taskVars,
       Listening, Acknowledged
  <2>4. RxIsOwn'
    BY <1>19 DEF TransferDone, IInv, JobIsCurrent, RxIsOwn, Active, Sent, At, taskVars
  <2>5. OneActive' /\ SelectHeld' /\ ReadyCreated' /\ NoLostWakeup' /\ StageOfStep' /\
      CallMade' /\ ReplyIsOwn'
    BY <1>19 DEF TransferDone, IInv, OneActive, SelectHeld, ReadyCreated, NoLostWakeup,
       StageOfStep, CallMade, ReplyIsOwn, Active, At, taskVars, semVars
  <2> QED
    BY <2>1, <2>2, <2>3, <2>4, <2>5 DEF IInv
<1>20. CASE EspRaiseBusy
  <2>1. NoLostWakeup'
    BY <1>20 DEF EspRaiseBusy, NoLostWakeup
  <2>2. JobIsCurrent'
    BY <1>20 DEF EspRaiseBusy, IInv, JobIsCurrent, Active, Sent, Unsent, At, taskVars,
       spiVars
  <2>3. OneActive' /\ TxHandover' /\ SelectHeld' /\ ReadyCreated' /\ StageOfStep' /\
      CallMade' /\ OwnFrame' /\ RxIsOwn' /\ ReplyIsOwn'
    BY <1>20 DEF EspRaiseBusy, IInv, OneActive, TxHandover, SelectHeld, ReadyCreated,
       StageOfStep, CallMade, OwnFrame, RxIsOwn, ReplyIsOwn, Active, Sent, Unsent, At,
       taskVars, semVars, spiVars
  <2> QED
    BY <2>1, <2>2, <2>3 DEF IInv
<1>21. CASE EspExecute
  <2>1. NoLostWakeup'
    BY <1>21 DEF EspExecute, NoLostWakeup
  <2>2. JobIsCurrent'
    BY <1>21 DEF EspExecute, IInv, JobIsCurrent, Active, Sent, At, taskVars, spiVars
  <2>3. OneActive' /\ TxHandover' /\ SelectHeld' /\ ReadyCreated' /\ StageOfStep' /\
      CallMade' /\ OwnFrame' /\ RxIsOwn' /\ ReplyIsOwn'
    BY <1>21 DEF EspExecute, IInv, OneActive, TxHandover, SelectHeld, ReadyCreated,
       StageOfStep, CallMade, OwnFrame, RxIsOwn, ReplyIsOwn, Active, Sent, Unsent, At,
       taskVars, semVars, spiVars
  <2> QED
    BY <2>1, <2>2, <2>3 DEF IInv
<1>22. CASE EspArm
  <2>1. NoLostWakeup'
    BY <1>22 DEF EspArm, NoLostWakeup
  <2>2. JobIsCurrent'
    BY <1>22 DEF EspArm, JobIsCurrent
  <2>3. OneActive' /\ TxHandover' /\ SelectHeld' /\ ReadyCreated' /\ StageOfStep' /\
      CallMade' /\ OwnFrame' /\ RxIsOwn' /\ ReplyIsOwn'
    BY <1>22 DEF EspArm, IInv, OneActive, TxHandover, SelectHeld, ReadyCreated, StageOfStep,
       CallMade, OwnFrame, RxIsOwn, ReplyIsOwn, Active, Sent, Unsent, At, taskVars, semVars,
       spiVars
  <2> QED
    BY <2>1, <2>2, <2>3 DEF IInv
<1>23. CASE EspRestart
  <2>1. NoLostWakeup'
    BY <1>23 DEF EspRestart, NoLostWakeup
  <2>2. JobIsCurrent'
    BY <1>23 DEF EspRestart, JobIsCurrent
  <2>3. OneActive' /\ TxHandover' /\ SelectHeld' /\ ReadyCreated' /\ StageOfStep' /\
      CallMade' /\ OwnFrame' /\ RxIsOwn' /\ ReplyIsOwn'
    BY <1>23 DEF EspRestart, IInv, OneActive, TxHandover, SelectHeld, ReadyCreated,
       StageOfStep, CallMade, OwnFrame, RxIsOwn, ReplyIsOwn, Active, Sent, Unsent, At,
       taskVars, semVars, spiVars
  <2> QED
    BY <2>1, <2>2, <2>3 DEF IInv
<1>24. CASE UNCHANGED vars
    BY <1>24 DEF vars, taskVars, semVars, spiVars, espVars, IInv, OneActive, TxHandover,
       SelectHeld, ReadyCreated, NoLostWakeup, StageOfStep, CallMade, OwnFrame,
       JobIsCurrent, RxIsOwn, ReplyIsOwn, Active, Sent, Fetched, Unsent, At
<1> QED
    BY <1>1, <1>2, <1>3, <1>4, <1>5, <1>6, <1>7, <1>8, <1>9, <1>10, <1>11, <1>12, <1>13,
       <1>14, <1>15, <1>16, <1>17, <1>18, <1>19, <1>20, <1>21, <1>22, <1>23, <1>24 DEF Next,
       TaskStep, EspStep

\* Serialized callers keep IInv: the token of a transfer never outlives it, the
\* shared transmit buffer holds the caller's frame until it is on the wire, and
\* the coprocessor's job is the caller's.  About every function of spi_drv.c.
THEOREM Invariant == ASSUME Serialized PROVE Spec => []IInv
<1>1. TypeOK /\ IInv /\ [Next]_vars => IInv'
    BY InvariantStep
<1> QED
    BY <1>1, InvariantInit, TypeCorrect, PTL DEF Spec

\* A reply that a call accepts is the reply to that very call, although only
\* the command code is compared (sendCmd's and receiveResponseCmd's clearing of
\* the buffers, and the callers' lock).
THEOREM RepliesAreOwn == ASSUME Serialized PROVE Spec => []ReplyIsOwn
<1>1. IInv => ReplyIsOwn
    BY DEF IInv
<1> QED
    BY <1>1, Invariant, PTL

\* Chip select is never released under a transfer: the take of spiTxCompleted
\* waits for the transfer of its own exchange.
THEOREM ChipSelectHeld == ASSUME Serialized PROVE Spec => []ChipSelectSpansTransfer
<1>1. IInv => ChipSelectSpansTransfer
    BY DEF IInv, TxHandover, SelectHeld, SelectedLabels, ChipSelectSpansTransfer, At
<1> QED
    BY <1>1, Invariant, PTL

\* The window between the look at ESPBUSY and the untimed take of
\* slaveReadyDetected loses no falling edge.
THEOREM NoWakeupLost == ASSUME Serialized PROVE Spec => []NoLostWakeup
<1>1. IInv => NoLostWakeup
    BY DEF IInv
<1> QED
    BY <1>1, Invariant, PTL

\* No task takes slaveReadyDetected before it exists.
THEOREM TakesAfterCreate == ASSUME Serialized PROVE Spec => []CreatedBeforeTaken
<1>1. IInv => CreatedBeforeTaken
    BY DEF IInv, ReadyCreated, SelectedLabels, CreatedBeforeTaken
<1> QED
    BY <1>1, Invariant, PTL
=============================================================================
