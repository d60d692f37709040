---------------------------- MODULE Invoke_proofs ----------------------------
(***************************************************************************)
(* Proofs about Invoke, for any exit codes, on Windows and elsewhere.      *)
(***************************************************************************)
EXTENDS Invoke, TLAPS

(* How far the main goroutine is says what has become of the tool.  *)
MainInv ==
    /\ child = "none" <=> main \in {"notify", "start"}
    /\ state # None <=> main \in {"close", "sleep"}
    /\ state # None => child = "gone"
    /\ "done" \in closed <=> main = "sleep"

(* The forwarder goes past its loop only when done is closed, and closes   *)
(* the channel sigs last.                                                  *)
ForwarderInv ==
    /\ forwarder = "forward" => inHand # None
    /\ forwarder \in {"stop", "close", "exit"} => "done" \in closed
    /\ forwarder \in {"close", "exit"} => notify = "stopped"
    /\ "sigs" \in closed => forwarder = "exit"
    /\ notify = "before" <=> main = "notify"
    /\ notify = "stopped" => "done" \in closed

(* A bomb that has gone off is late, and whatever ends the driver leaves   *)
(* the exit status of the tool, or 128 after a timer has run out.          *)
EndInv ==
    /\ bomb = "expired" => late
    /\ exit # None /\ child = "running" => bomb = "expired"
    /\ exit \in 0 .. 255 =>
          IF child = "none" THEN exit = invokeExitCode
          ELSE \/ state # None /\ exit = Status(state)
               \/ late /\ exit = invokeExitCode

DriverInv == MainInv /\ ForwarderInv /\ EndInv

LEMMA TypeInit == Init => TypeOK
  BY DEF Init, TypeOK

LEMMA DriverInvInit == Init => DriverInv
  BY NoneAssumption DEF Init, DriverInv, MainInv, ForwarderInv, EndInv

(* What the parent sees is a byte, for a tool that was killed as well.  *)
LEMMA StatusIsByte ==
  ASSUME NEW code \in Codes \cup {-1, 0, invokeExitCode}
  PROVE  Status(code) \in 0 .. 255
  BY CodesAssumption DEF Status, invokeExitCode

-----------------------------------------------------------------------------
(* One lemma for each goroutine.  *)

LEMMA KeepsMain ==
  ASSUME TypeOK, DriverInv, Main PROVE TypeOK' /\ DriverInv'
<1> USE DEF goVars, cmdVars, sigVars, envVars, Lives
<1>1. CASE Notify
  BY <1>1 DEF Notify, MainGoes, TypeOK, DriverInv, MainInv, ForwarderInv,
              EndInv
<1>2. CASE StartFails
  <2>1. Status(invokeExitCode) = invokeExitCode
    BY DEF Status, invokeExitCode
  <2>2. exit' = invokeExitCode /\ main = "start"
        /\ UNCHANGED <<goVars, cmdVars, sigVars, envVars, late>>
    BY <1>2, <2>1 DEF StartFails, Exit
  <2>3. TypeOK'
    BY <2>2 DEF TypeOK, invokeExitCode
  <2>4. DriverInv'
    BY <2>2 DEF DriverInv, MainInv, ForwarderInv, EndInv
  <2> QED BY <2>3, <2>4
<1>3. CASE Start
  <2>1. main = "start" /\ main' = "setProcess" /\ child' = "running"
        /\ exit = None /\ exit' = None
        /\ UNCHANGED <<forwarder, inHand, bomb, process, state, sigVars,
                       envVars, late>>
    BY <1>3 DEF Start, MainGoes
  <2>2. TypeOK'
    BY <2>1 DEF TypeOK
  <2>3. DriverInv'
    BY <2>1, NoneAssumption DEF DriverInv, MainInv, ForwarderInv, EndInv
  <2> QED BY <2>2, <2>3
<1>4. CASE SetProcess
  BY <1>4 DEF SetProcess, MainGoes, TypeOK, DriverInv, MainInv, ForwarderInv,
              EndInv
<1>5. CASE WaitReturns
  <2>1. state' # None
    BY <1>5, CodesAssumption, NoneAssumption DEF WaitReturns
  <2> QED BY <1>5, <2>1
      DEF WaitReturns, MainGoes, TypeOK, DriverInv, MainInv, ForwarderInv,
          EndInv
<1>6. CASE CloseDone
  BY <1>6 DEF CloseDone, MainGoes, TypeOK, DriverInv, MainInv, ForwarderInv,
              EndInv
<1> QED BY <1>1, <1>2, <1>3, <1>4, <1>5, <1>6 DEF Main

LEMMA KeepsForwarder ==
  ASSUME TypeOK, DriverInv, Forwarder PROVE TypeOK' /\ DriverInv'
<1> USE DEF goVars, cmdVars, sigVars, envVars, Lives
<1>1. CASE TakeSignal
  BY <1>1 DEF TakeSignal, Take, ForwarderGoes, TypeOK, DriverInv, MainInv,
              ForwarderInv, EndInv
<1>2. CASE ForwardSignal
  <2>1. inHand \in Signals
    BY <1>2 DEF ForwardSignal, ForwarderGoes, TypeOK, DriverInv, ForwarderInv
  <2>2. Translated(inHand) \in Signals \cup {"KILL"}
    BY <2>1 DEF Translated
  <2> QED BY <1>2, <2>2
      DEF ForwardSignal, ForwarderGoes, TypeOK, DriverInv, MainInv,
          ForwarderInv, EndInv
<1>3. CASE TakeDone
  BY <1>3 DEF TakeDone, ForwarderGoes, TypeOK, DriverInv, MainInv,
              ForwarderInv, EndInv
<1>4. CASE StopNotify
  BY <1>4 DEF StopNotify, ForwarderGoes, TypeOK, DriverInv, MainInv,
              ForwarderInv, EndInv
<1>5. CASE CloseSigs
  BY <1>5 DEF CloseSigs, ForwarderGoes, TypeOK, DriverInv, MainInv,
              ForwarderInv, EndInv
<1>6. CASE ExitAsTool
  <2>1. state # None /\ child = "gone"
    BY <1>6 DEF ExitAsTool, DriverInv, ForwarderInv, MainInv
  <2>2. exit' = Status(state)
        /\ UNCHANGED <<goVars, cmdVars, sigVars, envVars, late>>
    BY <1>6, <2>1 DEF ExitAsTool, Exit
  <2>3. Status(state) \in 0 .. 255
    BY <2>1, StatusIsByte DEF TypeOK
  <2>4. TypeOK'
    BY <2>2, <2>3 DEF TypeOK
  <2>5. DriverInv'
    BY <2>1, <2>2 DEF DriverInv, MainInv, ForwarderInv, EndInv, Status
  <2> QED BY <2>4, <2>5
<1> QED BY <1>1, <1>2, <1>3, <1>4, <1>5, <1>6 DEF Forwarder

(* The time bomb, and the second after which the main goroutine gives up.  *)
LEMMA KeepsTimers ==
  ASSUME TypeOK, DriverInv, TimeBomb \/ Timer PROVE TypeOK' /\ DriverInv'
<1> USE DEF goVars, cmdVars, sigVars, envVars, Lives
<1>1. CASE BombExits \/ SleepOver
  <2>1. exit' = invokeExitCode
        /\ UNCHANGED <<goVars, cmdVars, sigVars, envVars>>
    BY <1>1 DEF BombExits, SleepOver, Exit, Status, invokeExitCode
  <2>4. late' = TRUE
    <3>1. CASE BombExits
      BY <3>1 DEF BombExits, DriverInv, EndInv, TypeOK
    <3>2. CASE SleepOver
      BY <3>2 DEF SleepOver
    <3> QED BY <1>1, <3>1, <3>2
  <2>2. child = "running" => bomb = "expired"
    BY <1>1 DEF BombExits, SleepOver, DriverInv, MainInv
  <2>3. TypeOK'
    BY <2>1, <2>4 DEF TypeOK, invokeExitCode
  <2>5. DriverInv'
    BY <2>1, <2>2, <2>4 DEF DriverInv, MainInv, ForwarderInv, EndInv
  <2> QED BY <2>3, <2>5
<1>2. CASE BombReturns
  BY <1>2 DEF BombReturns, BombGoes, TypeOK, DriverInv, MainInv, ForwarderInv,
              EndInv
<1>3. CASE GraceExpires
  BY <1>3 DEF GraceExpires, BombGoes, TypeOK, DriverInv, MainInv,
              ForwarderInv, EndInv
<1> QED BY <1>1, <1>2, <1>3 DEF TimeBomb, Timer

(* The tool, and the signals.  *)
LEMMA KeepsTool ==
  ASSUME TypeOK, DriverInv, ToolEnds PROVE TypeOK' /\ DriverInv'
  BY DEF ToolEnds, goVars, sigVars, envVars, TypeOK, DriverInv, MainInv,
         ForwarderInv, EndInv

LEMMA KeepsSignal ==
  ASSUME TypeOK, DriverInv, NEW sig \in Signals, SignalArrives(sig)
  PROVE  TypeOK' /\ DriverInv'
<1> USE DEF goVars, cmdVars, envVars, Lives
<1>1. CASE Relay(sig)
  BY <1>1 DEF SignalArrives, Relay, TypeOK, DriverInv, MainInv, ForwarderInv,
              EndInv, Requests
<1>2. CASE DefaultEffect(sig)
  <2>1. exit' = Signalled /\ notify # "on"
        /\ UNCHANGED <<goVars, cmdVars, notify, buffer, closed, envVars, late>>
    BY <1>2 DEF SignalArrives, DefaultEffect
  <2>2. Signalled \notin 0 .. 255 /\ Signalled # None
    BY NoneAssumption
  <2>3. child # "running"
    BY <2>1 DEF DriverInv, ForwarderInv, MainInv, TypeOK
  <2>4. TypeOK'
    BY <2>1 DEF TypeOK
  <2>5. DriverInv'
    BY <2>1, <2>2, <2>3 DEF DriverInv, MainInv, ForwarderInv, EndInv
  <2> QED BY <2>4, <2>5
<1> QED BY <1>1, <1>2 DEF SignalArrives

-----------------------------------------------------------------------------
LEMMA DriverInvNext ==
  TypeOK /\ DriverInv /\ [Next]_vars => TypeOK' /\ DriverInv'
<1> SUFFICES ASSUME TypeOK, DriverInv, [Next]_vars
             PROVE  TypeOK' /\ DriverInv'
  OBVIOUS
<1>1. CASE Ended \/ UNCHANGED vars
  <2>1. /\ UNCHANGED <<main, forwarder, inHand, bomb, child, process, state>>
        /\ UNCHANGED <<notify, buffer, closed, exit, sent, received, late>>
    BY <1>1 DEF Ended, vars, goVars, cmdVars, sigVars, envVars
  <2>2. TypeOK'
    BY <2>1 DEF TypeOK
  <2>3. DriverInv'
    BY <2>1 DEF DriverInv, MainInv, ForwarderInv, EndInv
  <2> QED BY <2>2, <2>3
<1> QED BY <1>1, KeepsMain, KeepsForwarder, KeepsTimers, KeepsTool,
           KeepsSignal DEF Next

LEMMA DriverInvariant == Spec => [](TypeOK /\ DriverInv)
<1> QED BY TypeInit, DriverInvInit, DriverInvNext, PTL DEF Spec

(* Every variable keeps its type, whatever the tool's exit codes are.  *)
THEOREM TypeCorrect == Spec => []TypeOK
<1> QED BY DriverInvariant, PTL

(***************************************************************************)
(* Whenever the tool ends and signals arrive, the driver ends with the     *)
(* exit status of the tool, with 128 when a timer or a tool that cannot be *)
(* started ends it, or by a signal (invokeSignalForwarder, invoke).        *)
(***************************************************************************)
THEOREM ExitStatusIsTheTools == Spec => []ExitsAsTool
<1>1. DriverInv => ExitsAsTool
  BY DEF DriverInv, EndInv, ExitsAsTool
<1> QED BY <1>1, DriverInvariant, PTL

(***************************************************************************)
(* The driver never ends before a tool that still runs, except when the    *)
(* grace period after an interrupt is over (invokeTimeBomb).               *)
(***************************************************************************)
THEOREM ToolIsWaitedFor == Spec => []ToolNotAbandoned
<1>1. DriverInv => ToolNotAbandoned
  BY DEF DriverInv, EndInv, ToolNotAbandoned
<1> QED BY <1>1, DriverInvariant, PTL

(***************************************************************************)
(* The runtime never sends to the channel sigs after the forwarder has     *)
(* closed it (invokeSignalForwarder).                                      *)
(***************************************************************************)
THEOREM ClosedIsNotRelayedTo == Spec => []NoSendToClosed
<1>1. DriverInv => NoSendToClosed
  BY DEF DriverInv, ForwarderInv, NoSendToClosed
<1> QED BY <1>1, DriverInvariant, PTL
=============================================================================
