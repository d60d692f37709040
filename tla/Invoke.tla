------------------------------- MODULE Invoke -------------------------------
(***************************************************************************)
(* How `toolshare invoke` runs a tool and ends with it (internal/driver/   *)
(* invoke.go, from exec.Command on): the main goroutine that starts the    *)
(* tool and waits for it, the forwarder goroutine that passes signals on   *)
(* and ends the driver with the exit code of the tool, the time bomb an    *)
(* interrupt starts, the tool, and whoever sends signals to the driver.    *)
(*                                                                         *)
(* exec.Cmd is modelled from its use: Start creates the child and then     *)
(* assigns cmd.Process; Wait assigns cmd.ProcessState once it has exited.  *)
(***************************************************************************)
EXTENDS Integers, FiniteSets

CONSTANTS
    Codes,      \* the exit codes of the tool
    None,       \* no value yet
    Signalled,  \* how the driver ends that a signal has ended
    Windows     \* does the driver run on Windows?

ASSUME CodesAssumption == Codes \subseteq 0..255
ASSUME NoneAssumption == {None, Signalled} \cap Int = {} /\ None # Signalled
ASSUME WindowsAssumption == Windows \in BOOLEAN

VARIABLES
    main,       \* what the main goroutine does next
    forwarder,  \* what the forwarder goroutine does next
    inHand,     \* the signal the forwarder has taken from the channel
    bomb,       \* the first time bomb that has been started
    child,      \* the tool: not there, running or gone
    process,    \* is cmd.Process set?
    state,      \* the exit code in cmd.ProcessState, -1 for a killed tool
    notify,     \* does the runtime relay signals to the channel sigs?
    buffer,     \* the one signal that sigs can hold, or None
    closed,     \* the channels that are closed
    exit,       \* how the driver has ended, or None
    sent,       \* the signals relayed to the driver while a tool was due
    received,   \* the signals that have reached the tool
    late        \* history: a timer ran out before the driver had ended

goVars == <<main, forwarder, inHand, bomb>>
cmdVars == <<child, process, state>>
sigVars == <<notify, buffer, closed>>
envVars == <<sent, received>>
vars == <<goVars, cmdVars, sigVars, envVars, exit, late>>

(* Noise: SIGCHLD, SIGURG and others a process gets without being asked.  *)
Requests == {"INT", "TERM"}
Signals == Requests \cup {"NOISE"}

invokeExitCode == 128

(* Mutant: an exit code is not cut to a byte.  *)
StatusUncut(code) == code

(* What the parent of the driver sees of os.Exit(code).  *)
Status(code) == code % 256

TypeOK ==
    /\ main \in {"notify", "start", "setProcess", "wait", "close", "sleep"}
    /\ forwarder \in {"select", "forward", "stop", "close", "exit"}
    /\ inHand \in Signals \cup {None}
    /\ bomb \in {"none", "ticking", "expired"}
    /\ child \in {"none", "running", "gone"}
    /\ process \in BOOLEAN
    /\ state \in Codes \cup {-1, None}
    /\ notify \in {"before", "on", "stopped"}
    /\ buffer \in Signals \cup {None}
    /\ closed \in SUBSET {"done", "sigs"}
    /\ exit \in 0..255 \cup {Signalled, None}
    /\ sent \in SUBSET Requests
    /\ received \in SUBSET (Signals \cup {"KILL"})
    /\ late \in BOOLEAN

Init ==
    /\ main = "notify" /\ forwarder = "select"
    /\ inHand = None
    /\ bomb = "none"
    /\ child = "none" /\ process = FALSE /\ state = None
    /\ notify = "before" /\ buffer = None /\ closed = {}
    /\ exit = None
    /\ sent = {} /\ received = {}
    /\ late = FALSE

(* os.Exit ends every goroutine.  *)
Lives == exit = None
Exit(code) ==
    exit' = Status(code) /\ UNCHANGED <<goVars, cmdVars, sigVars, envVars>>

-----------------------------------------------------------------------------
(* The main goroutine; the forwarder is already there.  *)

MainGoes(from, to) ==
    /\ Lives /\ main = from /\ main' = to
    /\ UNCHANGED <<forwarder, inHand, bomb, buffer, envVars, exit, late>>

(* Mutant: the driver is not set up to receive signals.  *)
NotifyForgotten ==
    MainGoes("notify", "start") /\ UNCHANGED <<cmdVars, notify, closed>>

Notify ==
    MainGoes("notify", "start") /\ notify' = "on"
                                /\ UNCHANGED <<cmdVars, closed>>

(* cmd.Run: the tool cannot be started ...  *)
StartFails ==
    Lives /\ main = "start" /\ Exit(invokeExitCode) /\ UNCHANGED late

(* ... or it runs, at first unknown to the goroutine that forwards to it ... *)
Start ==
    MainGoes("start", "setProcess") /\ child' = "running"
        /\ UNCHANGED <<process, state, notify, closed>>

SetProcess ==
    MainGoes("setProcess", "wait") /\ process' = TRUE
        /\ UNCHANGED <<child, state, notify, closed>>

(***************************************************************************)
(* ... until it has exited, with a code of its own or, as ExitCode reports *)
(* a tool that a signal killed, with -1.  Both are no reason to stop here: *)
(* a code other than 0 is an ExitError.                                    *)
(***************************************************************************)
WaitReturns ==
    /\ child = "gone"
    /\ MainGoes("wait", "close") /\ state' \in Codes \cup {-1}
    /\ UNCHANGED <<child, process, notify, closed>>

(* Mutant: done is not closed.  *)
CloseDoneForgotten ==
    MainGoes("close", "sleep") /\ UNCHANGED <<cmdVars, notify, closed>>

CloseDone ==
    MainGoes("close", "sleep") /\ closed' = closed \cup {"done"}
                               /\ UNCHANGED <<cmdVars, notify>>

(* A second later the forwarder should have ended the driver.  *)
SleepOver ==
    Lives /\ main = "sleep" /\ Exit(invokeExitCode) /\ late' = TRUE

-----------------------------------------------------------------------------
(***************************************************************************)
(* invokeSignalForwarder.  When a signal waits and done is closed, select  *)
(* picks either.  The channel is closed by the forwarder only, after which *)
(* it receives from it once more: the branch for a closed channel is never *)
(* reached and is not modelled.                                            *)
(***************************************************************************)
ForwarderGoes(from, to) ==
    /\ Lives /\ forwarder = from /\ forwarder' = to
    /\ UNCHANGED <<main, cmdVars, sent, exit, late>>

(* The forwarder takes the signal that waits, and the bomb is now b.  *)
Take(b) ==
    /\ buffer # None
    /\ ForwarderGoes("select", "forward")
    /\ inHand' = buffer /\ buffer' = None
    /\ bomb' = b
    /\ UNCHANGED <<notify, closed, received>>

(* Mutant: an interrupt starts no time bomb.  *)
TakeSignalUnarmed == Take(bomb)

TakeSignal ==
    Take(IF buffer = "INT" /\ bomb = "none" THEN "ticking" ELSE bomb)

(* What is sent on: Windows has no interrupt and knows only how to kill.  *)
Translated(sig) == IF Windows /\ sig = "INT" THEN "KILL" ELSE sig
Supported(sig) == Windows => sig = "KILL"

(***************************************************************************)
(* cmd.Process.Signal.  While cmd.Process is nil this panics; the panic is *)
(* recovered and the signal is lost.  A tool that is gone, or a signal the *)
(* platform cannot send, gives an error that is only logged.               *)
(***************************************************************************)
ForwardSignal ==
    /\ ForwarderGoes("forward", "select")
    /\ received' = IF process /\ child = "running"
                            /\ Supported(Translated(inHand))
                   THEN received \cup {Translated(inHand)}
                   ELSE received
    /\ inHand' = None
    /\ UNCHANGED <<bomb, sigVars>>

TakeDone ==
    /\ "done" \in closed
    /\ ForwarderGoes("select", "stop")
    /\ UNCHANGED <<inHand, bomb, sigVars, received>>

(* Mutant: the channel is closed while signals are still relayed to it.  *)
StopNotifyForgotten ==
    ForwarderGoes("stop", "close") /\ UNCHANGED <<inHand, bomb, sigVars, received>>

StopNotify ==
    ForwarderGoes("stop", "close") /\ notify' = "stopped"
        /\ UNCHANGED <<inHand, bomb, buffer, closed, received>>

(* close(sigs), and the receive that returns what it still held, or nothing. *)
CloseSigs ==
    /\ ForwarderGoes("close", "exit")
    /\ closed' = closed \cup {"sigs"}
    /\ buffer' = None
    /\ UNCHANGED <<inHand, bomb, notify, received>>

(* Mutant: the forwarder reports that all is well.  *)
ExitAsOK == Lives /\ forwarder = "exit" /\ Exit(0) /\ UNCHANGED late

ExitAsTool ==
    /\ Lives /\ forwarder = "exit"
    /\ Exit(IF state # None THEN state ELSE invokeExitCode)
    /\ UNCHANGED late

-----------------------------------------------------------------------------
(* invokeTimeBomb: between its two channels select picks any that is ready. *)

BombGoes(to) ==
    /\ Lives /\ bomb' = to
    /\ UNCHANGED <<main, forwarder, inHand, cmdVars, sigVars, envVars, exit>>

GraceExpires == bomb = "ticking" /\ BombGoes("expired") /\ late' = TRUE

BombExits ==
    Lives /\ bomb = "expired" /\ Exit(invokeExitCode) /\ UNCHANGED late

BombReturns ==
    bomb # "none" /\ "done" \in closed /\ BombGoes("none") /\ UNCHANGED late

-----------------------------------------------------------------------------
(* The tool ends whenever it likes, whatever signals it has received.  *)
ToolEnds ==
    /\ child = "running"
    /\ child' = "gone"
    /\ UNCHANGED <<goVars, process, state, sigVars, envVars, exit, late>>

(***************************************************************************)
(* A signal arrives.  The runtime relays it to sigs without blocking: one  *)
(* that finds the channel full is dropped.  A request that arrives when    *)
(* signals are not relayed has its default effect and ends the driver.     *)
(***************************************************************************)
Relay(sig) ==
    /\ notify = "on"
    /\ buffer' = IF buffer = None THEN sig ELSE buffer
    /\ sent' = IF child = "gone" THEN sent ELSE sent \cup ({sig} \cap Requests)
    /\ UNCHANGED exit

DefaultEffect(sig) ==
    /\ notify # "on"
    /\ sig \in Requests
    /\ exit' = Signalled
    /\ UNCHANGED <<buffer, sent>>

SignalArrives(sig) ==
    /\ Lives
    /\ Relay(sig) \/ DefaultEffect(sig)
    /\ UNCHANGED <<goVars, cmdVars, notify, closed, received, late>>

-----------------------------------------------------------------------------
Main == \/ Notify \/ StartFails \/ Start \/ SetProcess
        \/ WaitReturns \/ CloseDone

Forwarder == \/ TakeSignal \/ ForwardSignal
             \/ TakeDone \/ StopNotify \/ CloseSigs \/ ExitAsTool

TimeBomb == BombExits \/ BombReturns

Timer == SleepOver \/ GraceExpires

(* The driver has ended: nothing more happens to it.  *)
Ended == ~Lives /\ UNCHANGED vars

Next ==
    \/ Main \/ Forwarder \/ TimeBomb \/ Timer
    \/ ToolEnds
    \/ \E sig \in Signals : SignalArrives(sig)
    \/ Ended

Spec == Init /\ [][Next]_vars

(***************************************************************************)
(* Goroutines are scheduled and the grace period runs out.  select chooses *)
(* at random among the channels that are ready, so a stream of signals     *)
(* cannot keep the forwarder from a closed done for ever.  The tool may    *)
(* run forever.  Nothing is assumed of the second that the main goroutine  *)
(* sleeps: the driver must end without it.                                 *)
(***************************************************************************)
Fairness ==
    /\ WF_vars(Main) /\ WF_vars(Forwarder) /\ WF_vars(TimeBomb)
    /\ SF_vars(TakeDone)
    /\ WF_vars(GraceExpires)

FairSpec == Spec /\ Fairness

-----------------------------------------------------------------------------
(* Properties.  *)

(***************************************************************************)
(* The driver ends as the tool did: unless the driver itself was ended by  *)
(* a signal, its exit status is that of the tool; whichever goroutine is   *)
(* first, the only other one is 128, and that only for a tool that never   *)
(* ran or when a timer ran out (invoke, invokeSignalForwarder,             *)
(* invokeTimeBomb).                                                        *)
(***************************************************************************)
ExitsAsTool ==
    exit \in 0..255 =>
        IF child = "none" THEN exit = invokeExitCode
        ELSE \/ state # None /\ exit = Status(state)
             \/ late /\ exit = invokeExitCode

(***************************************************************************)
(* A running tool is left alone only when it has outlived the grace period *)
(* after an interrupt; no other signal, and no order of start, signal and  *)
(* exit, ends the driver before it (signal.Notify before cmd.Run).         *)
(***************************************************************************)
ToolNotAbandoned == exit # None /\ child = "running" => bomb = "expired"

(***************************************************************************)
(* Once sigs is closed no signal is relayed to it any more: sending to a   *)
(* closed channel would be a panic in the runtime (signal.Stop before      *)
(* close).                                                                 *)
(***************************************************************************)
NoSendToClosed == "sigs" \in closed => notify = "stopped"

(***************************************************************************)
(* The driver ends after its tool, whatever signals arrive meanwhile: the  *)
(* close of done "should result in an os.Exit() call from the signal       *)
(* forwarder" (invoke.go:103), without the timer that backs it up.         *)
(***************************************************************************)
EndsAfterTool == child = "gone" ~> exit # None

(***************************************************************************)
(* An interrupt that the driver has taken ends the driver, even if the     *)
(* tool ignores it, and even if it was taken before the tool was started   *)
(* (invokeTimeBomb).                                                       *)
(***************************************************************************)
InterruptEnds == inHand = "INT" ~> exit # None

(***************************************************************************)
(* invoke.go:79-82: what is done with signals is done "to ensure that      *)
(* signals are forwarded": an interrupt or a request to terminate that the *)
(* driver gets reaches the tool, unless either ends first.                 *)
(***************************************************************************)
SignalsForwarded ==
    \A sig \in Requests :
        sig \in sent ~> \/ Translated(sig) \in received
                        \/ child = "gone" \/ exit # None
=============================================================================
