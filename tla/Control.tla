------------------------------ MODULE Control ------------------------------
(***************************************************************************)
(* The control path of control.rs: async callers send commands over a      *)
(* bounded queue to the one control thread of the process, which executes  *)
(* them under the mutex of the device's handle and answers each through    *)
(* its own oneshot channel.  A caller may drop its future at any await,    *)
(* and start another call; the thread may panic.  The reader threads of    *)
(* sampling.rs compete for the handles.                                    *)
(*                                                                         *)
(* Of the seventeen commands, set_tuner_gain is "auto" or "manual", with   *)
(* the cached gain mode of LockedHandle, or "manual_far": a manual value   *)
(* so far away that the search for the nearest supported one overflows.    *)
(* "other" stands for the other sixteen.  They are one library call, or    *)
(* one that reads and one that then writes (the crystal frequencies and    *)
(* direct sampling), or none (set_bias_tee).  Of librtlsdr it is assumed   *)
(* that none of them changes the gain mode, and that a call that fails     *)
(* leaves the device as it was.                                            *)
(***************************************************************************)
EXTENDS Integers, Sequences

CONSTANTS
  Callers,         \* tasks that use a Control
  Devices,         \* opened devices, one Handle each
  QueueSize,       \* CONTROL_QUEUE_SIZE
  OverflowChecks,  \* TRUE for a build in which integer overflow panics
  MaxCalls         \* bound: calls made by each caller

ASSUME QueueAssumption == QueueSize \in Nat \ {0}
ASSUME ChecksAssumption == OverflowChecks \in BOOLEAN
ASSUME CallsAssumption == MaxCalls \in Nat

VARIABLES
  queue,            \* messages sent and not yet received
  thread,           \* the control thread: "receiving", "executing" or "dead"
  command,          \* the message being executed
  call,             \* call[c]: state and number of c's latest call
  lock,             \* lock[d]: who holds the handle: "free" or "reader"
  tuner_gain_mode,  \* tuner_gain_mode[d]: the cached mode
  gain_mode,        \* gain_mode[d]: the mode the device is in
  applied           \* history: applied[c] is c's last call that had an effect

handles == <<lock, tuner_gain_mode, gain_mode>>
controlVars == <<queue, thread, command, call, handles, applied>>

Kinds == {"auto", "manual", "manual_far", "other"}
Messages == [caller : Callers, number : 1 .. MaxCalls, device : Devices, kind : Kinds]
NoCommand == <<>>
CallStates ==
  {"idle",      \* no call in progress
   "sending",   \* waits for room in the queue
   "awaiting",  \* the message is sent, the result is awaited
   "ok", "error", "thread_dead"}  \* the call returns Ok, Err or ControlThreadDead
Pending == {"sending", "awaiting"}

ControlInit ==
  /\ queue = <<>>
  /\ thread = "receiving"
  /\ command = NoCommand
  /\ call = [c \in Callers |-> [state |-> "idle", number |-> 0]]
  /\ lock = [d \in Devices |-> "free"]
  /\ tuner_gain_mode = [d \in Devices |-> "None"]
  /\ gain_mode \in [Devices -> {"Auto", "Manual"}]
  /\ applied = [c \in Callers |-> 0]

----------------------------------------------------------------------------
(* The callers.  A call goes to any device, with any command. *)

StartCall(c) ==
  /\ call[c].state \notin Pending
  /\ call[c].number < MaxCalls
  /\ call' = [call EXCEPT ![c] = [state |-> "sending", number |-> @.number + 1]]
  /\ UNCHANGED <<queue, thread, command, handles, applied>>

\* set_offset_tuning returns an error at once if the tuner is an R82xx.
Unsupported(c) ==
  /\ call[c].state \notin Pending
  /\ call[c].number < MaxCalls
  /\ call' = [call EXCEPT ![c] = [state |-> "error", number |-> @.number + 1]]
  /\ UNCHANGED <<queue, thread, command, handles, applied>>

\* Fault: urgent messages overtake the others.
Enqueue_First(message) == queue' = <<message>> \o queue

Enqueue(message) == queue' = Append(queue, message)

\* Fault: an off-by-one in the bound of the queue.
Room_OffByOne == Len(queue) <= QueueSize

Room == Len(queue) < QueueSize

Send(c) ==
  /\ call[c].state = "sending"
  /\ thread # "dead"
  /\ Room
  /\ \E d \in Devices, k \in Kinds :
       Enqueue([caller |-> c, number |-> call[c].number, device |-> d, kind |-> k])
  /\ call' = [call EXCEPT ![c].state = "awaiting"]
  /\ UNCHANGED <<thread, command, handles, applied>>

\* send() fails once the thread has dropped its end of the queue.
SendFails(c) ==
  /\ call[c].state = "sending"
  /\ thread = "dead"
  /\ call' = [call EXCEPT ![c].state = "thread_dead"]
  /\ UNCHANGED <<queue, thread, command, handles, applied>>

\* The future is dropped; a message already sent stays in the queue.
CancelCall(c) ==
  /\ call[c].state \in Pending
  /\ call' = [call EXCEPT ![c].state = "idle"]
  /\ UNCHANGED <<queue, thread, command, handles, applied>>

----------------------------------------------------------------------------
(* The reader threads: read_to_buffer holds the handle while it reads. *)

ReaderLocks(d) ==
  /\ lock[d] = "free"
  /\ lock' = [lock EXCEPT ![d] = "reader"]
  /\ UNCHANGED <<queue, thread, command, call, tuner_gain_mode, gain_mode, applied>>

ReaderUnlocks(d) ==
  /\ lock[d] = "reader"
  /\ lock' = [lock EXCEPT ![d] = "free"]
  /\ UNCHANGED <<queue, thread, command, call, tuner_gain_mode, gain_mode, applied>>

----------------------------------------------------------------------------
(* The control thread. *)

\* blocking_recv; there is always a sender left, in CONTROL_QUEUE_SENDER.
Receive ==
  /\ thread = "receiving"
  /\ queue # <<>>
  /\ command' = Head(queue)
  /\ queue' = Tail(queue)
  /\ thread' = "executing"
  /\ UNCHANGED <<call, handles, applied>>

\* Fault: a result goes to whatever the caller is waiting for.
Awaited_ByCaller(message) == call[message.caller].state = "awaiting"

\* The receiver of the oneshot channel exists until the call is cancelled.
Awaited(message) ==
  /\ call[message.caller].state = "awaiting"
  /\ call[message.caller].number = message.number

\* result_sender.send(result), whose failure is ignored.
Reply(result) ==
  call' = IF Awaited(command)
          THEN [call EXCEPT ![command.caller].state = result] ELSE call

Applied == applied' = [applied EXCEPT ![command.caller] = command.number]

\* Fault: the mode is cached before the library is asked to set it.
SetTunerGainMode_CacheFirst(mode, succeeds) ==
  LET d == command.device
  IN  /\ tuner_gain_mode' = [tuner_gain_mode EXCEPT ![d] = mode]
      /\ IF tuner_gain_mode[d] # mode /\ succeeds
         THEN gain_mode' = [gain_mode EXCEPT ![d] = mode] /\ Applied
         ELSE UNCHANGED <<gain_mode, applied>>

\* LockedHandle::set_tuner_gain_mode
SetTunerGainMode(mode, succeeds) ==
  LET d == command.device
  IN  IF tuner_gain_mode[d] # mode /\ succeeds
      THEN /\ gain_mode' = [gain_mode EXCEPT ![d] = mode]
           /\ tuner_gain_mode' = [tuner_gain_mode EXCEPT ![d] = mode]
           /\ Applied
      ELSE UNCHANGED <<gain_mode, tuner_gain_mode, applied>>

Skips(mode) == tuner_gain_mode[command.device] = mode

ExecuteAuto ==
  /\ command.kind = "auto"
  /\ \E succeeds \in BOOLEAN :
       /\ SetTunerGainMode("Auto", succeeds)
       /\ Reply(IF succeeds \/ Skips("Auto") THEN "ok" ELSE "error")

\* The manual mode must be set first; if that works, the gain may still fail.  An
\* index or a value for which there is no gain fails like the mode.
ManualKinds == IF OverflowChecks THEN {"manual"} ELSE {"manual", "manual_far"}

ExecuteManual ==
  /\ command.kind \in ManualKinds
  /\ \E modeSucceeds, gainSucceeds \in BOOLEAN :
       IF modeSucceeds \/ Skips("Manual")
       THEN /\ Reply(IF gainSucceeds THEN "ok" ELSE "error")
            /\ IF Skips("Manual") /\ gainSucceeds
               THEN Applied /\ UNCHANGED <<gain_mode, tuner_gain_mode>>
               ELSE SetTunerGainMode("Manual", modeSucceeds)
       ELSE Reply("error") /\ SetTunerGainMode("Manual", FALSE)

\* A command that reads has no effect, nor one that sets what is set already.
ExecuteOther ==
  /\ command.kind = "other"
  /\ \/ Reply("ok") /\ (Applied \/ UNCHANGED applied)
     \/ Reply("error") /\ UNCHANGED applied
  /\ UNCHANGED <<tuner_gain_mode, gain_mode>>

\* A command is executed, and answered, with the handle locked.
Execute ==
  /\ thread = "executing"
  /\ lock[command.device] = "free"
  /\ ExecuteAuto \/ ExecuteManual \/ ExecuteOther
  /\ thread' = "receiving"
  /\ command' = NoCommand
  /\ UNCHANGED <<queue, lock>>

\* Fault: a panic is caught, but nobody drains the queue any more.
DropReceiver_Leaked ==
  /\ call' = [call EXCEPT ![command.caller].state =
                IF Awaited(command) THEN "thread_dead" ELSE @]
  /\ UNCHANGED queue

\* The receiving half is dropped with every message in it, and with each of
\* them the sender of its result.
DropReceiver ==
  /\ call' = [c \in Callers |->
                IF call[c].state = "awaiting"
                THEN [call[c] EXCEPT !.state = "thread_dead"] ELSE call[c]]
  /\ queue' = <<>>

\* Fault: the nearest gain is only searched once the mode has been set.
Panic_ModeSetFirst ==
  /\ thread = "executing"
  /\ command.kind = "manual_far" /\ OverflowChecks
  /\ lock[command.device] = "free"
  /\ SetTunerGainMode("Manual", TRUE)
  /\ DropReceiver
  /\ thread' = "dead"
  /\ command' = NoCommand
  /\ UNCHANGED lock

\* The search for the nearest gain overflows, before the handle is locked.
Panic ==
  /\ thread = "executing"
  /\ command.kind = "manual_far" /\ OverflowChecks
  /\ DropReceiver
  /\ thread' = "dead"
  /\ command' = NoCommand
  /\ UNCHANGED <<handles, applied>>

----------------------------------------------------------------------------
ControlNext ==
  \/ \E c \in Callers :
       StartCall(c) \/ Unsupported(c) \/ Send(c) \/ SendFails(c) \/ CancelCall(c)
  \/ \E d \in Devices : ReaderLocks(d) \/ ReaderUnlocks(d)
  \/ Receive
  \/ Execute
  \/ Panic

ControlSpec == ControlInit /\ [][ControlNext]_controlVars

\* The thread runs and gets the handle it waits for although a reader takes it
\* again and again (parking_lot mutexes are eventually fair); a read ends; tasks
\* that can make progress are polled, and tokio serves a waiting send in turn.
ControlFairness ==
  /\ WF_controlVars(Receive)
  /\ SF_controlVars(Execute)
  /\ WF_controlVars(Panic)
  /\ \A d \in Devices : WF_controlVars(ReaderUnlocks(d))
  /\ \A c \in Callers : SF_controlVars(Send(c)) /\ WF_controlVars(SendFails(c))

FairControlSpec == ControlSpec /\ ControlFairness

----------------------------------------------------------------------------
(* Safety *)

\* Every variable has its type.
ControlTypeOK ==
  /\ queue \in Seq(Messages) /\ Len(queue) <= QueueSize
  /\ thread \in {"receiving", "executing", "dead"}
  /\ command \in IF thread = "executing" THEN Messages ELSE {NoCommand}
  /\ call \in [Callers -> [state : CallStates, number : 0 .. MaxCalls]]
  /\ lock \in [Devices -> {"free", "reader"}]
  /\ tuner_gain_mode \in [Devices -> {"None", "Auto", "Manual"}]
  /\ gain_mode \in [Devices -> {"Auto", "Manual"}]
  /\ applied \in [Callers -> 0 .. MaxCalls]

\* The messages on their way: the one being executed, then the queue.
InFlight == (IF thread = "executing" THEN <<command>> ELSE <<>>) \o queue

\* The commands of one caller take effect in the order it made the calls, each at
\* most once, also when it gives up on a call and makes the next while the first
\* is still on its way: a cancelled command never undoes a later one.
EffectsInCallOrder ==
  \A i \in 1 .. Len(InFlight) :
    LET message == InFlight[i]
    IN  /\ applied[message.caller] < message.number
        /\ message.number <= call[message.caller].number
        /\ \A j \in 1 .. (i - 1) :
             InFlight[j].caller = message.caller =>
               InFlight[j].number < message.number

\* A call awaits its result exactly as long as its own message is in flight: it is
\* not forgotten, and not answered with the result of an earlier call that the
\* caller gave up on.
ResultBelongsToCall ==
  \A c \in Callers :
    call[c].state \notin {"idle", "sending"} =>
      (call[c].state = "awaiting" <=>
         \E i \in 1 .. Len(InFlight) :
           InFlight[i].caller = c /\ InFlight[i].number = call[c].number)

\* A call that was told that the control thread is dead had no effect, although
\* the thread may have panicked on its very message.
DeadThreadMeansNoEffect ==
  \A c \in Callers : call[c].state = "thread_dead" => applied[c] < call[c].number

\* The cached gain mode, by which set_tuner_gain_mode skips the library call, is
\* the mode the device is in, whatever calls have failed in between.
CachedGainModeIsReal ==
  \A d \in Devices : tuner_gain_mode[d] \in {"None", gain_mode[d]}

----------------------------------------------------------------------------
(* Liveness *)

\* No caller waits for ever: whether its message is executed, fails, or is lost
\* with a panicking thread, every call returns (or was cancelled).
EveryCallReturns ==
  \A c \in Callers : call[c].state \in Pending ~> call[c].state \notin Pending

=============================================================================
