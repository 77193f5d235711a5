---------------------------- MODULE ControlProofs ----------------------------
(***************************************************************************)
(* Proofs about the control path, for any callers and devices, any size of *)
(* the queue, and builds with and without overflow checks.  All of it is   *)
(* about the messages in flight: sent, and not yet executed or lost.       *)
(***************************************************************************)
EXTENDS Control, SequenceTheorems, TLAPS

----------------------------------------------------------------------------
(* The inductive invariant *)

\* The thread stops with an empty queue, and only then are calls told so.
DeadThread ==
  /\ thread = "dead" => queue = <<>>
  /\ \A c \in Callers : call[c].state = "thread_dead" => thread = "dead"

\* A caller's latest call is later than what was applied, or it is that.
AppliedWasCalled == \A c \in Callers : applied[c] <= call[c].number

\* A call that waits for room in the queue is later than all that was applied or
\* is in flight.
SendingIsNew ==
  \A c \in Callers : call[c].state = "sending" =>
    /\ applied[c] < call[c].number
    /\ \A i \in 1 .. Len(InFlight) :
         InFlight[i].caller = c => InFlight[i].number < call[c].number

\* Together with the invariants that the run checks, this is inductive.
ControlInv ==
  /\ ControlTypeOK
  /\ DeadThread
  /\ AppliedWasCalled
  /\ SendingIsNew
  /\ EffectsInCallOrder
  /\ ResultBelongsToCall
  /\ DeadThreadMeansNoEffect
  /\ CachedGainModeIsReal

----------------------------------------------------------------------------
(* Messages in flight *)

\* The message being executed is the first of those in flight.
LEMMA InFlightType ==
  ASSUME ControlTypeOK
  PROVE  /\ InFlight \in Seq(Messages)
         /\ Len(InFlight) \in Nat
         /\ \A i \in 1 .. Len(InFlight) : InFlight[i] \in Messages
<1>1. queue \in Seq(Messages) /\ <<>> \in Seq(Messages)
  BY DEF ControlTypeOK
<1>2. thread = "executing" => <<command>> \in Seq(Messages)
  BY DEF ControlTypeOK
<1>3. InFlight \in Seq(Messages)
  BY <1>1, <1>2, ConcatProperties DEF InFlight
<1>. QED  BY <1>3, ElementOfSeq, LenProperties

\* The types of what the invariants compare.
LEMMA NumberTypes ==
  ASSUME ControlTypeOK
  PROVE  /\ \A i \in 1 .. Len(InFlight) :
              InFlight[i].number \in Nat /\ InFlight[i].caller \in Callers
         /\ \A c \in Callers : call[c].number \in Nat /\ applied[c] \in Nat
<1>1. \A message \in Messages : message.number \in Nat /\ message.caller \in Callers
  BY CallsAssumption DEF Messages
<1>2. \A c \in Callers : call[c].number \in Nat /\ applied[c] \in Nat
  BY CallsAssumption DEF ControlTypeOK
<1>. QED  BY <1>1, <1>2, InFlightType

\* The thread takes over the first message.
LEMMA ReceiveKeepsInFlight ==
  ASSUME ControlTypeOK, Receive
  PROVE  InFlight' = InFlight
<1>1. queue \in Seq(Messages) /\ queue # <<>>
  BY DEF ControlTypeOK, Receive
<1>2. InFlight = <<>> \o queue /\ InFlight' = <<Head(queue)>> \o Tail(queue)
  BY DEF Receive, InFlight
<1>3. Head(queue) \in Messages /\ Tail(queue) \in Seq(Messages)
  BY <1>1, HeadTailProperties
<1>4. InFlight = queue
  BY <1>1, <1>2, ConcatEmptySeq
<1>5. <<Head(queue)>> \o Tail(queue) = queue
  BY <1>1, <1>3
<1>. QED  BY <1>2, <1>4, <1>5

\* A message is sent behind all others.
LEMMA SendAppends ==
  ASSUME ControlTypeOK, SendingIsNew, NEW c \in Callers, Send(c)
  PROVE  \E message \in Messages :
           /\ message.caller = c
           /\ message.number = call[c].number
           /\ queue' = Append(queue, message)
           /\ InFlight' = Append(InFlight, message)
<1>1. PICK d \in Devices, k \in Kinds :
        Enqueue([caller |-> c, number |-> call[c].number, device |-> d, kind |-> k])
  BY DEF Send
<1>. DEFINE message == [caller |-> c, number |-> call[c].number, device |-> d, kind |-> k]
<1>2. message \in Messages
  <2>1. call[c].state = "sending" /\ call[c].number \in 0 .. MaxCalls /\ applied[c] \in Nat
    BY DEF Send, ControlTypeOK
  <2>2. call[c].number \in 1 .. MaxCalls
    BY <2>1, CallsAssumption DEF SendingIsNew
  <2>. QED  BY <2>2 DEF Messages
<1>3. queue' = Append(queue, message) /\ UNCHANGED <<thread, command>>
  BY <1>1 DEF Enqueue, Send
<1>4. queue \in Seq(Messages) /\ <<message>> \in Seq(Messages)
  BY <1>2 DEF ControlTypeOK
<1>5. (<<>> \o queue) \o <<message>> = <<>> \o (queue \o <<message>>)
  BY <1>4, ConcatAssociative, EmptySeq
<1>6. thread = "executing" =>
        (<<command>> \o queue) \o <<message>> = <<command>> \o (queue \o <<message>>)
  BY <1>4, ConcatAssociative DEF ControlTypeOK
<1>7. queue' = queue \o <<message>>
  BY <1>2, <1>3, <1>4, AppendIsConcat
<1>8. InFlight' = InFlight \o <<message>>
  BY <1>3, <1>5, <1>6, <1>7 DEF InFlight
<1>9. InFlight' = Append(InFlight, message)
  BY <1>2, <1>8, InFlightType, AppendIsConcat
<1>. QED  BY <1>2, <1>3, <1>9

\* Execution removes the first message.
LEMMA ExecuteRemoves ==
  ASSUME ControlTypeOK, Execute
  PROVE  /\ command \in Messages
         /\ Len(InFlight) = Len(InFlight') + 1
         /\ InFlight[1] = command
         /\ \A i \in 1 .. Len(InFlight') : InFlight'[i] = InFlight[i + 1]
<1>1. /\ thread = "executing" /\ thread' = "receiving" /\ UNCHANGED queue
      /\ command \in Messages /\ queue \in Seq(Messages)
  BY DEF Execute, ControlTypeOK
<1>2. InFlight = <<command>> \o queue /\ InFlight' = <<>> \o queue
  BY <1>1 DEF InFlight
<1>3. InFlight' = queue
  BY <1>1, <1>2, ConcatEmptySeq
<1>. QED  BY <1>1, <1>2, <1>3

\* What an execution does to its caller and to the history.
LEMMA ExecuteEffects ==
  ASSUME Execute
  PROVE  /\ \/ UNCHANGED applied
            \/ Applied
         /\ \E result \in {"ok", "error"} : Reply(result)
<1>1. CASE ExecuteAuto
  BY <1>1 DEF ExecuteAuto, SetTunerGainMode
<1>2. CASE ExecuteManual
  BY <1>2 DEF ExecuteManual, SetTunerGainMode
<1>3. CASE ExecuteOther
  BY <1>3 DEF ExecuteOther
<1>. QED  BY <1>1, <1>2, <1>3 DEF Execute

----------------------------------------------------------------------------
(* Preservation of the invariant *)

LEMMA ExecuteTypeOK == ControlTypeOK /\ Execute => ControlTypeOK'
<1>. SUFFICES ASSUME ControlTypeOK, Execute PROVE ControlTypeOK'
  OBVIOUS
<1>1. command \in Messages /\ command.caller \in Callers /\ command.device \in Devices
      /\ command.number \in 0 .. MaxCalls
  BY CallsAssumption DEF ControlTypeOK, Execute, Messages
<1>2. applied' \in [Callers -> 0 .. MaxCalls]
  BY <1>1, ExecuteEffects DEF Applied, ControlTypeOK
<1>3. call' \in [Callers -> [state : CallStates, number : 0 .. MaxCalls]]
  <2>1. PICK result \in {"ok", "error"} : Reply(result)
    BY ExecuteEffects
  <2>. QED  BY <1>1, <2>1 DEF Reply, ControlTypeOK, CallStates
<1>4. /\ tuner_gain_mode' \in [Devices -> {"None", "Auto", "Manual"}]
      /\ gain_mode' \in [Devices -> {"Auto", "Manual"}]
  BY <1>1 DEF Execute, ExecuteAuto, ExecuteManual, ExecuteOther, SetTunerGainMode,
     ControlTypeOK
<1>5. thread' = "receiving" /\ command' = NoCommand /\ UNCHANGED <<queue, lock>>
  BY DEF Execute
<1>. QED  BY <1>2, <1>3, <1>4, <1>5 DEF ControlTypeOK

\* What the invariant says of messages, of calls and of what was applied.
FlightInv ==
  /\ DeadThread
  /\ AppliedWasCalled
  /\ SendingIsNew
  /\ EffectsInCallOrder
  /\ ResultBelongsToCall
  /\ DeadThreadMeansNoEffect

\* EffectsInCallOrder, for one message.
MessageInOrder(i) ==
  /\ applied[InFlight[i].caller] < InFlight[i].number
  /\ InFlight[i].number <= call[InFlight[i].caller].number
  /\ \A j \in 1 .. (i - 1) :
       InFlight[j].caller = InFlight[i].caller => InFlight[j].number < InFlight[i].number

\* It says the same of each.
LEMMA OrderIsMessageInOrder ==
  /\ EffectsInCallOrder <=> \A i \in 1 .. Len(InFlight) : MessageInOrder(i)
  /\ EffectsInCallOrder' <=> \A i \in 1 .. Len(InFlight') : MessageInOrder(i)'
BY DEF EffectsInCallOrder, MessageInOrder

\* Where nothing is sent, received or applied, calls may start, or fail at once.
LEMMA StartCallFlightInv ==
  ASSUME ControlTypeOK, FlightInv, NEW c \in Callers, StartCall(c) \/ Unsupported(c)
  PROVE  FlightInv'
<1>1. /\ UNCHANGED <<queue, thread, command, applied>>
      /\ \E state \in {"sending", "error"} :
           call' = [call EXCEPT ![c] = [state |-> state, number |-> call[c].number + 1]]
  BY DEF StartCall, Unsupported, handles
<1>2. UNCHANGED InFlight
  BY <1>1 DEF InFlight
<1>3. /\ \A i \in 1 .. Len(InFlight) :
           InFlight[i].number \in Nat /\ InFlight[i].caller \in Callers
      /\ \A b \in Callers : call[b].number \in Nat /\ applied[b] \in Nat
  BY NumberTypes
<1>4. /\ \A b \in Callers \ {c} : call'[b] = call[b]
      /\ call'[c].state \in {"sending", "error"} /\ call'[c].number = call[c].number + 1
  BY <1>1 DEF ControlTypeOK
<1>5. DeadThread'
  BY <1>1, <1>4 DEF FlightInv, DeadThread
<1>6. AppliedWasCalled'
  BY <1>1, <1>3, <1>4 DEF FlightInv, AppliedWasCalled
<1>7. SendingIsNew'
  BY <1>1, <1>2, <1>3, <1>4
     DEF FlightInv, SendingIsNew, EffectsInCallOrder, AppliedWasCalled
<1>8. EffectsInCallOrder'
  BY <1>1, <1>2, <1>3, <1>4 DEF FlightInv, EffectsInCallOrder
\* No message is as late as the new call.
<1>9. \A i \in 1 .. Len(InFlight) :
        InFlight[i].caller = c => InFlight[i].number # call'[c].number
  BY <1>3, <1>4 DEF FlightInv, EffectsInCallOrder
<1>10. ResultBelongsToCall'
  BY <1>2, <1>4, <1>9 DEF FlightInv, ResultBelongsToCall
<1>11. DeadThreadMeansNoEffect'
  BY <1>1, <1>4 DEF FlightInv, DeadThreadMeansNoEffect
<1>. QED  BY <1>5, <1>6, <1>7, <1>8, <1>10, <1>11 DEF FlightInv

\* A message that is sent is the latest of its caller.
LEMMA SendFlightInv ==
  ASSUME ControlTypeOK, FlightInv, NEW c \in Callers, Send(c)
  PROVE  FlightInv'
<1>1. PICK message \in Messages :
        /\ message.caller = c
        /\ message.number = call[c].number
        /\ queue' = Append(queue, message)
        /\ InFlight' = Append(InFlight, message)
  BY SendAppends DEF FlightInv
<1>2. /\ UNCHANGED <<thread, applied>> /\ thread # "dead"
      /\ call[c].state = "sending"
      /\ call'[c].state = "awaiting" /\ call'[c].number = call[c].number
      /\ \A b \in Callers \ {c} : call'[b] = call[b]
  BY DEF Send, handles, ControlTypeOK
<1>3. /\ InFlight \in Seq(Messages)
      /\ Len(InFlight) \in Nat
      /\ \A i \in 1 .. Len(InFlight) :
           InFlight[i].number \in Nat /\ InFlight[i].caller \in Callers
      /\ \A b \in Callers : call[b].number \in Nat /\ applied[b] \in Nat
  BY InFlightType, NumberTypes
<1>4. /\ Len(InFlight') = Len(InFlight) + 1
      /\ \A i \in 1 .. Len(InFlight) : InFlight'[i] = InFlight[i]
      /\ InFlight'[Len(InFlight) + 1] = message
  BY <1>1, <1>3, AppendProperties
<1>5. DeadThread'
  BY <1>2 DEF FlightInv, DeadThread
<1>6. AppliedWasCalled'
  BY <1>2, <1>3 DEF FlightInv, AppliedWasCalled
<1>7. SendingIsNew'
  <2>. SUFFICES ASSUME NEW b \in Callers, call'[b].state = "sending"
                PROVE  /\ applied'[b] < call'[b].number
                       /\ \A i \in 1 .. Len(InFlight') :
                            InFlight'[i].caller = b => InFlight'[i].number < call'[b].number
    BY DEF SendingIsNew
  <2>1. b # c /\ call'[b] = call[b] /\ call[b].state = "sending"
    BY <1>2
  <2>2. /\ applied[b] < call[b].number
        /\ \A i \in 1 .. Len(InFlight) :
             InFlight[i].caller = b => InFlight[i].number < call[b].number
    BY <2>1 DEF FlightInv, SendingIsNew
  <2>3. ASSUME NEW i \in 1 .. Len(InFlight'), InFlight'[i].caller = b
        PROVE  i \in 1 .. Len(InFlight) /\ InFlight'[i] = InFlight[i]
    BY <1>1, <1>3, <1>4, <2>1, <2>3
  <2>. QED  BY <1>2, <2>1, <2>2, <2>3
<1>8. EffectsInCallOrder'
  <2>. SUFFICES ASSUME NEW i \in 1 .. Len(InFlight')
                PROVE  MessageInOrder(i)'
    BY OrderIsMessageInOrder
  <2>1. CASE i \in 1 .. Len(InFlight)
    <3>1. MessageInOrder(i)
      BY <2>1, OrderIsMessageInOrder DEF FlightInv
    <3>2. InFlight'[i] = InFlight[i] /\ \A j \in 1 .. (i - 1) : InFlight'[j] = InFlight[j]
      BY <1>3, <1>4, <2>1
    <3>. QED  BY <1>2, <1>3, <2>1, <3>1, <3>2 DEF MessageInOrder
  <2>2. CASE i = Len(InFlight) + 1
    <3>1. InFlight'[i] = message /\ \A j \in 1 .. (i - 1) : InFlight'[j] = InFlight[j]
      BY <1>3, <1>4, <2>2
    <3>. QED  BY <1>1, <1>2, <1>3, <2>2, <3>1 DEF FlightInv, SendingIsNew, MessageInOrder
  <2>. QED  BY <1>3, <1>4, <2>1, <2>2
<1>9. ResultBelongsToCall'
  <2>1. \E i \in 1 .. Len(InFlight') :
          InFlight'[i].caller = c /\ InFlight'[i].number = call'[c].number
    BY <1>1, <1>2, <1>3, <1>4
  <2>2. ASSUME NEW b \in Callers \ {c}
        PROVE  (\E i \in 1 .. Len(InFlight') :
                  InFlight'[i].caller = b /\ InFlight'[i].number = call[b].number)
               <=> (\E i \in 1 .. Len(InFlight) :
                      InFlight[i].caller = b /\ InFlight[i].number = call[b].number)
    <3>1. ASSUME NEW i \in 1 .. Len(InFlight'), InFlight'[i].caller = b
          PROVE  i \in 1 .. Len(InFlight) /\ InFlight'[i] = InFlight[i]
      BY <1>1, <1>3, <1>4, <3>1
    <3>2. ASSUME NEW i \in 1 .. Len(InFlight)
          PROVE  i \in 1 .. Len(InFlight') /\ InFlight'[i] = InFlight[i]
      BY <1>3, <1>4
    <3>. QED  BY <3>1, <3>2
  <2>. QED  BY <1>2, <2>1, <2>2 DEF FlightInv, ResultBelongsToCall
<1>10. DeadThreadMeansNoEffect'
  BY <1>2 DEF FlightInv, DeadThreadMeansNoEffect
<1>. QED  BY <1>5, <1>6, <1>7, <1>8, <1>9, <1>10 DEF FlightInv

\* A call that ends without being answered: nobody was told, or the thread is dead.
LEMMA CallEndsFlightInv ==
  ASSUME ControlTypeOK, FlightInv, NEW c \in Callers, SendFails(c) \/ CancelCall(c)
  PROVE  FlightInv'
<1>1. /\ UNCHANGED <<queue, thread, command, applied>>
      /\ call'[c].number = call[c].number
      /\ \/ call'[c].state = "idle"
         \/ /\ call'[c].state = "thread_dead"
            /\ call[c].state = "sending" /\ thread = "dead"
      /\ \A b \in Callers \ {c} : call'[b] = call[b]
  BY DEF SendFails, CancelCall, handles, ControlTypeOK
<1>2. UNCHANGED InFlight
  BY <1>1 DEF InFlight
<1>3. thread = "dead" => InFlight = <<>>
  BY EmptySeq, ConcatEmptySeq DEF FlightInv, DeadThread, InFlight
<1>4. \A b \in Callers : call'[b].number = call[b].number
  BY <1>1
<1>5. DeadThread' /\ AppliedWasCalled'
  BY <1>1, <1>4 DEF FlightInv, DeadThread, AppliedWasCalled
<1>6. SendingIsNew'
  BY <1>1, <1>2 DEF FlightInv, SendingIsNew
<1>7. EffectsInCallOrder'
  BY <1>1, <1>2, <1>4, NumberTypes DEF FlightInv, EffectsInCallOrder
<1>8. ResultBelongsToCall'
  BY <1>1, <1>2, <1>3 DEF FlightInv, ResultBelongsToCall
<1>9. DeadThreadMeansNoEffect'
  BY <1>1 DEF FlightInv, DeadThreadMeansNoEffect, SendingIsNew
<1>. QED  BY <1>5, <1>6, <1>7, <1>8, <1>9 DEF FlightInv

\* What FlightInv is about stays as it is.
LEMMA NothingSentFlightInv ==
  ASSUME FlightInv, UNCHANGED <<InFlight, call, applied>>,
         thread = "dead" <=> thread' = "dead", thread' = "dead" => UNCHANGED queue
  PROVE  FlightInv'
BY DEF FlightInv, DeadThread, AppliedWasCalled, SendingIsNew, EffectsInCallOrder,
       ResultBelongsToCall, DeadThreadMeansNoEffect

\* The command that is executed is the first one in flight; its caller is answered
\* if it still awaits the result of that very call.
LEMMA ExecuteFlightInv ==
  ASSUME ControlTypeOK, FlightInv, Execute
  PROVE  FlightInv'
<1>. DEFINE c == command.caller
<1>1. /\ command \in Messages /\ c \in Callers
      /\ Len(InFlight) = Len(InFlight') + 1 /\ InFlight[1] = command
      /\ \A i \in 1 .. Len(InFlight') : InFlight'[i] = InFlight[i + 1]
  BY ExecuteRemoves DEF Messages
<1>2. ControlTypeOK' /\ Len(InFlight) \in Nat /\ Len(InFlight') \in Nat
  <2>1. ControlTypeOK'
    BY ExecuteTypeOK
  <2>. QED  BY <2>1, InFlightType, <1>1
<1>3. /\ \A i \in 1 .. Len(InFlight) :
           InFlight[i].number \in Nat /\ InFlight[i].caller \in Callers
      /\ \A b \in Callers : call[b].number \in Nat /\ applied[b] \in Nat
  BY NumberTypes
<1>4. /\ thread = "executing" /\ thread' = "receiving"
      /\ \A b \in Callers : call[b].state # "thread_dead"
  BY DEF Execute, FlightInv, DeadThread
<1>5. /\ \A b \in Callers \ {c} : applied'[b] = applied[b]
      /\ applied'[c] = applied[c] \/ applied'[c] = command.number
  BY <1>1, ExecuteEffects DEF Applied, ControlTypeOK
<1>6. /\ \A b \in Callers : call'[b].number = call[b].number
      /\ \A b \in Callers : call'[b] # call[b] =>
           b = c /\ Awaited(command) /\ call'[b].state \in {"ok", "error"}
      /\ Awaited(command) => call'[c].state \in {"ok", "error"}
  <2>1. PICK result \in {"ok", "error"} : Reply(result)
    BY ExecuteEffects
  <2>2. call \in [Callers -> [state : CallStates, number : 0 .. MaxCalls]]
    BY DEF ControlTypeOK
  <2>3. CASE Awaited(command)
    <3>1. call' = [call EXCEPT ![c].state = result]
      BY <2>1, <2>3 DEF Reply
    <3>2. /\ call'[c].number = call[c].number /\ call'[c].state = result
          /\ \A b \in Callers \ {c} : call'[b] = call[b]
      BY <1>1, <2>2, <3>1
    <3>. QED  BY <2>3, <3>2
  <2>4. CASE ~Awaited(command)
    BY <2>1, <2>4 DEF Reply
  <2>. QED  BY <2>3, <2>4
<1>7. /\ applied[c] < command.number /\ command.number <= call[c].number
      /\ command.number \in Nat
  BY <1>1, <1>2, <1>3 DEF FlightInv, EffectsInCallOrder
<1>8. \A i \in 1 .. Len(InFlight') :
        InFlight'[i].caller = c => command.number < InFlight'[i].number
  <2>. SUFFICES ASSUME NEW i \in 1 .. Len(InFlight'), InFlight'[i].caller = c
                PROVE  command.number < InFlight'[i].number
    OBVIOUS
  <2>1. i + 1 \in 1 .. Len(InFlight) /\ 1 \in 1 .. i /\ InFlight[i + 1].caller = c
    BY <1>1, <1>2
  <2>2. MessageInOrder(i + 1)
    BY <2>1, OrderIsMessageInOrder DEF FlightInv
  <2>. QED  BY <1>1, <2>1, <2>2 DEF MessageInOrder
<1>9. DeadThread'
  BY <1>4, <1>6 DEF DeadThread
<1>10. AppliedWasCalled'
  BY <1>3, <1>5, <1>6, <1>7 DEF FlightInv, AppliedWasCalled
<1>11. SendingIsNew'
  <2>. SUFFICES ASSUME NEW b \in Callers, call'[b].state = "sending"
                PROVE  /\ applied'[b] < call'[b].number
                       /\ \A i \in 1 .. Len(InFlight') :
                            InFlight'[i].caller = b => InFlight'[i].number < call'[b].number
    BY DEF SendingIsNew
  <2>1. call'[b] = call[b] /\ call[b].state = "sending"
    BY <1>6
  <2>2. /\ applied[b] < call[b].number
        /\ \A i \in 1 .. Len(InFlight) :
             InFlight[i].caller = b => InFlight[i].number < call[b].number
    BY <2>1 DEF FlightInv, SendingIsNew
  <2>3. 1 \in 1 .. Len(InFlight) /\ \A i \in 1 .. Len(InFlight') : i + 1 \in 1 .. Len(InFlight)
    BY <1>1, <1>2
  <2>. QED  BY <1>1, <1>5, <2>1, <2>2, <2>3
<1>12. EffectsInCallOrder'
  <2>. SUFFICES ASSUME NEW i \in 1 .. Len(InFlight')
                PROVE  MessageInOrder(i)'
    BY OrderIsMessageInOrder
  <2>1. i + 1 \in 1 .. Len(InFlight) /\ \A j \in 1 .. (i - 1) : j + 1 \in 1 .. i
    BY <1>1, <1>2
  <2>2. MessageInOrder(i + 1)
    BY <2>1, OrderIsMessageInOrder DEF FlightInv
  <2>3. InFlight'[i] = InFlight[i + 1]
        /\ \A j \in 1 .. (i - 1) : InFlight'[j] = InFlight[j + 1]
    BY <1>1, <1>2
  <2>4. applied'[InFlight'[i].caller] < InFlight'[i].number
    <3>1. InFlight'[i].caller \in Callers
      BY <1>3, <2>1, <2>3
    <3>. QED  BY <1>5, <1>8, <2>2, <2>3, <3>1 DEF MessageInOrder
  <2>5. InFlight'[i].number <= call'[InFlight'[i].caller].number
    BY <1>3, <1>6, <2>1, <2>2, <2>3 DEF MessageInOrder
  <2>6. \A j \in 1 .. (i - 1) :
          InFlight'[j].caller = InFlight'[i].caller => InFlight'[j].number < InFlight'[i].number
    BY <2>1, <2>2, <2>3 DEF MessageInOrder
  <2>. QED  BY <2>4, <2>5, <2>6 DEF MessageInOrder
<1>13. ResultBelongsToCall'
  <2>. DEFINE Mine(b) == \E i \in 1 .. Len(InFlight) :
                InFlight[i].caller = b /\ InFlight[i].number = call[b].number
              Left(b) == \E i \in 1 .. Len(InFlight') :
                InFlight'[i].caller = b /\ InFlight'[i].number = call[b].number
  <2>1. \A b \in Callers : Left(b) => Mine(b)
    BY <1>1, <1>2
  <2>2. \A b \in Callers : Mine(b) => Left(b) \/ (b = c /\ call[b].number = command.number)
    <3>. SUFFICES ASSUME NEW b \in Callers, NEW i \in 1 .. Len(InFlight),
                         InFlight[i].caller = b, InFlight[i].number = call[b].number
                  PROVE  Left(b) \/ (b = c /\ call[b].number = command.number)
      OBVIOUS
    <3>1. CASE i = 1
      BY <1>1, <3>1
    <3>2. CASE i # 1
      <4>1. i - 1 \in 1 .. Len(InFlight') /\ InFlight'[i - 1] = InFlight[i]
        BY <1>1, <1>2, <3>2
      <4>. QED  BY <4>1
    <3>. QED  BY <3>1, <3>2
  <2>3. Left(c) => call[c].number # command.number
    BY <1>2, <1>7, <1>8
  <2>4. ASSUME NEW b \in Callers, call'[b].state \notin {"idle", "sending"}
        PROVE  call'[b].state = "awaiting" <=> Left(b)
    <3>1. CASE b = c /\ Awaited(command)
      BY <1>6, <2>3, <3>1 DEF Awaited
    <3>2. CASE ~(b = c /\ Awaited(command))
      <4>1. call'[b] = call[b]
        BY <1>6, <3>2
      <4>2. call[b].state = "awaiting" <=> Mine(b)
        BY <2>4, <4>1 DEF FlightInv, ResultBelongsToCall
      <4>. QED  BY <2>1, <2>2, <3>2, <4>1, <4>2 DEF Awaited
    <3>. QED  BY <3>1, <3>2
  <2>5. \A b \in Callers : call'[b].number = call[b].number
    BY <1>6
  <2>. QED  BY <2>4, <2>5 DEF ResultBelongsToCall
<1>14. DeadThreadMeansNoEffect'
  BY <1>4, <1>6 DEF DeadThreadMeansNoEffect
<1>. QED  BY <1>9, <1>10, <1>11, <1>12, <1>13, <1>14 DEF FlightInv

\* A panic drops all messages; none of them had an effect.
LEMMA PanicFlightInv ==
  ASSUME ControlTypeOK, FlightInv, Panic
  PROVE  FlightInv'
<1>1. /\ queue' = <<>> /\ thread' = "dead" /\ UNCHANGED applied
      /\ \A b \in Callers : call'[b].number = call[b].number
      /\ \A b \in Callers : call'[b].state =
           IF call[b].state = "awaiting" THEN "thread_dead" ELSE call[b].state
  BY DEF Panic, DropReceiver, ControlTypeOK
<1>2. InFlight' = <<>>
  BY <1>1, EmptySeq, ConcatEmptySeq DEF InFlight
<1>3. Len(InFlight') = 0
  BY <1>2
<1>4. \A b \in Callers : call[b].state = "awaiting" => applied[b] < call[b].number
  BY NumberTypes DEF FlightInv, ResultBelongsToCall, EffectsInCallOrder
<1>5. DeadThread' /\ AppliedWasCalled'
  BY <1>1 DEF FlightInv, DeadThread, AppliedWasCalled
<1>6. SendingIsNew' /\ EffectsInCallOrder'
  BY <1>1, <1>3 DEF FlightInv, SendingIsNew, EffectsInCallOrder
<1>7. ResultBelongsToCall'
  BY <1>1, <1>3 DEF ResultBelongsToCall
<1>8. DeadThreadMeansNoEffect'
  BY <1>1, <1>4 DEF FlightInv, DeadThreadMeansNoEffect
<1>. QED  BY <1>5, <1>6, <1>7, <1>8 DEF FlightInv

\* FlightInv is preserved, and with it the type and the cache.
LEMMA NextControlInv == ControlInv /\ [ControlNext]_controlVars => ControlInv'
<1>. SUFFICES ASSUME ControlInv, [ControlNext]_controlVars PROVE ControlInv'
  OBVIOUS
<1>0. ControlTypeOK /\ FlightInv /\ CachedGainModeIsReal
  BY DEF ControlInv, FlightInv
<1>. SUFFICES ControlTypeOK' /\ FlightInv' /\ CachedGainModeIsReal'
  BY DEF ControlInv, FlightInv
<1>1. ASSUME NEW c \in Callers, StartCall(c) \/ Unsupported(c)
      PROVE  ControlTypeOK' /\ FlightInv' /\ CachedGainModeIsReal'
  <2>1. ControlTypeOK'
    <3>1. call[c].number + 1 \in 0 .. MaxCalls
      BY <1>0, <1>1, CallsAssumption DEF StartCall, Unsupported, ControlTypeOK
    <3>2. call' \in [Callers -> [state : CallStates, number : 0 .. MaxCalls]]
      <4>1. PICK state \in {"sending", "error"} :
              call' = [call EXCEPT ![c] = [state |-> state, number |-> call[c].number + 1]]
        BY <1>1 DEF StartCall, Unsupported
      <4>2. [state |-> state, number |-> call[c].number + 1]
              \in [state : CallStates, number : 0 .. MaxCalls]
        BY <3>1, <4>1 DEF CallStates
      <4>3. call \in [Callers -> [state : CallStates, number : 0 .. MaxCalls]]
        BY <1>0 DEF ControlTypeOK
      <4>. QED  BY <4>1, <4>2, <4>3
    <3>. QED  BY <1>0, <1>1, <3>2 DEF StartCall, Unsupported, handles, ControlTypeOK
  <2>2. CachedGainModeIsReal'
    BY <1>0, <1>1 DEF StartCall, Unsupported, handles, CachedGainModeIsReal
  <2>. QED  BY <1>0, <1>1, <2>1, <2>2, StartCallFlightInv
<1>2. ASSUME NEW c \in Callers, Send(c)
      PROVE  ControlTypeOK' /\ FlightInv' /\ CachedGainModeIsReal'
  <2>1. PICK message \in Messages : queue' = Append(queue, message)
    BY <1>0, <1>2, SendAppends DEF FlightInv
  <2>2. queue' \in Seq(Messages) /\ Len(queue') <= QueueSize
    BY <1>0, <1>2, <2>1, QueueAssumption, AppendProperties DEF Send, Room, ControlTypeOK
  <2>3. call' \in [Callers -> [state : CallStates, number : 0 .. MaxCalls]]
    BY <1>0, <1>2 DEF Send, ControlTypeOK, CallStates
  <2>4. ControlTypeOK'
    BY <1>0, <1>2, <2>2, <2>3 DEF Send, handles, ControlTypeOK
  <2>5. CachedGainModeIsReal'
    BY <1>0, <1>2 DEF Send, handles, CachedGainModeIsReal
  <2>. QED  BY <1>0, <1>2, <2>4, <2>5, SendFlightInv
<1>3. ASSUME NEW c \in Callers, SendFails(c) \/ CancelCall(c)
      PROVE  ControlTypeOK' /\ FlightInv' /\ CachedGainModeIsReal'
  <2>1. ControlTypeOK'
    BY <1>0, <1>3 DEF SendFails, CancelCall, handles, ControlTypeOK, CallStates
  <2>2. CachedGainModeIsReal'
    BY <1>0, <1>3 DEF SendFails, CancelCall, handles, CachedGainModeIsReal
  <2>. QED  BY <1>0, <1>3, <2>1, <2>2, CallEndsFlightInv
<1>4. ASSUME NEW d \in Devices, ReaderLocks(d) \/ ReaderUnlocks(d)
      PROVE  ControlTypeOK' /\ FlightInv' /\ CachedGainModeIsReal'
  <2>1. ControlTypeOK'
    BY <1>0, <1>4 DEF ReaderLocks, ReaderUnlocks, ControlTypeOK
  <2>2. UNCHANGED <<InFlight, call, applied, thread, queue>>
    BY <1>4 DEF ReaderLocks, ReaderUnlocks, InFlight
  <2>3. CachedGainModeIsReal'
    BY <1>0, <1>4 DEF ReaderLocks, ReaderUnlocks, CachedGainModeIsReal
  <2>. QED  BY <1>0, <2>1, <2>2, <2>3, NothingSentFlightInv
<1>5. CASE Receive
  <2>1. Head(queue) \in Messages /\ Tail(queue) \in Seq(Messages)
        /\ Len(Tail(queue)) = Len(queue) - 1 /\ Len(queue) \in Nat
    BY <1>0, <1>5, HeadTailProperties, LenProperties DEF Receive, ControlTypeOK
  <2>2. ControlTypeOK'
    BY <1>0, <1>5, <2>1, QueueAssumption DEF Receive, handles, ControlTypeOK
  <2>3. UNCHANGED <<InFlight, call, applied>> /\ thread # "dead" /\ thread' # "dead"
    BY <1>0, <1>5, ReceiveKeepsInFlight DEF Receive
  <2>4. CachedGainModeIsReal'
    BY <1>0, <1>5 DEF Receive, handles, CachedGainModeIsReal
  <2>. QED  BY <1>0, <2>2, <2>3, <2>4, NothingSentFlightInv
<1>6. CASE Execute
  <2>1. CachedGainModeIsReal'
    <3>1. command.device \in Devices
      BY <1>0, <1>6 DEF Execute, ControlTypeOK, Messages
    <3>2. \/ UNCHANGED <<gain_mode, tuner_gain_mode>>
          \/ \E mode \in {"Auto", "Manual"} :
               /\ gain_mode' = [gain_mode EXCEPT ![command.device] = mode]
               /\ tuner_gain_mode' = [tuner_gain_mode EXCEPT ![command.device] = mode]
      BY <1>6 DEF Execute, ExecuteAuto, ExecuteManual, ExecuteOther, SetTunerGainMode
    <3>. QED  BY <1>0, <3>1, <3>2 DEF CachedGainModeIsReal, ControlTypeOK
  <2>. QED  BY <1>0, <1>6, <2>1, ExecuteTypeOK, ExecuteFlightInv
<1>7. CASE Panic
  <2>1. call' \in [Callers -> [state : CallStates, number : 0 .. MaxCalls]]
    BY <1>0, <1>7 DEF Panic, DropReceiver, ControlTypeOK, CallStates
  <2>2. queue' = <<>> /\ queue' \in Seq(Messages) /\ Len(queue') <= QueueSize
    BY <1>7, QueueAssumption, EmptySeq DEF Panic, DropReceiver
  <2>3. ControlTypeOK'
    BY <1>0, <1>7, <2>1, <2>2 DEF Panic, handles, ControlTypeOK
  <2>4. CachedGainModeIsReal'
    BY <1>0, <1>7 DEF Panic, handles, CachedGainModeIsReal
  <2>. QED  BY <1>0, <1>7, <2>3, <2>4, PanicFlightInv
<1>8. CASE UNCHANGED controlVars
  <2>1. ControlTypeOK' /\ CachedGainModeIsReal'
    BY <1>0, <1>8 DEF controlVars, handles, ControlTypeOK, CachedGainModeIsReal
  <2>2. UNCHANGED <<InFlight, call, applied, thread, queue>>
    BY <1>8 DEF controlVars, InFlight
  <2>. QED  BY <1>0, <2>1, <2>2, NothingSentFlightInv
<1>. QED  BY <1>1, <1>2, <1>3, <1>4, <1>5, <1>6, <1>7, <1>8 DEF ControlNext

\* In the initial state nothing is in flight.
LEMMA InitControlInv == ControlInit => ControlInv
<1>. SUFFICES ASSUME ControlInit PROVE ControlInv
  OBVIOUS
<1>1. queue = <<>> /\ InFlight = <<>> /\ Len(InFlight) = 0
  BY ConcatEmptySeq, EmptySeq DEF ControlInit, InFlight
<1>2. ControlTypeOK
  BY <1>1, QueueAssumption, CallsAssumption, EmptySeq
     DEF ControlInit, ControlTypeOK, CallStates
<1>3. DeadThread /\ AppliedWasCalled /\ SendingIsNew
  BY DEF ControlInit, DeadThread, AppliedWasCalled, SendingIsNew
<1>4. EffectsInCallOrder /\ ResultBelongsToCall
  BY <1>1 DEF ControlInit, EffectsInCallOrder, ResultBelongsToCall
<1>5. DeadThreadMeansNoEffect /\ CachedGainModeIsReal
  BY DEF ControlInit, DeadThreadMeansNoEffect, CachedGainModeIsReal
<1>. QED  BY <1>2, <1>3, <1>4, <1>5 DEF ControlInv

----------------------------------------------------------------------------
(* The theorems *)

\* The invariant holds in every reachable state.
THEOREM ControlInvariance == ControlSpec => []ControlInv
BY InitControlInv, NextControlInv, PTL DEF ControlSpec

\* Every variable keeps its type, and the queue its bound.
THEOREM ControlTypes == ControlSpec => []ControlTypeOK
<1>1. ControlInv => ControlTypeOK
  BY DEF ControlInv
<1>. QED  BY <1>1, ControlInvariance, PTL

\* Any number of callers that drop their futures, and any number of commands that
\* are still queued then, take effect in the order of the calls, at most once.
THEOREM EffectsAreInCallOrder == ControlSpec => []EffectsInCallOrder
<1>1. ControlInv => EffectsInCallOrder
  BY DEF ControlInv
<1>. QED  BY <1>1, ControlInvariance, PTL

\* No call is forgotten, and none gets the result of another.
THEOREM ResultsBelongToCalls == ControlSpec => []ResultBelongsToCall
<1>1. ControlInv => ResultBelongsToCall
  BY DEF ControlInv
<1>. QED  BY <1>1, ControlInvariance, PTL

\* A call that fails because of a panic of the control thread had no effect.
THEOREM DeadThreadHadNoEffect == ControlSpec => []DeadThreadMeansNoEffect
<1>1. ControlInv => DeadThreadMeansNoEffect
  BY DEF ControlInv
<1>. QED  BY <1>1, ControlInvariance, PTL

\* Commands of a tuner's gain that fail, or fail halfway, leave a cache that is right.
THEOREM CacheIsReal == ControlSpec => []CachedGainModeIsReal
<1>1. ControlInv => CachedGainModeIsReal
  BY DEF ControlInv
<1>. QED  BY <1>1, ControlInvariance, PTL

=============================================================================
