------------------------- MODULE RtlTcpClientProofs -------------------------
(***************************************************************************)
(* Proofs about the rtl_tcp client, for any number of handles and commands *)
(* and any sizes of the two queues.                                        *)
(***************************************************************************)
EXTENDS RtlTcpClient, BufferQueueProofs

----------------------------------------------------------------------------
(* The client is a buffer queue. *)

\* Every action of the client is an operation of the queue, or none.
LEMMA ClientStepIsQueueStep == [ClientNext]_clientVars => [Next]_vars
<1>. SUFFICES ASSUME [ClientNext]_clientVars PROVE [Next]_vars
  OBVIOUS
<1>1. CASE Handshake \/ TakeCommand \/ Flush \/ ServerExecutes
  BY <1>1 DEF Handshake, TakeCommand, Flush, ServerExecutes
<1>2. CASE HandshakeFails \/ FlushFails \/ CommandsEnd \/ ReadFails
  BY <1>2 DEF HandshakeFails, FlushFails, CommandsEnd, ReadFails, Close, Next
<1>3. CASE ReadExact \/ Swap \/ ConnectionEnds
  BY <1>3 DEF ReadExact, Swap, ConnectionEnds, Next
<1>4. ASSUME NEW s \in Subscribers, NEW c \in Commands,
             ConnectReturns(s) \/ SendCommand(s, c) \/ Enqueue(s)
               \/ EnqueueFails(s) \/ CancelCall(s)
      PROVE  [Next]_vars
  BY <1>4 DEF ConnectReturns, SendCommand, Enqueue, EnqueueFails, CancelCall
<1>5. ASSUME NEW s \in Subscribers, OpenStream(s) \/ CloneClient(s) \/ DropClient(s)
      PROVE  [Next]_vars
  BY <1>5 DEF OpenStream, CloneClient, DropClient, Next
<1>6. ASSUME NEW r \in Receivers, DropSamples(r) \/ PollSamples(r)
      PROVE  [Next]_vars
  BY <1>6 DEF DropSamples, PollSamples, Next
<1>7. CASE UNCHANGED clientVars
  BY <1>7 DEF clientVars
<1>8. Commands # {}
  BY DEF Commands
<1>. QED  BY <1>1, <1>2, <1>3, <1>4, <1>5, <1>6, <1>7, <1>8
          DEF ClientNext, ForwardCommands

\* The client of rtl_tcp/client.rs uses the queue as its specification says.
THEOREM ClientIsQueue == ClientSpec => Spec
<1>1. ClientInit => Init
  BY DEF ClientInit
<1>. QED  BY <1>1, ClientStepIsQueueStep, PTL DEF ClientSpec, Spec

\* Its streams get what LossyBroadcast promises.
THEOREM ClientBroadcasts == ClientSpec => BroadcastSpec
BY ClientIsQueue, Refinement, PTL

----------------------------------------------------------------------------
(* The inductive invariant *)

\* Types that do not depend on how many commands can be taken.
Types ==
  /\ connection \in {"handshake", "open", "closed", "refused"}
  /\ queue \in Seq(Messages) /\ Len(queue) <= QueueSize
  /\ flushing \in BOOLEAN
  /\ call \in [Subscribers ->
                 [state : CallStates, id : 0 .. MaxCommands, command : Commands]]
  /\ buffers \in [Numbers -> [tag : Nat, newest : Nat]]
  /\ kind \in [Receivers -> Modes]
  /\ stream \in [Receivers -> {"open", "switched"}]
  /\ sent \in 0 .. MaxCommands
  /\ taken \in Seq([id : 1 .. MaxCommands, mode : Modes])
  /\ opened \in [Receivers -> Nat]

\* No command with this id is in the queue, or was taken.
NotQueued(id) == \A n \in 1 .. Len(queue) : queue[n].id # id
NotTaken(id) == \A n \in 1 .. Len(taken) : taken[n].id # id

\* Every command is in one place: with its call, in the queue, or taken.
MessagesInv ==
  /\ \A n \in 1 .. Len(queue) : queue[n].id <= sent /\ NotTaken(queue[n].id)
  /\ \A n \in 1 .. Len(taken) : taken[n].id <= sent
  /\ \A m, n \in 1 .. Len(queue) : m # n => queue[m].id # queue[n].id
  /\ \A m, n \in 1 .. Len(taken) : m # n => taken[m].id # taken[n].id
  /\ connection # "open" => queue = <<>>

\* What the user of a handle knows of the command of its latest call.
CallOK(s) ==
  /\ call[s].state = "connecting" => call[s].id = 0
  /\ call[s].state = "sending" =>
       /\ call[s].id \in 1 .. sent
       /\ NotQueued(call[s].id) /\ NotTaken(call[s].id)
  /\ call[s].state = "awaiting" =>
       /\ call[s].id \in 1 .. sent
       /\ NotTaken(call[s].id)
       /\ \A n \in 1 .. Len(queue) :
            queue[n].id = call[s].id =>
              queue[n].client = s /\ queue[n].command = call[s].command
  /\ call[s].state = "ok" =>
       \E n \in 1 .. Len(taken) :
         /\ taken[n].id = call[s].id
         /\ call[s].command # "other" => taken[n].mode = call[s].command
  /\ call[s].state = "closed" =>
       connection \in {"closed", "refused"} /\ NotTaken(call[s].id)

\* ClosedMeansNotSent is not inductive: a command that nobody has taken yet may still
\* be in the queue, or on its way there.  That its answer goes to the call that
\* awaits it takes that no two commands have the same number.
CallsInv ==
  /\ \A s \in Subscribers : CallOK(s)
  /\ \A s, t \in Subscribers :
       s # t /\ call[s].state \in Pending /\ call[t].state \in Pending =>
         call[s].id # call[t].id

\* TagsNeverBehind is not inductive: what a buffer that is read now holds depends on
\* what the server has executed, which is less than what it was sent, which is less
\* than what the client takes to be the state of the device.
TagsInv ==
  /\ receiver_state = Len(taken)
  /\ flushed \in Nat /\ flushed <= Len(taken)
  /\ flushing => flushed < Len(taken)
  /\ executed \in 0 .. flushed
  /\ \A n \in Numbers :
       buffers[n].newest <= buffers[n].tag /\ buffers[n].tag <= Len(taken)

\* What keeps a stream from ending on an old buffer: those it may still be handed were
\* read after the command that opened it was taken.
StreamOK(r) ==
  /\ opened[r] <= Len(taken)
  /\ r \in LiveReceivers =>
       \A n \in 1 .. tail_pos : n > read_pos[r] => opened[r] <= buffers[n].tag
  /\ stream[r] = "switched" =>
       /\ r \in LiveReceivers
       /\ \E n \in opened[r] .. Len(taken) : ModeAfter(n) # kind[r]

\* No command is taken while a buffer is on its way to the queue, so that every buffer
\* pushed reflects all commands taken.
StreamsInv ==
  /\ tail_pos <= fills /\ fills <= MaxFills /\ push_buffer <= fills
  /\ push_buffer # NoBuffer => buffers[push_buffer].tag = Len(taken)
  /\ \A r \in Receivers : StreamOK(r)

\* Together with that of the queue, these are inductive.
ClientInv ==
  /\ IInv
  /\ Types
  /\ MessagesInv
  /\ CallsInv
  /\ TagsInv
  /\ StreamsInv

----------------------------------------------------------------------------
(* Sequences *)

\* Append adds an element after those that were there.
LEMMA AppendFacts ==
  ASSUME NEW S, NEW q \in Seq(S), NEW e \in S
  PROVE  /\ Append(q, e) \in Seq(S)
         /\ Len(q) \in Nat /\ Len(Append(q, e)) = Len(q) + 1
         /\ \A n \in 1 .. Len(q) : Append(q, e)[n] = q[n]
         /\ Append(q, e)[Len(q) + 1] = e
         /\ 1 .. Len(q) + 1 = 1 .. Len(q) \cup {Len(q) + 1}
         /\ Len(q) + 1 \notin 1 .. Len(q)
<1>1. Len(q) \in Nat
  OBVIOUS
<1>. QED  BY <1>1

\* Tail removes the first element, which is Head.
LEMMA TailFacts ==
  ASSUME NEW S, NEW q \in Seq(S), q # <<>>
  PROVE  /\ Tail(q) \in Seq(S)
         /\ Head(q) \in S /\ Head(q) = q[1] /\ 1 \in 1 .. Len(q)
         /\ Len(q) \in Nat /\ Len(Tail(q)) = Len(q) - 1
         /\ \A n \in 1 .. Len(Tail(q)) : n + 1 \in 1 .. Len(q) /\ Tail(q)[n] = q[n + 1]
<1>1. Len(q) \in Nat \ {0}
  OBVIOUS
<1>. QED  BY <1>1

\* The elements of a sequence are of its type.
LEMMA ElementType == \A S : \A q \in Seq(S) : \A n \in 1 .. Len(q) : q[n] \in S
  OBVIOUS

\* What is known of queue and taken.
LEMMA SequenceTypes ==
  ASSUME Types
  PROVE  /\ queue \in Seq(Messages) /\ Len(queue) \in Nat
         /\ taken \in Seq([id : 1 .. MaxCommands, mode : Modes]) /\ Len(taken) \in Nat
         /\ \A n \in 1 .. Len(queue) :
              /\ queue[n] \in Messages
              /\ queue[n].client \in Subscribers /\ queue[n].command \in Commands
              /\ queue[n].id \in 1 .. MaxCommands
         /\ \A n \in 1 .. Len(taken) :
              taken[n].id \in 1 .. MaxCommands /\ taken[n].mode \in Modes
         /\ sent \in Nat /\ MaxCommands \in Nat
<1>1. queue \in Seq(Messages) /\ taken \in Seq([id : 1 .. MaxCommands, mode : Modes])
  BY DEF Types
<1>2. /\ \A n \in 1 .. Len(queue) : queue[n] \in Messages
      /\ \A n \in 1 .. Len(taken) : taken[n] \in [id : 1 .. MaxCommands, mode : Modes]
  BY <1>1, ElementType
<1>3. sent \in Nat /\ MaxCommands \in Nat /\ Len(queue) \in Nat /\ Len(taken) \in Nat
  BY <1>1, CommandsAssumption DEF Types
<1>. QED  BY <1>1, <1>2, <1>3 DEF Messages

----------------------------------------------------------------------------
(* Commands and calls *)

\* Commands and calls are about each other, and are kept together.
MessagesAndCalls == MessagesInv /\ CallsInv

\* Nobody's call and no message changes.
LEMMA NothingSent ==
  ASSUME MessagesAndCalls, UNCHANGED <<connection, queue, taken, call, sent>>
  PROVE  MessagesAndCalls'
BY DEF MessagesAndCalls, MessagesInv, CallsInv, CallOK, NotQueued, NotTaken

\* A call that changes on its own, without a message.
LEMMA CallChanges ==
  ASSUME Types, MessagesAndCalls, NEW s \in Subscribers,
         UNCHANGED <<connection, queue, taken, sent>>,
         NEW c, call' = [call EXCEPT ![s] = c],
         CallOK(s)',
         c.state \in Pending => call[s].state \in Pending /\ c.id = call[s].id
  PROVE  MessagesAndCalls'
<1>1. call'[s] = c /\ \A t \in Subscribers \ {s} : call'[t] = call[t]
  BY DEF Types
<1>2. MessagesInv'
  BY DEF MessagesAndCalls, MessagesInv, NotTaken
<1>3. \A t \in Subscribers : CallOK(t)'
  BY <1>1 DEF MessagesAndCalls, CallsInv, CallOK, NotQueued, NotTaken
<1>4. ASSUME NEW t \in Subscribers, NEW u \in Subscribers, t # u,
             call'[t].state \in Pending, call'[u].state \in Pending
      PROVE  call'[t].id # call'[u].id
  BY <1>1, <1>4 DEF MessagesAndCalls, CallsInv
<1>. QED  BY <1>2, <1>3, <1>4 DEF MessagesAndCalls, CallsInv

\* A command gets a number of its own.
LEMMA SendCommandKeeps ==
  ASSUME Types, MessagesAndCalls, NEW s \in Subscribers, NEW c \in Commands,
         SendCommand(s, c)
  PROVE  MessagesAndCalls'
<1>1. /\ UNCHANGED <<connection, queue, taken>> /\ sent' = sent + 1
      /\ call' = [call EXCEPT ![s] = Call("sending", sent + 1, c)]
  BY DEF SendCommand, commands
<1>2. /\ call'[s].state = "sending" /\ call'[s].id = sent + 1
      /\ \A t \in Subscribers \ {s} : call'[t] = call[t]
  BY <1>1 DEF Types, Call
<1>3. \A n \in 1 .. Len(queue) : queue[n].id <= sent /\ queue[n].id \in Nat
  BY SequenceTypes DEF MessagesAndCalls, MessagesInv
<1>4. \A n \in 1 .. Len(taken) : taken[n].id <= sent /\ taken[n].id \in Nat
  BY SequenceTypes DEF MessagesAndCalls, MessagesInv
<1>5. MessagesInv'
  BY <1>1, <1>3, <1>4, SequenceTypes DEF MessagesAndCalls, MessagesInv, NotTaken
<1>6. NotQueued(sent + 1) /\ NotTaken(sent + 1)
  BY <1>3, <1>4, SequenceTypes DEF NotQueued, NotTaken
<1>7. CallOK(s)'
  BY <1>1, <1>2, <1>6, SequenceTypes DEF CallOK, NotQueued, NotTaken
<1>8. \A t \in Subscribers : CallOK(t)'
  <2>1. ASSUME NEW t \in Subscribers \ {s} PROVE CallOK(t)'
    <3>1. CallOK(t) /\ call'[t] = call[t] /\ call[t].id \in Nat
      BY <1>2 DEF MessagesAndCalls, CallsInv, Types
    <3>2. call[t].id \in 1 .. sent => call[t].id \in 1 .. sent'
      BY <1>1, <3>1, SequenceTypes
    <3>. QED  BY <1>1, <3>1, <3>2 DEF CallOK, NotQueued, NotTaken
  <2>. QED  BY <1>7, <2>1
<1>9. ASSUME NEW t \in Subscribers \ {s}, call[t].state \in Pending
      PROVE  call[t].id # sent + 1
  BY <1>9, SequenceTypes DEF MessagesAndCalls, CallsInv, CallOK, Pending
<1>. QED  BY <1>2, <1>5, <1>8, <1>9 DEF MessagesAndCalls, CallsInv

\* A command moves into the queue.
LEMMA EnqueueKeeps ==
  ASSUME Types, MessagesAndCalls, NEW s \in Subscribers, Enqueue(s)
  PROVE  MessagesAndCalls'
<1>. DEFINE message == [client |-> s, id |-> call[s].id, command |-> call[s].command]
<1>1. /\ call[s].state = "sending" /\ connection = "open"
      /\ queue' = Append(queue, message)
      /\ call' = [call EXCEPT ![s].state = "awaiting"]
      /\ UNCHANGED <<connection, taken, sent>>
  BY DEF Enqueue
<1>2. /\ call[s].id \in 1 .. sent /\ NotQueued(call[s].id) /\ NotTaken(call[s].id)
      /\ call[s].command \in Commands
  BY <1>1 DEF MessagesAndCalls, CallsInv, CallOK, Types
<1>3. message \in Messages
  BY <1>2, SequenceTypes DEF Messages, Types
<1>4. /\ call'[s] = [call[s] EXCEPT !.state = "awaiting"]
      /\ \A t \in Subscribers \ {s} : call'[t] = call[t]
  BY <1>1 DEF Types
<1>5. /\ call'[s].state = "awaiting" /\ call'[s].id = call[s].id
      /\ call'[s].command = call[s].command
  BY <1>4 DEF Types
<1>6. /\ Len(queue') = Len(queue) + 1 /\ queue'[Len(queue) + 1] = message
      /\ \A n \in 1 .. Len(queue) : queue'[n] = queue[n]
      /\ 1 .. Len(queue') = 1 .. Len(queue) \cup {Len(queue) + 1}
      /\ Len(queue) + 1 \notin 1 .. Len(queue)
  BY <1>1, <1>3, SequenceTypes, AppendFacts
<1>7. message.id = call[s].id /\ message.client = s /\ message.command = call[s].command
  OBVIOUS
<1>. HIDE DEF message
<1>8. MessagesInv'
  <2>1. \A n \in 1 .. Len(queue') : queue'[n].id <= sent /\ NotTaken(queue'[n].id)
    BY <1>2, <1>6, <1>7 DEF MessagesAndCalls, MessagesInv
  <2>2. \A m, n \in 1 .. Len(queue') : m # n => queue'[m].id # queue'[n].id
    BY <1>2, <1>6, <1>7 DEF MessagesAndCalls, MessagesInv, NotQueued
  <2>. QED  BY <1>1, <2>1, <2>2 DEF MessagesAndCalls, MessagesInv, NotTaken
<1>9. CallOK(s)'
  <2>1. \A n \in 1 .. Len(queue') :
          queue'[n].id = call[s].id =>
            queue'[n].client = s /\ queue'[n].command = call[s].command
    BY <1>2, <1>6, <1>7 DEF NotQueued
  <2>. QED  BY <1>1, <1>2, <1>5, <2>1 DEF CallOK, NotTaken
<1>10. ASSUME NEW t \in Subscribers \ {s} PROVE CallOK(t)'
  <2>1. CallOK(t) /\ call'[t] = call[t]
    BY <1>4 DEF MessagesAndCalls, CallsInv
  <2>2. call[t].state \in Pending => call[t].id # call[s].id
    BY <1>1 DEF MessagesAndCalls, CallsInv, Pending
  <2>3. call[t].state = "sending" => \A n \in 1 .. Len(queue') : queue'[n].id # call[t].id
    BY <1>6, <1>7, <2>1, <2>2 DEF CallOK, NotQueued, Pending
  <2>4. call[t].state = "awaiting" =>
          \A n \in 1 .. Len(queue') :
            queue'[n].id = call[t].id =>
              queue'[n].client = t /\ queue'[n].command = call[t].command
    BY <1>6, <1>7, <2>1, <2>2 DEF CallOK, Pending
  <2>. QED  BY <1>1, <2>1, <2>3, <2>4 DEF CallOK, NotTaken, NotQueued
<1>11. ASSUME NEW t \in Subscribers, NEW u \in Subscribers, t # u,
              call'[t].state \in Pending, call'[u].state \in Pending
       PROVE  call'[t].id # call'[u].id
  <2>1. ASSUME NEW v \in Subscribers, call'[v].state \in Pending
        PROVE  call[v].state \in Pending /\ call'[v].id = call[v].id
    BY <1>1, <1>4, <1>5, <2>1 DEF Pending
  <2>2. call[t].state \in Pending /\ call[u].state \in Pending
    BY <1>11, <2>1
  <2>3. call[t].id # call[u].id
    BY <1>11, <2>2 DEF MessagesAndCalls, CallsInv
  <2>. QED  BY <1>11, <2>1, <2>3
<1>. QED  BY <1>8, <1>9, <1>10, <1>11 DEF MessagesAndCalls, CallsInv

\* The next command is taken, and the call that awaits it, if it still does, is told.
LEMMA TakeCommandKeeps ==
  ASSUME Types, MessagesAndCalls, TakeCommand
  PROVE  MessagesAndCalls'
<1>1. PICK message : message = Head(queue)
  OBVIOUS
<1>2. /\ connection = "open" /\ queue # <<>> /\ queue' = Tail(queue)
      /\ UNCHANGED <<connection, sent>>
      /\ Answer(message)
      /\ taken' = Append(taken,
                    [id |-> message.id,
                     mode |-> IF message.command = "other"
                              THEN ModeAfter(Len(taken)) ELSE message.command])
  BY <1>1 DEF TakeCommand
<1>3. PICK mode \in Modes :
        /\ taken' = Append(taken, [id |-> message.id, mode |-> mode])
        /\ message.command # "other" => mode = message.command
  <2>1. ModeAfter(Len(taken)) \in Modes
    BY SequenceTypes DEF ModeAfter, Modes
  <2>2. message.command \in Modes \cup {"other"}
    BY <1>1, <1>2, SequenceTypes, TailFacts DEF Commands
  <2>. QED  BY <1>2, <2>1, <2>2
<1>4. /\ message = queue[1] /\ 1 \in 1 .. Len(queue)
      /\ message.id \in 1 .. MaxCommands /\ message.client \in Subscribers
      /\ \A n \in 1 .. Len(queue') :
           n + 1 \in 1 .. Len(queue) /\ n + 1 # 1 /\ queue'[n] = queue[n + 1]
      /\ Len(queue') \in Nat
  <2>1. /\ Head(queue) = queue[1] /\ 1 \in 1 .. Len(queue) /\ Len(queue) \in Nat
        /\ Len(queue') = Len(queue) - 1
        /\ \A n \in 1 .. Len(queue') : n + 1 \in 1 .. Len(queue) /\ queue'[n] = queue[n + 1]
    BY <1>2, SequenceTypes, TailFacts
  <2>. QED  BY <1>1, <2>1, SequenceTypes
<1>5. /\ Len(taken') = Len(taken) + 1
      /\ taken'[Len(taken) + 1] = [id |-> message.id, mode |-> mode]
      /\ \A n \in 1 .. Len(taken) : taken'[n] = taken[n]
      /\ 1 .. Len(taken') = 1 .. Len(taken) \cup {Len(taken) + 1}
      /\ Len(taken) + 1 \notin 1 .. Len(taken)
  <2>1. [id |-> message.id, mode |-> mode] \in [id : 1 .. MaxCommands, mode : Modes]
    BY <1>4
  <2>. QED  BY <1>3, <2>1, SequenceTypes, AppendFacts
<1>6. taken'[Len(taken) + 1].id = message.id /\ taken'[Len(taken) + 1].mode = mode
  BY <1>5
<1>7. \A id : NotTaken(id) /\ id # message.id => \A n \in 1 .. Len(taken') : taken'[n].id # id
  BY <1>5, <1>6 DEF NotTaken
<1>8. \A id : NotQueued(id) => id # message.id /\ \A n \in 1 .. Len(queue') : queue'[n].id # id
  BY <1>4 DEF NotQueued
<1>9. MessagesInv'
  <2>1. ASSUME NEW n \in 1 .. Len(queue')
        PROVE  /\ queue'[n].id <= sent
               /\ \A m \in 1 .. Len(taken') : taken'[m].id # queue'[n].id
    <3>1. queue[n + 1].id <= sent /\ NotTaken(queue[n + 1].id)
      BY <1>4 DEF MessagesAndCalls, MessagesInv
    <3>2. queue[n + 1].id # queue[1].id
      BY <1>4 DEF MessagesAndCalls, MessagesInv
    <3>. QED  BY <1>4, <1>7, <3>1, <3>2
  <2>2. \A m, n \in 1 .. Len(queue') : m # n => queue'[m].id # queue'[n].id
    <3>. SUFFICES ASSUME NEW m \in 1 .. Len(queue'), NEW n \in 1 .. Len(queue'), m # n
                  PROVE  queue'[m].id # queue'[n].id
      OBVIOUS
    <3>1. m + 1 \in 1 .. Len(queue) /\ n + 1 \in 1 .. Len(queue) /\ m + 1 # n + 1
      BY <1>4
    <3>2. queue[m + 1].id # queue[n + 1].id
      BY <3>1 DEF MessagesAndCalls, MessagesInv
    <3>. QED  BY <1>4, <3>2
  <2>3. message.id <= sent /\ NotTaken(message.id)
    BY <1>4 DEF MessagesAndCalls, MessagesInv
  <2>4. \A n \in 1 .. Len(taken') : taken'[n].id <= sent
    BY <1>5, <1>6, <2>3 DEF MessagesAndCalls, MessagesInv
  <2>5. \A m, n \in 1 .. Len(taken') : m # n => taken'[m].id # taken'[n].id
    BY <1>5, <1>6, <2>3 DEF MessagesAndCalls, MessagesInv, NotTaken
  <2>. QED  BY <1>2, <2>1, <2>2, <2>4, <2>5 DEF MessagesInv, NotTaken
<1>10. ASSUME NEW t \in Subscribers, call[t].state = "awaiting", call[t].id = message.id
       PROVE  CallOK(t)' /\ call'[t].state = "ok"
  <2>1. message.client = t /\ message.command = call[t].command
    BY <1>4, <1>10 DEF MessagesAndCalls, CallsInv, CallOK
  <2>2. call' = [call EXCEPT ![t].state = "ok"]
    BY <1>2, <1>10, <2>1 DEF Answer
  <2>3. /\ call'[t].state = "ok" /\ call'[t].id = message.id
        /\ call'[t].command = message.command
    BY <1>10, <2>1, <2>2 DEF Types
  <2>4. Len(taken) + 1 \in 1 .. Len(taken')
    BY <1>5
  <2>. QED  BY <1>3, <1>6, <2>3, <2>4 DEF CallOK
<1>11. ASSUME NEW t \in Subscribers, ~(call[t].state = "awaiting" /\ call[t].id = message.id)
       PROVE  CallOK(t)' /\ call'[t] = call[t]
  <2>1. call'[t] = call[t]
    BY <1>2, <1>11 DEF Answer, Types
  <2>2. CallOK(t)
    BY DEF MessagesAndCalls, CallsInv
  <2>3. call[t].state # "closed"
    BY <1>2, <2>2 DEF CallOK
  <2>4. call[t].state = "sending" =>
          /\ \A n \in 1 .. Len(queue') : queue'[n].id # call[t].id
          /\ \A n \in 1 .. Len(taken') : taken'[n].id # call[t].id
    BY <1>7, <1>8, <2>2 DEF CallOK
  <2>5. call[t].state = "awaiting" =>
          /\ \A n \in 1 .. Len(taken') : taken'[n].id # call[t].id
          /\ \A n \in 1 .. Len(queue') :
               queue'[n].id = call[t].id =>
                 queue'[n].client = t /\ queue'[n].command = call[t].command
    BY <1>4, <1>7, <1>11, <2>2 DEF CallOK
  <2>6. call[t].state = "ok" =>
          \E n \in 1 .. Len(taken') :
            /\ taken'[n].id = call[t].id
            /\ call[t].command # "other" => taken'[n].mode = call[t].command
    BY <1>5, <2>2 DEF CallOK
  <2>. QED  BY <1>2, <2>1, <2>2, <2>3, <2>4, <2>5, <2>6 DEF CallOK, NotTaken, NotQueued
<1>12. \A t \in Subscribers :
         CallOK(t)' /\ (call'[t].state \in Pending => call'[t] = call[t])
  BY <1>10, <1>11 DEF Pending
<1>13. \A t, u \in Subscribers :
         t # u /\ call'[t].state \in Pending /\ call'[u].state \in Pending =>
           call'[t].id # call'[u].id
  BY <1>12 DEF MessagesAndCalls, CallsInv
<1>. QED  BY <1>9, <1>12, <1>13 DEF MessagesAndCalls, CallsInv

\* The connection ends: nobody will take what is in the queue, and the calls that
\* await it fail.
LEMMA CloseKeeps ==
  ASSUME Types, MessagesAndCalls, NEW reason \in {"closed", "refused"}, Close(reason)
  PROVE  MessagesAndCalls'
<1>1. /\ connection' = reason /\ queue' = <<>> /\ UNCHANGED <<taken, sent>>
      /\ call' = [s \in Subscribers |->
                    IF call[s].state = "awaiting" THEN [call[s] EXCEPT !.state = "closed"]
                    ELSE call[s]]
  BY DEF Close, DropMessages
<1>2. Len(queue') = 0 /\ 1 .. Len(queue') = {}
  BY <1>1
<1>3. MessagesInv'
  BY <1>1, <1>2 DEF MessagesAndCalls, MessagesInv, NotTaken
<1>4. ASSUME NEW t \in Subscribers PROVE CallOK(t)'
  <2>1. CallOK(t)
    BY DEF MessagesAndCalls, CallsInv
  <2>2. CASE call[t].state = "awaiting"
    <3>1. call'[t].state = "closed" /\ call'[t].id = call[t].id
      BY <1>1, <2>2 DEF Types
    <3>. QED  BY <1>1, <2>1, <2>2, <3>1 DEF CallOK, NotTaken
  <2>3. CASE call[t].state # "awaiting"
    <3>1. call'[t] = call[t]
      BY <1>1, <2>3
    <3>. QED  BY <1>1, <1>2, <2>1, <2>3, <3>1 DEF CallOK, NotTaken, NotQueued
  <2>. QED  BY <2>2, <2>3
<1>5. \A t \in Subscribers : call'[t].state \in Pending => call'[t] = call[t]
  BY <1>1 DEF Types, Pending
<1>6. \A t, u \in Subscribers :
        t # u /\ call'[t].state \in Pending /\ call'[u].state \in Pending =>
          call'[t].id # call'[u].id
  BY <1>5 DEF MessagesAndCalls, CallsInv
<1>. QED  BY <1>3, <1>4, <1>6 DEF MessagesAndCalls, CallsInv

\* The handshake succeeds: no call has failed so far.
LEMMA HandshakeKeeps ==
  ASSUME Types, MessagesAndCalls, Handshake
  PROVE  MessagesAndCalls'
<1>1. /\ connection = "handshake" /\ connection' = "open"
      /\ UNCHANGED <<queue, taken, call, sent>>
  BY DEF Handshake, commands
<1>2. MessagesInv'
  BY <1>1 DEF MessagesAndCalls, MessagesInv, NotTaken
<1>. QED  BY <1>1, <1>2 DEF MessagesAndCalls, CallsInv, CallOK, NotQueued, NotTaken

\* A call that is done, or dropped, is about nothing in the queue.
LEMMA CallEndsKeeps ==
  ASSUME Types, MessagesAndCalls, NEW s \in Subscribers,
         ConnectReturns(s) \/ EnqueueFails(s) \/ CancelCall(s) \/ OpenStream(s)
           \/ DropClient(s)
  PROVE  MessagesAndCalls'
<1>1. UNCHANGED <<connection, queue, taken, sent>>
  BY DEF ConnectReturns, EnqueueFails, CancelCall, OpenStream, DropClient, commands
<1>2. CASE CancelCall(s) \/ OpenStream(s) \/ DropClient(s)
  <2>1. call' = [call EXCEPT ![s] = Idle]
    BY <1>2 DEF CancelCall, OpenStream, DropClient
  <2>2. call'[s].state = "idle"
    BY <2>1 DEF Types, Idle, Call
  <2>. QED  BY <1>1, <2>1, <2>2, CallChanges DEF CallOK, Idle, Call, Pending
<1>3. CASE EnqueueFails(s)
  <2>1. /\ call[s].state = "sending" /\ connection = "closed"
        /\ call' = [call EXCEPT ![s] = [call[s] EXCEPT !.state = "closed"]]
    BY <1>3 DEF EnqueueFails, Types
  <2>2. call'[s].state = "closed" /\ call'[s].id = call[s].id
    BY <2>1 DEF Types
  <2>3. NotTaken(call[s].id)
    BY <2>1 DEF MessagesAndCalls, CallsInv, CallOK
  <2>4. CallOK(s)'
    BY <1>1, <2>1, <2>2, <2>3 DEF CallOK, NotTaken
  <2>5. [call[s] EXCEPT !.state = "closed"].state \notin Pending
    BY DEF Types, Pending
  <2>. QED  BY <1>1, <2>1, <2>4, <2>5, CallChanges
<1>4. CASE ConnectReturns(s)
  <2>1. PICK c \in {"closed", "idle"} :
          /\ call' = [call EXCEPT ![s] = [call[s] EXCEPT !.state = c]]
          /\ call[s].state = "connecting"
          /\ c = "closed" => connection = "refused"
    BY <1>4 DEF ConnectReturns, Types
  <2>2. call'[s].state = c /\ call'[s].id = call[s].id /\ call[s].id = 0
    BY <2>1 DEF MessagesAndCalls, CallsInv, CallOK, Types
  <2>3. NotTaken(0)
    BY SequenceTypes DEF NotTaken
  <2>4. CallOK(s)'
    BY <1>1, <2>1, <2>2, <2>3 DEF CallOK, NotTaken
  <2>5. [call[s] EXCEPT !.state = c].state \notin Pending
    BY <2>1 DEF Types, Pending
  <2>. QED  BY <1>1, <2>1, <2>4, <2>5, CallChanges
<1>. QED  BY <1>2, <1>3, <1>4

\* Every step keeps messages and calls in order.
LEMMA NextMessagesAndCalls ==
  Types /\ MessagesAndCalls /\ [ClientNext]_clientVars => MessagesAndCalls'
<1>. SUFFICES ASSUME Types, MessagesAndCalls, [ClientNext]_clientVars
              PROVE  MessagesAndCalls'
  OBVIOUS
<1>1. CASE TakeCommand \/ Handshake
  BY <1>1, TakeCommandKeeps, HandshakeKeeps
<1>2. CASE HandshakeFails \/ FlushFails \/ CommandsEnd \/ ReadFails
  BY <1>2, CloseKeeps DEF HandshakeFails, FlushFails, CommandsEnd, ReadFails
<1>3. CASE Flush \/ ReadExact \/ Swap \/ ConnectionEnds \/ ServerExecutes
             \/ UNCHANGED clientVars
  BY <1>3, NothingSent DEF Flush, ReadExact, Swap, ConnectionEnds, ServerExecutes,
     clientVars, commands
<1>4. ASSUME NEW s \in Subscribers, NEW c \in Commands, SendCommand(s, c)
      PROVE  MessagesAndCalls'
  BY <1>4, SendCommandKeeps
<1>5. ASSUME NEW s \in Subscribers, Enqueue(s) PROVE MessagesAndCalls'
  BY <1>5, EnqueueKeeps
<1>6. ASSUME NEW s \in Subscribers,
             ConnectReturns(s) \/ EnqueueFails(s) \/ CancelCall(s) \/ OpenStream(s)
               \/ DropClient(s)
      PROVE  MessagesAndCalls'
  BY <1>6, CallEndsKeeps
<1>7. ASSUME NEW s \in Subscribers, CloneClient(s) PROVE MessagesAndCalls'
  BY <1>7, NothingSent DEF CloneClient, commands
<1>8. ASSUME NEW r \in Receivers, DropSamples(r) \/ PollSamples(r) PROVE MessagesAndCalls'
  BY <1>8, NothingSent DEF DropSamples, PollSamples, commands
<1>. QED  BY <1>1, <1>2, <1>3, <1>4, <1>5, <1>6, <1>7, <1>8 DEF ClientNext, ForwardCommands

----------------------------------------------------------------------------
(* Types *)

\* A command was taken that the call of a new stream refers to.
LEMMA OpenedByCommand ==
  ASSUME Types, MessagesAndCalls, NEW s \in Subscribers, OpenStream(s)
  PROVE  \E n \in 1 .. Len(taken) :
           /\ opened' = [opened EXCEPT ![next_receiver_id] = n]
           /\ call[s].command \in Modes /\ taken[n].mode = call[s].command
<1>1. /\ call[s].state = "ok" /\ call[s].command # "other"
      /\ opened' = [opened EXCEPT ![next_receiver_id] =
                      CHOOSE n \in 1 .. Len(taken) : taken[n].id = call[s].id]
  BY DEF OpenStream
<1>2. PICK n \in 1 .. Len(taken) :
        taken[n].id = call[s].id /\ taken[n].mode = call[s].command
  BY <1>1 DEF MessagesAndCalls, CallsInv, CallOK
<1>3. \A m \in 1 .. Len(taken) : taken[m].id = call[s].id => m = n
  BY <1>2 DEF MessagesAndCalls, MessagesInv
<1>4. (CHOOSE m \in 1 .. Len(taken) : taken[m].id = call[s].id) = n
  BY <1>2, <1>3
<1>5. call[s].command \in Modes
  BY <1>1 DEF Types, Commands
<1>. QED  BY <1>1, <1>2, <1>4, <1>5

\* A call changes to something that is a call.
LEMMA CallTypeKept ==
  ASSUME Types, NEW s \in Subscribers,
         NEW c \in [state : CallStates, id : 0 .. MaxCommands, command : Commands],
         call' = [call EXCEPT ![s] = c]
  PROVE  call' \in [Subscribers ->
                      [state : CallStates, id : 0 .. MaxCommands, command : Commands]]
BY DEF Types

LEMMA IdleIsCall ==
  Idle \in [state : CallStates, id : 0 .. MaxCommands, command : Commands]
BY CommandsAssumption DEF Idle, Call, CallStates, Commands

\* Every step keeps the types.
LEMMA NextTypes ==
  ASSUME Types, MessagesAndCalls, TagsInv, IInv, [ClientNext]_clientVars
  PROVE  Types'
<1>. DEFINE CallType == [state : CallStates, id : 0 .. MaxCommands, command : Commands]
<1>1. CASE TakeCommand
  <2>1. PICK message : message = Head(queue)
    OBVIOUS
  <2>2. /\ queue # <<>> /\ queue' = Tail(queue) /\ Answer(message)
        /\ UNCHANGED <<connection, buffers, sent, kind, stream, opened>>
        /\ flushing' = TRUE
    BY <1>1, <2>1 DEF TakeCommand, streams
  <2>3. PICK mode :
          /\ taken' = Append(taken, [id |-> message.id, mode |-> mode])
          /\ mode \in {ModeAfter(Len(taken)), message.command}
          /\ message.command = "other" => mode = ModeAfter(Len(taken))
    BY <1>1, <2>1 DEF TakeCommand
  <2>4. message.id \in 1 .. MaxCommands /\ message.command \in Commands
    BY <2>1, <2>2, SequenceTypes, TailFacts
  <2>5. ModeAfter(Len(taken)) \in Modes
    BY SequenceTypes DEF ModeAfter, Modes
  <2>6. mode \in Modes
    BY <2>3, <2>4, <2>5 DEF Commands
  <2>7. taken' \in Seq([id : 1 .. MaxCommands, mode : Modes])
    <3>1. [id |-> message.id, mode |-> mode] \in [id : 1 .. MaxCommands, mode : Modes]
      BY <2>4, <2>6
    <3>. QED  BY <2>3, <3>1, SequenceTypes, AppendFacts
  <2>8. queue' \in Seq(Messages) /\ Len(queue') <= QueueSize
    <3>1. /\ queue' \in Seq(Messages) /\ Len(queue) \in Nat /\ Len(queue') = Len(queue) - 1
      BY <2>2, SequenceTypes, TailFacts
    <3>. QED  BY <3>1, CommandsAssumption DEF Types
  <2>9. call' \in [Subscribers -> CallType]
    <3>1. call' = call \/ \E s \in {message.client} : call' = [call EXCEPT ![s].state = "ok"]
      BY <2>2 DEF Answer
    <3>2. call \in [Subscribers -> CallType]
      BY DEF Types
    <3>3. \A s : [call EXCEPT ![s].state = "ok"] \in [Subscribers -> CallType]
      BY <3>2 DEF CallStates
    <3>. HIDE DEF CallType
    <3>. QED  BY <3>1, <3>2, <3>3
  <2>. QED  BY <2>2, <2>7, <2>8, <2>9 DEF Types
<1>2. ASSUME NEW reason \in {"closed", "refused"}, Close(reason) PROVE Types'
  <2>1. /\ connection' = reason /\ queue' = <<>> /\ flushing' = FALSE
        /\ call' = [s \in Subscribers |->
                      IF call[s].state = "awaiting"
                      THEN [call[s] EXCEPT !.state = "closed"] ELSE call[s]]
        /\ UNCHANGED <<taken, buffers, sent, kind, stream, opened>>
    BY <1>2 DEF Close, DropMessages, streams
  <2>2. call' \in [Subscribers -> CallType]
    <3>1. \A s \in Subscribers : call[s] \in CallType
      BY DEF Types
    <3>2. \A s \in Subscribers : [call[s] EXCEPT !.state = "closed"] \in CallType
      BY <3>1 DEF CallStates
    <3>. QED  BY <2>1, <3>1, <3>2
  <2>3. queue' \in Seq(Messages) /\ Len(queue') <= QueueSize
    BY <2>1, CommandsAssumption
  <2>. QED  BY <2>1, <2>2, <2>3 DEF Types
<1>3. CASE HandshakeFails \/ FlushFails \/ CommandsEnd \/ ReadFails
  BY <1>2, <1>3 DEF HandshakeFails, FlushFails, CommandsEnd, ReadFails
<1>4. CASE Handshake \/ Flush \/ Swap \/ ConnectionEnds \/ ServerExecutes
  BY <1>4 DEF Handshake, Flush, Swap, ConnectionEnds, ServerExecutes, commands, streams, Types
<1>5. CASE ReadExact
  <2>1. PICK newest \in (IF fills = 0 THEN 0 ELSE buffers[fills].newest) .. executed :
          buffers' = [buffers EXCEPT ![fills + 1] =
                        [tag |-> receiver_state, newest |-> newest]]
    BY <1>5 DEF ReadExact
  <2>2. fills < MaxFills /\ fills \in Nat /\ MaxFills \in Nat
    BY <1>5, BoundsAssumption DEF ReadExact, Fill, IInv, TypeOK
  <2>3. fills # 0 => buffers[fills].newest \in Nat
    BY <2>2 DEF Types, Numbers
  <2>4. newest \in Nat /\ receiver_state \in Nat
    BY <2>1, <2>3, SequenceTypes DEF TagsInv
  <2>5. buffers' \in [Numbers -> [tag : Nat, newest : Nat]]
    BY <2>1, <2>4 DEF Types
  <2>. QED  BY <1>5, <2>5 DEF ReadExact, commands, streams, Types
<1>6. ASSUME NEW s \in Subscribers, NEW c \in Commands, SendCommand(s, c) PROVE Types'
  <2>1. /\ sent < MaxCommands /\ sent' = sent + 1
        /\ call' = [call EXCEPT ![s] = Call("sending", sent + 1, c)]
        /\ UNCHANGED <<connection, queue, flushing, taken, buffers, kind, stream, opened>>
    BY <1>6 DEF SendCommand, commands, streams
  <2>2. sent + 1 \in 0 .. MaxCommands
    BY <2>1, SequenceTypes
  <2>3. Call("sending", sent + 1, c) \in CallType
    BY <2>2 DEF Call, CallStates
  <2>. QED  BY <2>1, <2>2, <2>3, CallTypeKept DEF Types
<1>7. ASSUME NEW s \in Subscribers, Enqueue(s) PROVE Types'
  <2>1. /\ call[s].state = "sending" /\ Len(queue) < QueueSize
        /\ queue' = Append(queue, [client |-> s, id |-> call[s].id,
                                   command |-> call[s].command])
        /\ call' = [call EXCEPT ![s].state = "awaiting"]
        /\ UNCHANGED <<connection, flushing, taken, buffers, sent, kind, stream, opened>>
    BY <1>7 DEF Enqueue, Room, streams
  <2>2. call[s].id \in 1 .. sent
    BY <2>1 DEF MessagesAndCalls, CallsInv, CallOK
  <2>3. call[s].id \in 1 .. MaxCommands
    BY <2>2, SequenceTypes DEF Types
  <2>4. [client |-> s, id |-> call[s].id, command |-> call[s].command] \in Messages
    BY <2>3 DEF Messages, Types
  <2>5. queue' \in Seq(Messages) /\ Len(queue') = Len(queue) + 1 /\ Len(queue) \in Nat
    BY <2>1, <2>4, SequenceTypes, AppendFacts
  <2>6. Len(queue') <= QueueSize
    BY <2>1, <2>5, CommandsAssumption
  <2>7. call' \in [Subscribers -> CallType]
    BY <2>1 DEF Types, CallStates
  <2>. QED  BY <2>1, <2>5, <2>6, <2>7 DEF Types
<1>8. ASSUME NEW s \in Subscribers,
             ConnectReturns(s) \/ EnqueueFails(s) \/ CancelCall(s)
      PROVE  Types'
  <2>1. UNCHANGED <<connection, queue, flushing, taken, buffers, sent, kind, stream, opened>>
    BY <1>8 DEF ConnectReturns, EnqueueFails, CancelCall, commands, streams
  <2>2. CASE CancelCall(s)
    BY <2>1, <2>2, IdleIsCall, CallTypeKept DEF CancelCall, Types
  <2>3. CASE ConnectReturns(s) \/ EnqueueFails(s)
    <3>1. PICK state \in {"closed", "idle"} :
            call' = [call EXCEPT ![s] = [call[s] EXCEPT !.state = state]]
      BY <2>3 DEF ConnectReturns, EnqueueFails, Types
    <3>2. [call[s] EXCEPT !.state = state] \in CallType
      BY <3>1 DEF Types, CallStates
    <3>. QED  BY <2>1, <3>1, <3>2, CallTypeKept DEF Types
  <2>. QED  BY <1>8, <2>2, <2>3
<1>9. ASSUME NEW s \in Subscribers, OpenStream(s) PROVE Types'
  <2>1. /\ UNCHANGED <<connection, queue, flushing, taken, buffers, sent, stream>>
        /\ call' = [call EXCEPT ![s] = Idle]
        /\ kind' = [kind EXCEPT ![next_receiver_id] = call[s].command]
    BY <1>9 DEF OpenStream, commands
  <2>2. PICK n \in 1 .. Len(taken) :
          /\ opened' = [opened EXCEPT ![next_receiver_id] = n]
          /\ call[s].command \in Modes
    BY <1>9, OpenedByCommand
  <2>3. n \in Nat
    BY SequenceTypes
  <2>4. opened' \in [Receivers -> Nat] /\ kind' \in [Receivers -> Modes]
    BY <2>1, <2>2, <2>3 DEF Types
  <2>. QED  BY <2>1, <2>4, IdleIsCall, CallTypeKept DEF Types
<1>10. ASSUME NEW s \in Subscribers, CloneClient(s) \/ DropClient(s) PROVE Types'
  <2>1. UNCHANGED <<connection, queue, flushing, taken, buffers, sent, kind, stream, opened>>
    BY <1>10 DEF CloneClient, DropClient, commands, streams
  <2>2. call' = call \/ call' = [call EXCEPT ![s] = Idle]
    BY <1>10 DEF CloneClient, DropClient
  <2>3. call' \in [Subscribers -> CallType]
    BY <2>2, IdleIsCall DEF Types
  <2>. QED  BY <2>1, <2>3 DEF Types
<1>11. ASSUME NEW r \in Receivers, DropSamples(r) \/ PollSamples(r) PROVE Types'
  <2>1. UNCHANGED <<connection, queue, flushing, taken, call, buffers, sent>>
    BY <1>11 DEF DropSamples, PollSamples, commands
  <2>2. stream' \in [Receivers -> {"open", "switched"}]
    BY <1>11 DEF DropSamples, PollSamples, Types
  <2>3. \/ UNCHANGED <<kind, opened>>
        \/ kind' = [kind EXCEPT ![r] = "Iq"] /\ opened' = [opened EXCEPT ![r] = 0]
    BY <1>11 DEF DropSamples, PollSamples
  <2>4. kind' \in [Receivers -> Modes] /\ opened' \in [Receivers -> Nat]
    <3>1. kind \in [Receivers -> Modes] /\ opened \in [Receivers -> Nat] /\ "Iq" \in Modes
      BY DEF Types, Modes
    <3>. QED  BY <2>3, <3>1
  <2>. QED  BY <2>1, <2>2, <2>4 DEF Types
<1>12. CASE UNCHANGED clientVars
  BY <1>12 DEF clientVars, commands, streams, Types
<1>. QED  BY <1>1, <1>3, <1>4, <1>5, <1>6, <1>7, <1>8, <1>9, <1>10, <1>11, <1>12
          DEF ClientNext, ForwardCommands

----------------------------------------------------------------------------
(* Tags *)

\* Every step keeps the client ahead of the server.
LEMMA NextTagsInv ==
  ASSUME Types, TagsInv, IInv, fills <= MaxFills, [ClientNext]_clientVars
  PROVE  TagsInv'
<1>0. /\ Len(taken) \in Nat /\ fills \in Nat /\ MaxFills \in Nat
      /\ flushed \in Nat /\ executed \in Nat
      /\ \A n \in Numbers : buffers[n].newest \in Nat /\ buffers[n].tag \in Nat
      /\ 1 .. fills \subseteq Numbers
  <2>1. fills \in Nat /\ MaxFills \in Nat /\ 1 .. fills \subseteq Numbers
    BY BoundsAssumption DEF IInv, TypeOK, Numbers
  <2>. QED  BY <2>1, SequenceTypes DEF TagsInv, Types
<1>1. CASE TakeCommand
  <2>1. PICK c : taken' = Append(taken, c)
    BY <1>1 DEF TakeCommand
  <2>2. Len(taken') = Len(taken) + 1
    BY <2>1, SequenceTypes
  <2>3. /\ receiver_state' = Len(taken')
        /\ UNCHANGED <<flushed, executed, buffers, fills>>
    BY <1>1 DEF TakeCommand, Reflects, vars, producer
  <2>4. \A n \in Numbers : buffers'[n].newest <= buffers'[n].tag /\ buffers'[n].tag <= Len(taken')
    BY <1>0, <2>2, <2>3 DEF TagsInv
  <2>5. flushed' \in Nat /\ flushed' < Len(taken') /\ flushed' <= Len(taken')
    BY <1>0, <2>2, <2>3 DEF TagsInv
  <2>6. executed' \in 0 .. flushed'
    BY <2>3 DEF TagsInv
  <2>. QED  BY <2>3, <2>4, <2>5, <2>6 DEF TagsInv
<1>2. CASE Flush
  <2>1. /\ flushing /\ flushing' = FALSE /\ flushed' = flushed + 1
        /\ UNCHANGED <<receiver_state, taken, executed, buffers, fills>>
    BY <1>2 DEF Flush, vars, producer
  <2>2. flushed' \in Nat /\ flushed' <= Len(taken) /\ executed' \in 0 .. flushed'
    BY <1>0, <2>1 DEF TagsInv
  <2>. QED  BY <2>1, <2>2 DEF TagsInv
<1>3. CASE HandshakeFails \/ FlushFails \/ CommandsEnd \/ ReadFails
  <2>1. /\ flushing' = FALSE /\ flushed' = 0 /\ executed' = 0
        /\ UNCHANGED <<receiver_state, taken, buffers, fills>>
    BY <1>3 DEF HandshakeFails, FlushFails, CommandsEnd, ReadFails, Close, FillFails
  <2>. QED  BY <1>0, <2>1 DEF TagsInv
<1>4. CASE ServerExecutes
  <2>1. /\ executed < flushed /\ executed' = executed + 1
        /\ UNCHANGED <<flushing, flushed, receiver_state, taken, buffers, fills>>
    BY <1>4 DEF ServerExecutes, vars, commands, producer
  <2>2. executed' \in 0 .. flushed
    BY <1>0, <2>1
  <2>. QED  BY <2>1, <2>2 DEF TagsInv
<1>5. CASE ReadExact
  <2>1. PICK newest \in (IF fills = 0 THEN 0 ELSE buffers[fills].newest) .. executed :
          buffers' = [buffers EXCEPT ![fills + 1] =
                        [tag |-> receiver_state, newest |-> newest]]
    BY <1>5 DEF ReadExact
  <2>2. /\ fills < MaxFills /\ fills' = fills + 1
        /\ UNCHANGED <<flushing, flushed, receiver_state, taken, executed>>
    BY <1>5 DEF ReadExact, Fill, commands
  <2>3. newest \in Int /\ newest <= executed
    <3>1. fills # 0 => fills \in 1 .. fills
      BY <1>0
    <3>2. (IF fills = 0 THEN 0 ELSE buffers[fills].newest) \in Nat
      BY <1>0, <3>1
    <3>. QED  BY <1>0, <3>2
  <2>4. newest <= receiver_state /\ receiver_state <= Len(taken)
    BY <1>0, <2>3 DEF TagsInv
  <2>5. /\ buffers'[fills + 1].tag = receiver_state /\ buffers'[fills + 1].newest = newest
        /\ \A n \in Numbers \ {fills + 1} : buffers'[n] = buffers[n]
    BY <1>0, <2>1, <2>2 DEF Types, Numbers
  <2>. QED  BY <2>2, <2>4, <2>5 DEF TagsInv
<1>6. CASE UNCHANGED <<receiver_state, taken, flushed, flushing, executed, fills, buffers>>
  BY <1>6 DEF TagsInv
<1>7. CASE Handshake \/ Swap \/ ConnectionEnds \/ UNCHANGED clientVars
  BY <1>6, <1>7 DEF Handshake, Swap, SwapBuffers, ConnectionEnds, DropSender, clientVars,
     vars, producer, commands
<1>8. ASSUME NEW s \in Subscribers, NEW c \in Commands,
             ConnectReturns(s) \/ SendCommand(s, c) \/ Enqueue(s) \/ EnqueueFails(s)
               \/ CancelCall(s)
      PROVE  TagsInv'
  BY <1>6, <1>8 DEF ConnectReturns, SendCommand, Enqueue, EnqueueFails, CancelCall, vars,
     producer, commands
<1>9. ASSUME NEW s \in Subscribers, OpenStream(s) \/ CloneClient(s) \/ DropClient(s)
      PROVE  TagsInv'
  BY <1>6, <1>9 DEF OpenStream, NewReceiver, AddReceiver, CloneClient, CloneSubscriber,
     DropClient, DropSubscriber, producer, commands
<1>10. ASSUME NEW r \in Receivers, DropSamples(r) \/ PollSamples(r) PROVE TagsInv'
  BY <1>6, <1>10 DEF DropSamples, DropReceiver, PollSamples, Poll, producer, commands
<1>11. Commands # {}
  BY DEF Commands
<1>. QED  BY <1>1, <1>2, <1>3, <1>4, <1>5, <1>7, <1>8, <1>9, <1>10, <1>11
          DEF ClientNext, ForwardCommands

----------------------------------------------------------------------------
(* Streams *)

\* The positions and buffers that streams are about.
LEMMA StreamTypes ==
  ASSUME Types, IInv, StreamsInv
  PROVE  /\ fills \in Nat /\ tail_pos \in Nat /\ push_buffer \in Nat /\ MaxFills \in Nat
         /\ 1 .. fills \subseteq Numbers /\ 1 .. tail_pos \subseteq 1 .. fills
         /\ Len(taken) \in Nat
         /\ \A n \in Numbers : buffers[n].tag \in Nat
         /\ read_pos \in [Receivers -> Nat] /\ task \in [Receivers -> TaskStates]
         /\ item \in [Receivers -> Nat]
<1>1. /\ fills \in Nat /\ tail_pos \in Nat /\ push_buffer \in Nat /\ MaxFills \in Nat
      /\ read_pos \in [Receivers -> Nat] /\ task \in [Receivers -> TaskStates]
      /\ item \in [Receivers -> Nat]
  BY BoundsAssumption DEF IInv, TypeOK
<1>2. 1 .. fills \subseteq Numbers /\ 1 .. tail_pos \subseteq 1 .. fills
  BY <1>1 DEF StreamsInv, Numbers
<1>3. \A n \in Numbers : buffers[n].tag \in Nat
  BY DEF Types
<1>. QED  BY <1>1, <1>2, <1>3, SequenceTypes

\* A stream stays as it is while others move.
LEMMA StreamKept ==
  ASSUME Types, IInv, NEW r \in Receivers, StreamOK(r),
         UNCHANGED <<taken, buffers, tail_pos>>,
         r \in LiveReceivers <=> r \in LiveReceivers',
         opened'[r] = opened[r], kind'[r] = kind[r], stream'[r] = stream[r],
         read_pos'[r] \in Nat, read_pos[r] <= read_pos'[r]
  PROVE  StreamOK(r)'
<1>1. read_pos[r] \in Nat /\ tail_pos \in Nat
  BY DEF IInv, TypeOK
<1>2. \A n \in 1 .. tail_pos : n > read_pos'[r] => n > read_pos[r]
  BY <1>1
<1>. QED  BY <1>2 DEF StreamOK, ModeAfter

\* Steps that neither touch the queue of buffers nor take a command.
LEMMA StreamsUntouched ==
  ASSUME StreamsInv,
         UNCHANGED <<taken, buffers, tail_pos, fills, push_buffer, task, read_pos,
                     opened, kind, stream>>
  PROVE  StreamsInv'
BY DEF StreamsInv, StreamOK, ModeAfter, LiveReceivers

\* What is pushed was read after the last command taken.
LEMMA SwapStreams ==
  ASSUME Types, IInv, StreamsInv, Swap
  PROVE  StreamsInv'
<1>1. SwapBuffers /\ UNCHANGED <<taken, buffers, fills, opened, kind, stream>>
  BY DEF Swap, SwapBuffers, commands, streams
<1>2. CASE ReturnNone \/ AwaitReceivers
  <2>1. /\ push_buffer' \in {NoBuffer, push_buffer}
        /\ UNCHANGED <<tail_pos, task, read_pos>>
    BY <1>2 DEF ReturnNone, AwaitReceivers, positions, receivers
  <2>2. NoBuffer <= fills
    BY StreamTypes DEF NoBuffer
  <2>. QED  BY <1>1, <2>1, <2>2 DEF StreamsInv, StreamOK, ModeAfter, LiveReceivers
<1>3. CASE Exchange
  <2>1. push_buffer' = NoBuffer /\ UNCHANGED read_pos /\ LiveReceivers' = LiveReceivers
    BY <1>3, StreamTypes, WakeReceiversFacts DEF Exchange, LiveReceivers
  <2>2. CASE push_buffer = NoBuffer
    <3>1. UNCHANGED tail_pos
      BY <1>3, <2>2 DEF Exchange
    <3>. QED  BY <1>1, <2>1, <2>2, <3>1 DEF StreamsInv, StreamOK, ModeAfter
  <2>3. CASE push_buffer # NoBuffer
    <3>1. tail_pos' = tail_pos + 1 /\ push_buffer = tail_pos + 1
      BY <1>3, <2>3 DEF Exchange, IInv, SlotsAreNewestBuffers
    <3>2. tail_pos' <= fills' /\ push_buffer' <= fills'
      BY <1>1, <2>1, <3>1, StreamTypes DEF StreamsInv, NoBuffer
    <3>3. buffers[tail_pos + 1].tag = Len(taken)
      BY <2>3, <3>1 DEF StreamsInv
    <3>4. 1 .. tail_pos' = 1 .. tail_pos \cup {tail_pos + 1}
      BY <3>1, StreamTypes
    <3>5. ASSUME NEW r \in Receivers PROVE StreamOK(r)'
      BY <1>1, <2>1, <3>3, <3>4 DEF StreamsInv, StreamOK, ModeAfter
    <3>. QED  BY <1>1, <2>1, <3>2, <3>5 DEF StreamsInv
  <2>. QED  BY <2>2, <2>3
<1>. QED  BY <1>1, <1>2, <1>3 DEF SwapBuffers

\* A buffer that is read gets the number of the last command taken as its tag.
LEMMA ReadStreams ==
  ASSUME Types, IInv, TagsInv, StreamsInv, ReadExact
  PROVE  StreamsInv'
<1>1. PICK newest :
        buffers' = [buffers EXCEPT ![fills + 1] =
                      [tag |-> receiver_state, newest |-> newest]]
  BY DEF ReadExact
<1>2. /\ fills < MaxFills /\ fills' = fills + 1 /\ push_buffer' = fills + 1
      /\ UNCHANGED <<taken, tail_pos, task, read_pos, opened, kind, stream>>
  BY DEF ReadExact, Fill, positions, receivers, commands, streams
<1>3. /\ buffers'[fills + 1].tag = Len(taken)
      /\ \A n \in 1 .. fills : buffers'[n] = buffers[n]
  BY <1>1, <1>2, StreamTypes DEF Types, Numbers, TagsInv
<1>4. ASSUME NEW r \in Receivers PROVE StreamOK(r)'
  BY <1>2, <1>3, StreamTypes DEF StreamsInv, StreamOK, ModeAfter, LiveReceivers
<1>5. tail_pos' <= fills' /\ fills' <= MaxFills
  BY <1>2, StreamTypes DEF StreamsInv
<1>. QED  BY <1>2, <1>3, <1>4, <1>5, StreamTypes DEF StreamsInv

\* A command is only taken while no buffer waits to be pushed.
LEMMA TakeStreams ==
  ASSUME Types, IInv, StreamsInv, TakeCommand
  PROVE  StreamsInv'
<1>1. PICK c : taken' = Append(taken, c)
  BY DEF TakeCommand
<1>2. /\ sender = "filling"
      /\ UNCHANGED <<buffers, tail_pos, fills, push_buffer, task, read_pos, opened, kind,
                     stream>>
  BY DEF TakeCommand, AtAwait, vars, positions, producer, receivers, streams
<1>3. push_buffer = NoBuffer
  BY <1>2 DEF IInv, NothingSkipped
<1>4. /\ Len(taken') = Len(taken) + 1 /\ Len(taken) \in Nat
      /\ \A n \in 1 .. Len(taken) : taken'[n] = taken[n]
  BY <1>1, SequenceTypes
<1>5. \A n \in 0 .. Len(taken) : ModeAfter(n)' = ModeAfter(n)
  BY <1>4 DEF ModeAfter
<1>6. ASSUME NEW r \in Receivers PROVE StreamOK(r)'
  <2>1. StreamOK(r) /\ opened[r] \in Nat
    BY DEF StreamsInv, Types
  <2>2. opened'[r] <= Len(taken')
    BY <1>2, <1>4, <2>1 DEF StreamOK
  <2>3. ASSUME stream[r] = "switched"
        PROVE  \E n \in opened[r] .. Len(taken') : ModeAfter(n)' # kind[r]
    <3>1. PICK n \in opened[r] .. Len(taken) : ModeAfter(n) # kind[r]
      BY <2>1, <2>3 DEF StreamOK
    <3>2. n \in 0 .. Len(taken) /\ n \in opened[r] .. Len(taken')
      BY <1>4, <2>1
    <3>. QED  BY <1>5, <3>1, <3>2
  <2>. QED  BY <1>2, <2>1, <2>2, <2>3 DEF StreamOK, LiveReceivers
<1>. QED  BY <1>2, <1>3, <1>6 DEF StreamsInv

\* A new stream starts after the last buffer pushed.
LEMMA OpenStreams ==
  ASSUME Types, MessagesAndCalls, IInv, StreamsInv, NEW s \in Subscribers, OpenStream(s)
  PROVE  StreamsInv'
<1>0. PICK new : new = next_receiver_id
  OBVIOUS
<1>1. /\ new = next_receiver_id /\ new < MaxReceivers
      /\ task' = [task EXCEPT ![new] = "running"]
      /\ read_pos' = [read_pos EXCEPT ![new] = tail_pos]
      /\ kind' = [kind EXCEPT ![new] = call[s].command]
      /\ UNCHANGED <<taken, buffers, tail_pos, fills, push_buffer, stream>>
  BY <1>0 DEF OpenStream, NewReceiver, AddReceiver, positions, producer, commands
<1>2. PICK n \in 1 .. Len(taken) : opened' = [opened EXCEPT ![new] = n]
  BY <1>0, OpenedByCommand
<1>3. new \in Receivers /\ task[new] = "absent"
  BY <1>1, BoundsAssumption DEF IInv, TypeOK, NothingSkipped, Receivers
<1>4. ASSUME NEW r \in Receivers, r # new PROVE StreamOK(r)'
  <2>1. r \in LiveReceivers <=> r \in LiveReceivers'
    BY <1>1, <1>3, <1>4, StreamTypes DEF LiveReceivers
  <2>2. opened'[r] = opened[r] /\ kind'[r] = kind[r] /\ stream'[r] = stream[r]
    BY <1>1, <1>2, <1>4 DEF Types
  <2>3. read_pos'[r] = read_pos[r] /\ read_pos[r] \in Nat
    BY <1>1, <1>4, StreamTypes
  <2>. QED  BY <1>1, <2>1, <2>2, <2>3, StreamKept DEF StreamsInv
<1>5. StreamOK(new)'
  <2>1. stream'[new] # "switched"
    BY <1>1, <1>3 DEF StreamsInv, StreamOK, LiveReceivers, LiveStates
  <2>2. opened'[new] = n /\ n <= Len(taken) /\ read_pos'[new] = tail_pos
    BY <1>1, <1>2, <1>3, StreamTypes DEF Types
  <2>3. \A m \in 1 .. tail_pos : ~(m > read_pos'[new])
    BY <2>2, StreamTypes
  <2>. QED  BY <1>1, <2>1, <2>2, <2>3 DEF StreamOK
<1>. QED  BY <1>1, <1>4, <1>5 DEF StreamsInv

\* Nothing is left of a dropped stream.
LEMMA DropStreams ==
  ASSUME Types, IInv, StreamsInv, NEW r \in Receivers, DropSamples(r)
  PROVE  StreamsInv'
<1>1. /\ task' = [task EXCEPT ![r] = "dropped"]
      /\ UNCHANGED <<taken, buffers, tail_pos, fills, push_buffer, read_pos>>
      /\ kind' = [kind EXCEPT ![r] = "Iq"]
      /\ stream' = [stream EXCEPT ![r] = "open"]
      /\ opened' = [opened EXCEPT ![r] = 0]
  BY DEF DropSamples, DropReceiver, positions, producer, commands
<1>2. ASSUME NEW q \in Receivers, q # r PROVE StreamOK(q)'
  <2>1. q \in LiveReceivers <=> q \in LiveReceivers'
    BY <1>1, <1>2, StreamTypes DEF LiveReceivers
  <2>2. opened'[q] = opened[q] /\ kind'[q] = kind[q] /\ stream'[q] = stream[q]
    BY <1>1, <1>2 DEF Types
  <2>. QED  BY <1>1, <2>1, <2>2, StreamTypes, StreamKept DEF StreamsInv
<1>3. StreamOK(r)'
  <2>1. stream'[r] # "switched" /\ opened'[r] = 0 /\ r \notin LiveReceivers'
    BY <1>1, StreamTypes DEF Types, LiveReceivers, LiveStates
  <2>. QED  BY <1>1, <2>1, StreamTypes DEF StreamOK
<1>. QED  BY <1>1, <1>2, <1>3 DEF StreamsInv

\* A stream that ends does so on a buffer that was read after its command.
LEMMA PollStreams ==
  ASSUME Types, IInv, TagsInv, StreamsInv, NEW r \in Receivers, PollSamples(r)
  PROVE  StreamsInv'
<1>1. /\ Poll(r) /\ stream[r] = "open"
      /\ UNCHANGED <<taken, buffers, tail_pos, fills, push_buffer, kind, opened>>
      /\ stream' = [stream EXCEPT ![r] =
                      IF item'[r] # item[r] /\ ModeAfter(buffers[item'[r]].tag) # kind[r]
                      THEN "switched" ELSE @]
  BY DEF PollSamples, Poll, positions, producer, commands
<1>2. LiveReceivers' = LiveReceivers
  BY <1>1, StreamTypes, PollFacts
<1>3. ASSUME NEW q \in Receivers, q # r PROVE StreamOK(q)'
  <2>1. stream'[q] = stream[q]
    BY <1>1, <1>3 DEF Types
  <2>. QED  BY <1>1, <1>2, <2>1, PollMoves, StreamKept DEF StreamsInv
<1>4. CASE stream'[r] = stream[r]
  <2>1. StreamOK(r)'
    BY <1>1, <1>2, <1>4, PollMoves, StreamKept DEF StreamsInv
  <2>. QED  BY <1>1, <1>3, <2>1 DEF StreamsInv
<1>5. CASE stream'[r] # stream[r]
  <2>1. /\ item'[r] # item[r] /\ ModeAfter(buffers[item'[r]].tag) # kind[r]
        /\ stream'[r] = "switched"
    BY <1>1, <1>5 DEF Types
  <2>2. item'[r] > read_pos[r] /\ item'[r] \in 1 .. tail_pos
    BY <1>1, <2>1, PollMoves
  <2>3. StreamOK(r) /\ r \in LiveReceivers
    BY <1>1 DEF StreamsInv, Poll, LiveReceivers, LiveStates
  <2>4. opened[r] <= buffers[item'[r]].tag
    BY <2>2, <2>3 DEF StreamOK
  <2>5. buffers[item'[r]].tag <= Len(taken) /\ buffers[item'[r]].tag \in Nat
    BY <2>2, StreamTypes DEF TagsInv
  <2>6. opened[r] \in Nat /\ Len(taken) \in Nat
    BY StreamTypes DEF Types
  <2>7. buffers[item'[r]].tag \in opened[r] .. Len(taken)
    BY <2>4, <2>5, <2>6
  <2>8. \E n \in opened[r] .. Len(taken) : ModeAfter(n) # kind[r]
    BY <2>1, <2>7
  <2>9. \A n \in 1 .. tail_pos : n > read_pos'[r] => n > read_pos[r]
    BY <1>1, PollMoves, StreamTypes
  <2>10. StreamOK(r)'
    BY <1>1, <1>2, <2>3, <2>8, <2>9 DEF StreamOK, ModeAfter
  <2>. QED  BY <1>1, <1>3, <2>10 DEF StreamsInv
<1>. QED  BY <1>4, <1>5

\* Every step keeps the streams in order.
LEMMA NextStreamsInv ==
  ASSUME Types, MessagesAndCalls, IInv, TagsInv, StreamsInv, [ClientNext]_clientVars
  PROVE  StreamsInv'
<1>1. CASE Swap
  BY <1>1, SwapStreams
<1>2. CASE ReadExact
  BY <1>2, ReadStreams
<1>3. CASE TakeCommand
  BY <1>3, TakeStreams
<1>4. CASE HandshakeFails \/ FlushFails \/ CommandsEnd \/ ReadFails
  BY <1>4, StreamsUntouched DEF HandshakeFails, FlushFails, CommandsEnd, ReadFails, Close,
     FillFails, positions, receivers, streams
<1>5. CASE Handshake \/ Flush \/ ConnectionEnds \/ ServerExecutes \/ UNCHANGED clientVars
  BY <1>5, StreamsUntouched DEF Handshake, Flush, ConnectionEnds, DropSender, ServerExecutes,
     clientVars, vars, positions, producer, receivers, commands, streams
<1>6. ASSUME NEW s \in Subscribers, NEW c \in Commands,
             ConnectReturns(s) \/ SendCommand(s, c) \/ Enqueue(s) \/ EnqueueFails(s)
               \/ CancelCall(s)
      PROVE  StreamsInv'
  BY <1>6, StreamsUntouched DEF ConnectReturns, SendCommand, Enqueue, EnqueueFails,
     CancelCall, vars, positions, producer, receivers, commands, streams
<1>7. ASSUME NEW s \in Subscribers, CloneClient(s) \/ DropClient(s) PROVE StreamsInv'
  BY <1>7, StreamsUntouched DEF CloneClient, CloneSubscriber, DropClient, DropSubscriber,
     positions, producer, receivers, commands, streams
<1>8. CASE \E s \in Subscribers : OpenStream(s)
  BY <1>8, OpenStreams
<1>9. CASE \E r \in Receivers : DropSamples(r) \/ PollSamples(r)
  BY <1>9, DropStreams, PollStreams
<1>10. Commands # {}
  BY DEF Commands
<1>. QED  BY <1>1, <1>2, <1>3, <1>4, <1>5, <1>6, <1>7, <1>8, <1>9, <1>10
          DEF ClientNext, ForwardCommands

----------------------------------------------------------------------------
(* The client's properties *)

\* connect() establishes the invariant.
LEMMA InitClientInv == ClientInit => ClientInv
<1>. SUFFICES ASSUME ClientInit PROVE ClientInv
  OBVIOUS
<1>1. IInv
  BY InitIInv DEF ClientInit
<1>2. /\ fills = 0 /\ tail_pos = 0 /\ push_buffer = NoBuffer /\ LiveReceivers = {}
  BY DEF ClientInit, Init, LiveReceivers, LiveStates
<1>3. /\ Len(queue) = 0 /\ Len(taken) = 0 /\ 1 .. 0 = {}
      /\ queue \in Seq(Messages)
      /\ taken \in Seq([id : 1 .. MaxCommands, mode : Modes])
  BY DEF ClientInit
<1>4. \A s \in Subscribers :
        call[s].id = 0 /\ call[s].state \in {"connecting", "idle"} /\ call[s].command = "other"
  BY DEF ClientInit, Call, Idle
<1>5. call \in [Subscribers ->
                  [state : CallStates, id : 0 .. MaxCommands, command : Commands]]
  BY CommandsAssumption DEF ClientInit, Call, Idle, CallStates, Commands
<1>6. Types
  <2>1. /\ connection = "handshake" /\ flushing = FALSE /\ sent = 0
        /\ buffers = [n \in Numbers |-> [tag |-> 0, newest |-> 0]]
        /\ kind = [r \in Receivers |-> "Iq"]
        /\ stream = [r \in Receivers |-> "open"]
        /\ opened = [r \in Receivers |-> 0]
    BY DEF ClientInit
  <2>2. /\ buffers \in [Numbers -> [tag : Nat, newest : Nat]]
        /\ kind \in [Receivers -> Modes]
        /\ stream \in [Receivers -> {"open", "switched"}]
        /\ opened \in [Receivers -> Nat]
    BY <2>1 DEF Modes
  <2>3. sent \in 0 .. MaxCommands /\ Len(queue) <= QueueSize
    BY <1>3, <2>1, CommandsAssumption
  <2>. QED  BY <1>3, <1>5, <2>1, <2>2, <2>3 DEF Types
<1>7. MessagesInv
  BY <1>3 DEF MessagesInv, ClientInit
<1>8. CallsInv
  BY <1>4 DEF CallsInv, CallOK, Pending
<1>9. TagsInv
  BY <1>2, <1>3 DEF TagsInv, ClientInit
<1>10. StreamsInv
  BY <1>2, <1>3, BoundsAssumption DEF StreamsInv, StreamOK, ClientInit, NoBuffer
<1>. QED  BY <1>1, <1>6, <1>7, <1>8, <1>9, <1>10 DEF ClientInv

\* Every step keeps it.
LEMMA NextClientInv == ClientInv /\ [ClientNext]_clientVars => ClientInv'
<1>. SUFFICES ASSUME ClientInv, [ClientNext]_clientVars PROVE ClientInv'
  OBVIOUS
<1>1. IInv'
  BY ClientStepIsQueueStep, NextIInv DEF ClientInv
<1>2. MessagesAndCalls
  BY DEF ClientInv, MessagesAndCalls
<1>3. Types'
  BY <1>2, NextTypes DEF ClientInv
<1>4. MessagesInv' /\ CallsInv'
  BY <1>2, NextMessagesAndCalls DEF ClientInv, MessagesAndCalls
<1>5. TagsInv'
  BY NextTagsInv DEF ClientInv, StreamsInv
<1>6. StreamsInv'
  BY <1>2, NextStreamsInv DEF ClientInv
<1>. QED  BY <1>1, <1>3, <1>4, <1>5, <1>6 DEF ClientInv

\* The invariant holds in every reachable state.
THEOREM ClientInvariance == ClientSpec => []ClientInv
BY InitClientInv, NextClientInv, PTL DEF ClientSpec

\* No sample is labelled with a state that the server had left when it took it,
\* however commands, flushes, the server and reads interleave.
THEOREM TagsAreNeverBehind == ClientSpec => []TagsNeverBehind
<1>1. ClientInv => TagsNeverBehind
  BY StreamTypes DEF ClientInv, TagsInv, TagsNeverBehind
<1>. QED  BY <1>1, ClientInvariance, PTL

\* A stream is not ended by a buffer older than the command that opened it.
THEOREM SwitchesAreAsked == ClientSpec => []SwitchWasAsked
<1>1. ClientInv => SwitchWasAsked
  BY DEF ClientInv, StreamsInv, StreamOK, SwitchWasAsked
<1>. QED  BY <1>1, ClientInvariance, PTL

\* A command that failed with ConnectionClosed is not executed, and never will be.
THEOREM ClosedCommandsAreNotSent == ClientSpec => []ClosedMeansNotSent
<1>1. ClientInv => ClosedMeansNotSent
  BY DEF ClientInv, CallsInv, CallOK, NotTaken, ClosedMeansNotSent
<1>. QED  BY <1>1, ClientInvariance, PTL

\* No command is taken twice, so that no more are taken than were sent.
LEMMA TakenAtMostOnce ==
  ASSUME Types, MessagesInv
  PROVE  Len(taken) <= sent
<1>. DEFINE number == [n \in 1 .. Len(taken) |-> taken[n].id]
<1>1. /\ IsFiniteSet(1 .. Len(taken)) /\ Cardinality(1 .. Len(taken)) = Len(taken)
      /\ IsFiniteSet(1 .. sent) /\ Cardinality(1 .. sent) = sent
  <2>1. Len(taken) \in Nat /\ sent \in Nat
    BY SequenceTypes
  <2>2. /\ IsFiniteSet(1 .. Len(taken))
        /\ Cardinality(1 .. Len(taken)) = IF 1 > Len(taken) THEN 0 ELSE Len(taken) - 1 + 1
    BY <2>1, FS_Interval
  <2>3. /\ IsFiniteSet(1 .. sent)
        /\ Cardinality(1 .. sent) = IF 1 > sent THEN 0 ELSE sent - 1 + 1
    BY <2>1, FS_Interval
  <2>. QED  BY <2>1, <2>2, <2>3
<1>2. number \in [1 .. Len(taken) -> 1 .. sent]
  BY SequenceTypes DEF MessagesInv
<1>3. \A m, n \in 1 .. Len(taken) : m # n => number[m] # number[n]
  BY DEF MessagesInv
<1>. HIDE DEF number
<1>4. ~(Cardinality(1 .. sent) < Cardinality(1 .. Len(taken)))
  BY <1>1, <1>2, <1>3, FS_PigeonHole
<1>. QED  BY <1>1, <1>4, SequenceTypes

\* Every variable of the client keeps its type: the queue its bound, the server its
\* place behind the client, and the number of commands its own.
THEOREM ClientTypes == ClientSpec => []ClientTypeOK
<1>1. ASSUME ClientInv PROVE ClientTypeOK
  <2>1. Types /\ TagsInv /\ StreamsInv /\ IInv
    BY <1>1 DEF ClientInv
  <2>2. Len(taken) \in 0 .. MaxCommands
    BY <1>1, <2>1, TakenAtMostOnce, SequenceTypes DEF ClientInv, Types
  <2>3. /\ receiver_state \in 0 .. MaxCommands
        /\ flushed \in 0 .. MaxCommands /\ executed \in 0 .. flushed
    BY <2>1, <2>2, SequenceTypes DEF TagsInv
  <2>4. opened \in [Receivers -> 0 .. MaxCommands]
    <3>1. \A r \in Receivers : opened[r] \in 0 .. MaxCommands
      BY <2>1, <2>2, SequenceTypes DEF StreamsInv, StreamOK, Types
    <3>. QED  BY <2>1, <3>1 DEF Types
  <2>5. buffers \in [Numbers -> [tag : 0 .. MaxCommands, newest : 0 .. MaxCommands]]
    <3>1. buffers \in [Numbers -> [tag : Nat, newest : Nat]]
      BY <2>1 DEF Types
    <3>2. \A n \in Numbers :
            buffers[n].tag \in 0 .. MaxCommands /\ buffers[n].newest \in 0 .. MaxCommands
      BY <2>1, <2>2, <3>1, SequenceTypes DEF TagsInv
    <3>3. \A n \in Numbers :
            buffers[n] \in [tag : 0 .. MaxCommands, newest : 0 .. MaxCommands]
      BY <3>1, <3>2
    <3>. QED  BY <3>1, <3>3
  <2>. QED  BY <2>1, <2>2, <2>3, <2>4, <2>5 DEF Types, ClientTypeOK
<1>. QED  BY <1>1, ClientInvariance, PTL

=============================================================================
