---------------------------- MODULE RtlTcpClient ----------------------------
(***************************************************************************)
(* The client of rtl_tcp/client.rs.  One task per connection runs          *)
(* forward_commands and forward_samples in a select!, so one of them runs  *)
(* until it awaits something, and the connection ends as soon as either    *)
(* returns.  Clones of RtlTcpClient send commands over a bounded queue to  *)
(* the first; the second is the producer of a buffer queue, which it uses  *)
(* with block = false, and tags each buffer with the state that the        *)
(* commands taken so far should have led to.                               *)
(*                                                                         *)
(* The server is external: it executes the commands that reach it in       *)
(* order, and sends samples in an endless stream, of which any amount may  *)
(* be in flight.  Commands are numbered in the order in which they are     *)
(* taken from the queue; a sample is as old as the last command that the   *)
(* server had executed when it took it.  Streams are those of lib.rs, as   *)
(* in Sampling, but are not cloned here.                                   *)
(***************************************************************************)
EXTENDS BufferQueue

CONSTANTS
  DirectModes,  \* the modes of direct sampling, besides the mode "Iq"
  QueueSize,    \* COMMAND_QUEUE_SIZE
  MaxCommands   \* bound: commands that users send

ASSUME ClientModesAssumption == {"Iq", "other"} \cap DirectModes = {}
ASSUME CommandsAssumption == QueueSize \in Nat \ {0} /\ MaxCommands \in Nat

VARIABLES
  connection,      \* what handle_connection does
  queue,           \* messages sent and not yet received
  flushing,        \* forward_commands is in flush()
  call,            \* call[s]: the latest call on client s
  receiver_state,  \* number of the last command that ReceiverState reflects
  flushed,         \* commands that have left the write buffer on this connection
  executed,        \* commands of this connection that the server has executed
  buffers,         \* buffers[n]: tag, and age of the newest sample, of the n-th buffer
  kind,            \* kind[r]: field sample_type of stream r
  stream,          \* stream[r]: "open", or "switched" if it ended on another mode
  \* history variables
  sent,            \* commands that users have sent
  taken,           \* taken[n]: the n-th command received, and the mode after it
  opened           \* opened[r]: number of the command that stream r was opened by

commands == <<queue, flushing, receiver_state, flushed, taken>>
streams == <<kind, stream, opened>>
clientVars == <<vars, connection, commands, call, executed, buffers, sent, streams>>

Modes == {"Iq"} \cup DirectModes
Numbers == 1 .. MaxFills

\* SetDirectSampling to some mode; "other" stands for all other commands.
Commands == Modes \cup {"other"}
Messages == [client : Subscribers, id : 1 .. MaxCommands, command : Commands]

CallStates ==
  {"connecting",  \* connect() waits for the result of the handshake
   "idle",
   "sending",     \* send_command waits for room in the queue
   "awaiting",    \* the message is sent, the result is awaited
   "ok",          \* the call has returned Ok
   "closed"}      \* the call has returned ConnectionClosed, or connect() failed
Pending == {"sending", "awaiting"}
Call(state, id, command) == [state |-> state, id |-> id, command |-> command]
Idle == Call("idle", 0, "other")

\* Sampling mode after the first n commands: the device starts with Iq.
ModeAfter(n) == IF n = 0 THEN "Iq" ELSE taken[n].mode

\* connect(): the task is spawned; no handle exists besides those of the call.
ClientInit ==
  /\ Init
  /\ connection = "handshake"
  /\ queue = <<>>
  /\ flushing = FALSE
  /\ call = [s \in Subscribers |->
               IF s \in subscribers THEN Call("connecting", 0, "other") ELSE Idle]
  /\ receiver_state = 0
  /\ flushed = 0
  /\ executed = 0
  /\ buffers = [n \in Numbers |-> [tag |-> 0, newest |-> 0]]
  /\ kind = [r \in Receivers |-> "Iq"]
  /\ stream = [r \in Receivers |-> "open"]
  /\ sent = 0
  /\ taken = <<>>
  /\ opened = [r \in Receivers |-> 0]


----------------------------------------------------------------------------
(* The users' side: RtlTcpClient. *)

\* The handshake has succeeded, so that there are clients to use.
Connected == connection \in {"open", "closed"}

\* The await of connect() is over; the result of a failed one is an error.
ConnectReturns(s) ==
  /\ call[s].state = "connecting"
  /\ connection # "handshake"
  /\ call' = [call EXCEPT ![s].state = IF connection = "refused" THEN "closed" ELSE "idle"]
  /\ UNCHANGED <<vars, connection, commands, executed, buffers, sent, streams>>

\* send_command sends a message and then awaits its result.
SendCommand(s, c) ==
  /\ Connected /\ s \in subscribers
  /\ call[s].state \in {"idle", "ok", "closed"}
  /\ sent < MaxCommands
  /\ sent' = sent + 1
  /\ call' = [call EXCEPT ![s] = Call("sending", sent + 1, c)]
  /\ UNCHANGED <<vars, connection, commands, executed, buffers, streams>>

\* Fault: an off-by-one in the bound of the queue.
Room_OffByOne == Len(queue) <= QueueSize

Room == Len(queue) < QueueSize

Enqueue(s) ==
  /\ call[s].state = "sending"
  /\ connection = "open"
  /\ Room
  /\ queue' = Append(queue, [client |-> s, id |-> call[s].id, command |-> call[s].command])
  /\ call' = [call EXCEPT ![s].state = "awaiting"]
  /\ UNCHANGED <<vars, connection, flushing, receiver_state, flushed, taken,
                 executed, buffers, sent, streams>>

EnqueueFails(s) ==
  /\ call[s].state = "sending"
  /\ connection = "closed"
  /\ call' = [call EXCEPT ![s].state = "closed"]
  /\ UNCHANGED <<vars, connection, commands, executed, buffers, sent, streams>>

\* The future is dropped; a message already sent stays in the queue.
CancelCall(s) ==
  /\ call[s].state \in Pending
  /\ call' = [call EXCEPT ![s] = Idle]
  /\ UNCHANGED <<vars, connection, commands, executed, buffers, sent, streams>>

\* samples() and direct_samples(), once send_command has returned Ok.
OpenStream(s) ==
  /\ call[s].state = "ok" /\ call[s].command # "other"
  /\ NewReceiver
  /\ kind' = [kind EXCEPT ![next_receiver_id] = call[s].command]
  /\ opened' = [opened EXCEPT ![next_receiver_id] =
                  CHOOSE n \in 1 .. Len(taken) : taken[n].id = call[s].id]
  /\ call' = [call EXCEPT ![s] = Idle]
  /\ UNCHANGED <<connection, commands, executed, buffers, sent, stream>>

\* Clone and Drop for RtlTcpClient: a future borrows it.
CloneClient(s) ==
  /\ Connected
  /\ CloneSubscriber(s)
  /\ UNCHANGED <<connection, commands, call, executed, buffers, sent, streams>>

\* The last of them drops the last sender of the queue of commands.  To drop the
\* future of connect() is to drop the handles in it.
DropClient(s) ==
  /\ call[s].state \notin Pending
  /\ DropSubscriber(s)
  /\ call' = [call EXCEPT ![s] = Idle]
  /\ UNCHANGED <<connection, commands, executed, buffers, sent, streams>>

\* Nothing is left of a dropped stream.
DropSamples(r) ==
  /\ DropReceiver(r)
  /\ kind' = [kind EXCEPT ![r] = "Iq"]
  /\ stream' = [stream EXCEPT ![r] = "open"]
  /\ opened' = [opened EXCEPT ![r] = 0]
  /\ UNCHANGED <<connection, commands, call, executed, buffers, sent>>

\* Samples::poll_next; nobody polls a stream that has ended.
PollSamples(r) ==
  /\ stream[r] = "open"
  /\ Poll(r)
  /\ stream' = [stream EXCEPT ![r] =
                  IF item'[r] # item[r] /\ ModeAfter(buffers[item'[r]].tag) # kind[r]
                  THEN "switched" ELSE @]
  /\ UNCHANGED <<connection, commands, call, executed, buffers, sent, kind, opened>>

----------------------------------------------------------------------------
(* The connection task. *)

\* read_dongle_info succeeds: connect() has its result, and the select! starts.
\* (The first swap_buffers has nothing to push, so that it may as well come before.)
Handshake ==
  /\ connection = "handshake"
  /\ connection' = "open"
  /\ UNCHANGED <<vars, commands, call, executed, buffers, sent, streams>>

\* Fault: messages that nobody has received stay where they are.
DropMessages_Leaked == UNCHANGED <<queue, call>>

\* Drop of the receiving half of the queue, and with every message of the sender
\* of its result.
DropMessages ==
  /\ queue' = <<>>
  /\ call' = [s \in Subscribers |->
                IF call[s].state = "awaiting" THEN [call[s] EXCEPT !.state = "closed"]
                ELSE call[s]]

\* handle_connection returns, which drops both halves of what it was doing, and the
\* socket.
Close(reason) ==
  /\ FillFails
  /\ connection' = reason
  /\ DropMessages
  /\ flushing' = FALSE
  /\ flushed' = 0
  /\ executed' = 0
  /\ UNCHANGED <<receiver_state, taken, buffers, sent, streams>>

\* read_dongle_info fails: the socket does, or what was read is not MAGIC.
HandshakeFails == connection = "handshake" /\ Close("refused")

\* Fault: the two halves run in tasks of their own.
AtAwait_Always == TRUE

\* The connection task is one task: while forward_samples has a buffer to push it
\* has not come to an await, and forward_commands does not run.
AtAwait == sender = "filling"

\* Fault: the state is only updated when the next command comes.
Reflects_Late == Len(taken)

Reflects == Len(taken')

\* Fault: the sender of the result is dropped without sending anything.
Answer_Dropped(message) ==
  LET s == message.client
  IN  call' = IF call[s].state = "awaiting" /\ call[s].id = message.id
              THEN [call EXCEPT ![s].state = "closed"] ELSE call

\* result_sender.send(Ok(())), whose failure is ignored.
Answer(message) ==
  LET s == message.client
  IN  call' = IF call[s].state = "awaiting" /\ call[s].id = message.id
              THEN [call EXCEPT ![s].state = "ok"] ELSE call

\* forward_commands, from recv() to flush().  Since every command is flushed before
\* the next, write_all only fills an empty buffer, and neither waits nor fails.
TakeCommand ==
  /\ connection = "open" /\ AtAwait
  /\ ~flushing /\ queue # <<>>
  /\ LET message == Head(queue)
         mode == IF message.command = "other" THEN ModeAfter(Len(taken)) ELSE message.command
     IN  /\ taken' = Append(taken, [id |-> message.id, mode |-> mode])
         /\ Answer(message)
  /\ receiver_state' = Reflects
  /\ queue' = Tail(queue)
  /\ flushing' = TRUE
  /\ UNCHANGED <<vars, connection, flushed, executed, buffers, sent, streams>>

Flush ==
  /\ connection = "open" /\ AtAwait
  /\ flushing
  /\ flushing' = FALSE
  /\ flushed' = flushed + 1
  /\ UNCHANGED <<vars, connection, queue, receiver_state, taken, call, executed,
                 buffers, sent, streams>>

FlushFails ==
  /\ connection = "open" /\ flushing
  /\ Close("closed")

\* Fault: the connection task keeps a sender of its own.
Abandoned_Never == FALSE

\* There is no sender of commands left.
Abandoned == subscribers = {}

\* recv() returns None.
CommandsEnd ==
  /\ connection = "open" /\ ~flushing
  /\ queue = <<>> /\ Abandoned
  /\ Close("closed")

\* read_exact succeeds, and the buffer gets its tag.  Its newest sample is no older
\* than that of the buffer before.
ReadExact ==
  /\ connection = "open"
  /\ Fill
  /\ \E newest \in (IF fills = 0 THEN 0 ELSE buffers[fills].newest) .. executed :
       buffers' = [buffers EXCEPT ![fills + 1] =
                     [tag |-> receiver_state, newest |-> newest]]
  /\ UNCHANGED <<connection, commands, call, executed, sent, streams>>

ReadFails == connection = "open" /\ Close("closed")

Swap ==
  /\ SwapBuffers
  /\ UNCHANGED <<connection, commands, call, executed, buffers, sent, streams>>

ConnectionEnds ==
  /\ DropSender
  /\ UNCHANGED <<connection, commands, call, executed, buffers, sent, streams>>

\* The server executes the next command that it was sent.  (Nothing is known of it
\* after the connection is closed.)
ServerExecutes ==
  /\ connection = "open"
  /\ executed < flushed
  /\ executed' = executed + 1
  /\ UNCHANGED <<vars, connection, commands, call, buffers, sent, streams>>

----------------------------------------------------------------------------
\* forward_commands
ForwardCommands == TakeCommand \/ Flush \/ FlushFails \/ CommandsEnd

ClientNext ==
  \/ Handshake
  \/ HandshakeFails
  \/ ForwardCommands
  \/ ReadExact
  \/ ReadFails
  \/ Swap
  \/ ConnectionEnds
  \/ ServerExecutes
  \/ \E s \in Subscribers :
       \/ ConnectReturns(s)
       \/ \E c \in Commands : SendCommand(s, c)
       \/ Enqueue(s)
       \/ EnqueueFails(s)
       \/ CancelCall(s)
       \/ OpenStream(s)
       \/ CloneClient(s)
       \/ DropClient(s)
  \/ \E r \in Receivers : DropSamples(r) \/ PollSamples(r)

ClientSpec == ClientInit /\ [][ClientNext]_clientVars

\* The connection task is polled, and forward_commands goes on when it can: a
\* select! polls both halves, and the budget of tokio makes even a busy one await.
\* A server that is alive reads its commands, so a flush ends.  tokio serves waiting
\* senders in turn.  Nothing is assumed of users, nor that the server sends anything.
ClientFairness ==
  /\ WF_clientVars(Swap \/ ConnectionEnds)
  /\ SF_clientVars(ForwardCommands)
  /\ \A s \in Subscribers : SF_clientVars(Enqueue(s) \/ EnqueueFails(s))

FairClientSpec == ClientSpec /\ ClientFairness

----------------------------------------------------------------------------
(* Safety *)

\* Every variable of the client has its type.
ClientTypeOK ==
  /\ connection \in {"handshake", "open", "closed", "refused"}
  /\ queue \in Seq(Messages) /\ Len(queue) <= QueueSize
  /\ flushing \in BOOLEAN
  /\ call \in [Subscribers ->
                 [state : CallStates, id : 0 .. MaxCommands, command : Commands]]
  /\ receiver_state \in 0 .. MaxCommands
  /\ flushed \in 0 .. MaxCommands
  /\ executed \in 0 .. flushed
  /\ buffers \in [Numbers -> [tag : 0 .. MaxCommands, newest : 0 .. MaxCommands]]
  /\ kind \in [Receivers -> Modes]
  /\ stream \in [Receivers -> {"open", "switched"}]
  /\ sent \in 0 .. MaxCommands
  /\ taken \in Seq([id : 1 .. MaxCommands, mode : Modes])
  /\ opened \in [Receivers -> 0 .. MaxCommands]

\* A tag is never older than any sample of its buffer: the client may be ahead of
\* the server (and then mislabels samples taken before a switch), but never
\* labels samples with a rate or mode that the server had left when it took them.
TagsNeverBehind == \A n \in 1 .. fills : buffers[n].newest <= buffers[n].tag

\* A stream ends on a buffer of another mode only if a user asked for another mode
\* after the command that opened it: no buffer that was read or pushed before the
\* stream's own command was taken can end it.
SwitchWasAsked ==
  \A r \in Receivers :
    stream[r] = "switched" =>
      \E n \in opened[r] .. Len(taken) : ModeAfter(n) # kind[r]

\* A command that failed with ConnectionClosed was not taken: it has not reached
\* the server, and never will, whether it was waiting for room, or in the queue,
\* when the connection ended.
ClosedMeansNotSent ==
  \A s \in Subscribers :
    call[s].state = "closed" => \A n \in 1 .. Len(taken) : taken[n].id # call[s].id

\* What buffer_queue.rs says of its counters: the channel is not closed for want of
\* users while there are subscribers or receivers.  The code closes it with the last
\* client, also under streams that are being read.
StreamsKeepConnection == [][CommandsEnd => LiveReceivers = {}]_clientVars

----------------------------------------------------------------------------
(* Liveness *)

\* A call of send_command returns (or is dropped), whenever the connection ends.
EveryCommandReturns ==
  \A s \in Subscribers : call[s].state \in Pending ~> call[s].state \notin Pending

\* When the last handle of any kind is dropped, the connection ends.  forward_samples
\* never learns of that: its producer does not block, and is not told.
ConnectionEndsWithLastHandle ==
  (connection = "open" /\ subscribers = {} /\ LiveReceivers = {}) ~> (sender = "dropped")

=============================================================================
