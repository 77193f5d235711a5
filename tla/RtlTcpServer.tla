---------------------------- MODULE RtlTcpServer ----------------------------
(***************************************************************************)
(* The server of rtl_tcp/server.rs: the accept loop, and serve_connection  *)
(* for one of its connections (they share nothing but the backend and the  *)
(* shutdown token).  A connection is a loop around a select! of three      *)
(* branches: the shutdown token, bytes of commands, and forward_samples.   *)
(* Whichever branch is ready first drops the futures of the others; what   *)
(* they have done so far is kept in the command buffer, the sample buffer  *)
(* and the chunk, and in the buffers of the socket.                        *)
(*                                                                         *)
(* The bytes that the peer sends, and the samples that the backend yields, *)
(* are numbered from 1.  Byte 2n - 1 and byte 2n are those of sample n.    *)
(***************************************************************************)
EXTENDS Integers, Sequences

CONSTANTS
  CommandLength,   \* COMMAND_LENGTH
  Capacity,        \* SampleBuffer::DEFAULT_CAPACITY, in samples
  WriterCapacity,  \* the capacity of BufWriter, in bytes
  ChunkSizes,      \* the sizes of chunks, in samples
  MaxInput,        \* bound: bytes that the peer sends
  MaxSamples       \* bound: samples that the backend yields

ASSUME LengthAssumption == CommandLength \in Nat \ {0}
ASSUME BuffersAssumption == Capacity \in Nat \ {0} /\ WriterCapacity \in Nat \ {0}
ASSUME ChunksAssumption == ChunkSizes \subseteq Nat \ {0}
ASSUME ServerBoundsAssumption == MaxInput \in Nat /\ MaxSamples \in Nat

VARIABLES
  serving,     \* where serve() is
  shutdown,    \* the token is cancelled
  state,       \* where the connection is
  \* the peer
  input,       \* bytes that it has sent
  hung_up,     \* it will not send any more
  wire,        \* bytes that the socket has accepted for it
  \* CommandBuffer
  data, filled,
  consumed,    \* history: bytes of the input read so far
  handled,     \* history: commands handed to the backend
  \* SampleBuffer, chunk and BufWriter
  samples, write_pos, read_pos,
  chunk,       \* the samples left in BackendConnectionHandler's chunk
  yielded,     \* samples the backend's stream has yielded
  writer,      \* the bytes in the BufWriter
  flushing     \* it is in the middle of writing them to the socket

server == <<serving, shutdown>>
peer == <<input, hung_up>>
commandBuffer == <<data, filled, consumed, handled>>
sampleBuffer == <<samples, write_pos, read_pos>>
writing == <<wire, writer, flushing>>
sampling == <<sampleBuffer, chunk, yielded, writing>>
serverVars == <<server, state, peer, commandBuffer, sampling>>

ServingStates ==
  {"listening",
   "accepting",  \* accept_connection awaits the backend
   "returned"}
States ==
  {"none",       \* the peer has not connected yet
   "accepted",
   "select",     \* at the select!
   "handling",   \* in handle_command
   "closed",
   "panicked"}
Ended == {"closed", "panicked"}

ServerInit ==
  /\ serving = "listening"
  /\ shutdown = FALSE
  /\ state = "none"
  /\ input = 0
  /\ hung_up = FALSE
  /\ data = [i \in 1 .. CommandLength |-> 0]
  /\ filled = 0
  /\ consumed = 0
  /\ handled = 0
  /\ samples = [i \in 0 .. Capacity - 1 |-> 0]
  /\ write_pos = 0
  /\ read_pos = 0
  /\ chunk = <<>>
  /\ yielded = 0
  /\ writer = <<>>
  /\ flushing = FALSE
  /\ wire = <<>>

Numbered(first, last) == [i \in 1 .. (last - first + 1) |-> first + i - 1]

----------------------------------------------------------------------------
(* serve() *)

\* Somebody cancels the token.
CancelToken ==
  /\ shutdown' = TRUE
  /\ UNCHANGED <<serving, state, peer, commandBuffer, sampling>>

ServeShutdown ==
  /\ serving = "listening" /\ shutdown
  /\ serving' = "returned"
  /\ UNCHANGED <<shutdown, state, peer, commandBuffer, sampling>>

Accept ==
  /\ serving = "listening" /\ state = "none"
  /\ serving' = "accepting"
  /\ state' = "accepted"
  /\ UNCHANGED <<shutdown, peer, commandBuffer, sampling>>

\* An error of the listener ends the server, but no connection.
AcceptFails ==
  /\ serving = "listening"
  /\ serving' = "returned"
  /\ UNCHANGED <<shutdown, state, peer, commandBuffer, sampling>>

\* The rest of handle_accept: BackendConnectionHandler::new opens a stream of IQ
\* samples, and the connection gets a task, or its socket is dropped.
HandleAccept ==
  /\ serving = "accepting"
  /\ serving' = "listening"
  /\ state' \in {"select", "closed"}
  /\ UNCHANGED <<shutdown, peer, commandBuffer, sampling>>

----------------------------------------------------------------------------
(* The peer sends something, or hangs up; when it reads is up to Write below. *)

PeerSends ==
  /\ ~hung_up
  /\ input < MaxInput
  /\ input' = input + 1
  /\ UNCHANGED <<server, state, hung_up, commandBuffer, sampling>>

PeerHangsUp ==
  /\ ~hung_up
  /\ hung_up' = TRUE
  /\ UNCHANGED <<server, state, input, commandBuffer, sampling>>

----------------------------------------------------------------------------
(* serve_connection: shutdown and commands. *)

Close ==
  /\ state' = "closed"
  /\ UNCHANGED <<server, peer, commandBuffer, sampling>>

\* Fault: forward_samples is not a branch of the select!: while it has something
\* to write, nothing else is done.
AtSelect_BetweenWrites == state = "select" /\ write_pos = 0

AtSelect == state = "select"

Shutdown ==
  /\ AtSelect /\ shutdown
  /\ Close

\* Fault: bytes are stored at the beginning of the buffer.
Store_AtStart(n) ==
  data' = [i \in 1 .. CommandLength |-> IF i <= n THEN consumed + i ELSE data[i]]

\* chunk_mut
Store(n) ==
  data' = [i \in 1 .. CommandLength |->
             IF i \in (filled + 1) .. (filled + n) THEN consumed + i - filled ELSE data[i]]

\* read_buf returns, with some of the bytes there are and at most as many as there
\* is room for.  A command that is complete is decoded at once, and awaited if it
\* is a valid one.
ReadCommand ==
  /\ AtSelect
  /\ \E n \in 1 .. (CommandLength - filled) :
       /\ consumed + n <= input
       /\ Store(n)
       /\ consumed' = consumed + n
       /\ IF filled + n = CommandLength
          THEN \/ /\ state' = "handling"
                  /\ filled' = 0
                  /\ handled' = handled + 1
               \/ /\ state' = "closed"
                  /\ filled' = CommandLength
                  /\ UNCHANGED handled
          ELSE filled' = filled + n /\ UNCHANGED <<state, handled>>
  /\ UNCHANGED <<server, peer, sampling>>

\* handle_command returns; an error of the backend is only logged.
HandleCommand ==
  /\ state = "handling"
  /\ state' = "select"
  /\ UNCHANGED <<server, peer, commandBuffer, sampling>>

\* read_buf returns 0 at the end of the input ...
InputEnds ==
  /\ AtSelect /\ hung_up /\ consumed = input
  /\ Close

\* ... or fails, as may the writing of samples.
SocketFails ==
  /\ AtSelect
  /\ Close

----------------------------------------------------------------------------
(* serve_connection: forward_samples. *)

CanRead == read_pos < write_pos
CanWrite == write_pos = 0

\* read_samples copies what fits from the rest of the last chunk, or from the next
\* one, which it has to wait for; it is stored before there is another await.
CopySamples(from) ==
  LET n == IF Len(from) < Capacity THEN Len(from) ELSE Capacity
  IN  /\ samples' = [i \in 0 .. Capacity - 1 |-> IF i < n THEN from[i + 1] ELSE samples[i]]
      /\ write_pos' = n
      /\ chunk' = SubSeq(from, n + 1, Len(from))

ReadSamples ==
  /\ AtSelect /\ CanWrite
  /\ IF chunk # <<>>
     THEN CopySamples(chunk) /\ UNCHANGED yielded
     ELSE \E size \in ChunkSizes :
            /\ yielded + size <= MaxSamples
            /\ yielded' = yielded + size
            /\ CopySamples(Numbered(yielded + 1, yielded + size))
  /\ UNCHANGED <<server, state, peer, commandBuffer, read_pos, writing>>

\* The stream ends: read_samples returns 0.
SamplesEnd ==
  /\ AtSelect /\ CanWrite /\ chunk = <<>>
  /\ Close

\* Fault: the samples at the start of the buffer are returned again.
Unread_FromStart ==
  [i \in 1 .. 2 * (write_pos - read_pos) |-> 2 * samples[(i - 1) \div 2] - (i % 2)]

\* read_buffer: the bytes of the samples from read_pos to write_pos.
Unread ==
  [i \in 1 .. 2 * (write_pos - read_pos) |->
     2 * samples[read_pos + (i - 1) \div 2] - (i % 2)]

\* Fault: the positions start over only when the buffer has been filled entirely.
StartsOver_WhenFull(pos) == pos = write_pos /\ write_pos = Capacity

StartsOver(pos) == pos = write_pos

\* Fault: the position moves by bytes.
SamplesIn_Bytes(bytes) == bytes

\* The number of samples that the bytes are.
SamplesIn(bytes) == bytes \div 2

\* confirm_read, which panics if half of a sample was written.
ConfirmRead(bytes) ==
  IF bytes % 2 = 1
  THEN state' = "panicked" /\ UNCHANGED <<read_pos, write_pos>>
  ELSE LET pos == read_pos + SamplesIn(bytes)
       IN  /\ IF StartsOver(pos)
              THEN read_pos' = 0 /\ write_pos' = 0
              ELSE read_pos' = pos /\ UNCHANGED write_pos
           /\ UNCHANGED state

\* BufWriter::poll_write first makes room, if it has to; it may be interrupted when
\* the socket has accepted only a part, and then goes on when it is called again.
MustFlush == writer # <<>> /\ (flushing \/ Len(writer) + Len(Unread) > WriterCapacity)

FlushSome ==
  /\ MustFlush
  /\ \E n \in 1 .. Len(writer) :
       /\ wire' = wire \o SubSeq(writer, 1, n)
       /\ writer' = SubSeq(writer, n + 1, Len(writer))
       /\ flushing' = (n < Len(writer))
  /\ UNCHANGED <<state, write_pos, read_pos>>

\* What is too large for its buffer goes to the socket, as much as that accepts.
WriteThrough ==
  /\ ~MustFlush /\ Len(Unread) >= WriterCapacity
  /\ \E n \in 1 .. Len(Unread) :
       /\ wire' = wire \o SubSeq(Unread, 1, n)
       /\ ConfirmRead(n)
  /\ UNCHANGED <<writer, flushing>>

Buffered == writer \o Unread

WriteBuffered ==
  /\ ~MustFlush /\ Len(Unread) < WriterCapacity
  /\ writer' = Buffered
  /\ ConfirmRead(Len(Unread))
  /\ UNCHANGED <<wire, flushing>>

Write ==
  /\ AtSelect /\ ~CanWrite /\ CanRead
  /\ FlushSome \/ WriteThrough \/ WriteBuffered
  /\ UNCHANGED <<server, peer, commandBuffer, samples, chunk, yielded>>

----------------------------------------------------------------------------
ServerNext ==
  \/ CancelToken
  \/ ServeShutdown
  \/ Accept
  \/ AcceptFails
  \/ HandleAccept
  \/ PeerSends
  \/ PeerHangsUp
  \/ Shutdown
  \/ ReadCommand
  \/ HandleCommand
  \/ InputEnds
  \/ SocketFails
  \/ ReadSamples
  \/ SamplesEnd
  \/ Write

ServerSpec == ServerInit /\ [][ServerNext]_serverVars

\* The tasks are polled, and the backend answers (a call of it returns, as Control
\* shows).  A branch of a select! that is ready again and again is chosen in the
\* end, since they are polled in a random order.  Nothing is assumed of the peer,
\* which need not send, read or hang up, nor of the backend's stream.
ServerFairness ==
  /\ SF_serverVars(ServeShutdown)
  /\ WF_serverVars(HandleAccept)
  /\ SF_serverVars(Shutdown)
  /\ SF_serverVars(ReadCommand)
  /\ SF_serverVars(InputEnds)
  /\ WF_serverVars(HandleCommand)

FairServerSpec == ServerSpec /\ ServerFairness

----------------------------------------------------------------------------
(* Safety *)

\* Every variable has its type.
ServerTypeOK ==
  /\ serving \in ServingStates
  /\ shutdown \in BOOLEAN
  /\ state \in States
  /\ input \in 0 .. MaxInput
  /\ hung_up \in BOOLEAN
  /\ data \in [1 .. CommandLength -> 0 .. MaxInput]
  /\ filled \in 0 .. CommandLength
  /\ consumed \in 0 .. input
  /\ handled \in 0 .. MaxInput
  /\ samples \in [0 .. Capacity - 1 -> 0 .. MaxSamples]
  /\ write_pos \in 0 .. Capacity
  /\ read_pos \in 0 .. write_pos
  /\ chunk \in Seq(1 .. MaxSamples)
  /\ yielded \in 0 .. MaxSamples
  /\ writer \in Seq(1 .. 2 * MaxSamples) /\ Len(writer) <= WriterCapacity
  /\ flushing \in BOOLEAN
  /\ wire \in Seq(1 .. 2 * MaxSamples)

\* However the input is cut into pieces, and whatever the other branches of the
\* select! do in between, the backend is handed the commands that the peer sent, in
\* order: the n-th command is made of the n-th CommandLength bytes.
CommandsAsSent ==
  state \in {"select", "handling"} =>
    /\ consumed = handled * CommandLength + filled
    /\ \A i \in 1 .. filled : data[i] = consumed - filled + i
    /\ state = "handling" =>
         \A i \in 1 .. CommandLength : data[i] = consumed - CommandLength + i

\* No sample is lost, repeated or moved on its way from the backend's stream to the
\* peer, in which of the four buffers it may be when a future is dropped: what the
\* socket has accepted, the BufWriter, the sample buffer and the chunk together are
\* all that was yielded, and what was accepted is a prefix of it, even if the
\* connection ends by a panic in the middle of a sample.
SamplesAsYielded ==
  /\ wire = Numbered(1, Len(wire))
  /\ state \in {"select", "handling"} =>
    wire \o writer \o Unread
      \o [i \in 1 .. 2 * Len(chunk) |-> 2 * chunk[(i + 1) \div 2] - (i % 2)]
    = Numbered(1, 2 * yielded)

\* forward_samples never comes to its unreachable!(): the sample buffer can be
\* written to, or read from.
SampleBufferUsable == state \in {"select", "handling"} => CanWrite \/ CanRead

----------------------------------------------------------------------------
(* Liveness *)

\* When the token is cancelled, serve() returns, and the connection ends, also if
\* it is accepted at that moment, in the middle of a command, or blocked because
\* the peer does not read.
ShutdownEndsAll == shutdown ~> (serving = "returned" /\ state \in Ended \cup {"none"})

\* A peer that does not read the samples it is sent can still have its commands
\* executed: every command it has sent completely is handed to the backend, unless
\* the connection ends.
CommandsAreHandled ==
  \A n \in 1 .. MaxInput \div CommandLength :
    (state = "select" /\ input >= n * CommandLength) ~> (handled >= n \/ state \in Ended)

\* A peer that hangs up is noticed, although no sample may be written any more.
HangUpIsNoticed == (state = "select" /\ hung_up) ~> (state \in Ended)

=============================================================================
