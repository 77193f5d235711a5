------------------------- MODULE RtlTcpServerProofs -------------------------
(***************************************************************************)
(* Proofs about the rtl_tcp server, for any length of commands, any sizes  *)
(* of its buffers and of the chunks of samples, and any input: whatever    *)
(* the select! interrupts, commands and samples get through as they are.   *)
(***************************************************************************)
EXTENDS RtlTcpServer, SequenceTheorems, TLAPS

----------------------------------------------------------------------------
(* The inductive invariant *)

\* Types that do not depend on others, and what accept_connection waits for.
Types ==
  /\ serving \in ServingStates
  /\ shutdown \in BOOLEAN
  /\ state \in States
  /\ hung_up \in BOOLEAN
  /\ flushing \in BOOLEAN
  /\ serving = "accepting" => state = "accepted"

\* Every byte read is in a command handed over, or in the command buffer.
CommandsInv ==
  /\ input \in 0 .. MaxInput
  /\ data \in [1 .. CommandLength -> 0 .. MaxInput]
  /\ filled \in 0 .. CommandLength
  /\ consumed \in 0 .. input
  /\ handled \in 0 .. MaxInput
  /\ state # "closed" =>
       /\ consumed = handled * CommandLength + filled
       /\ filled < CommandLength
       /\ \A i \in 1 .. filled : data[i] = consumed - filled + i
  /\ state = "handling" =>
       /\ filled = 0
       /\ \A i \in 1 .. CommandLength : data[i] = consumed - CommandLength + i

\* The bytes that have left the sample buffer, to the socket or the BufWriter.
Written == Len(wire) + Len(writer)

\* The samples that have left the sample buffer.
Passed == yielded - Len(chunk) - (write_pos - read_pos)

\* Every sample yielded is on the wire, in the BufWriter, in the sample buffer, or
\* in the chunk, which follow each other without a gap.
SamplesInv ==
  /\ samples \in [0 .. Capacity - 1 -> 0 .. MaxSamples]
  /\ write_pos \in 0 .. Capacity
  /\ read_pos \in 0 .. write_pos
  /\ CanWrite \/ CanRead
  /\ chunk \in Seq(Nat)
  /\ yielded \in 0 .. MaxSamples
  /\ writer \in Seq(Nat) /\ Len(writer) <= WriterCapacity
  /\ wire \in Seq(Nat)
  /\ Len(chunk) + (write_pos - read_pos) <= yielded
  /\ \A i \in 1 .. Len(wire) : wire[i] = i
  /\ \A i \in 1 .. Len(writer) : writer[i] = Len(wire) + i
  /\ \A i \in read_pos .. write_pos - 1 : samples[i] = Passed + (i - read_pos) + 1
  /\ \A i \in 1 .. Len(chunk) : chunk[i] = yielded - Len(chunk) + i
  /\ Written <= 2 * yielded
  /\ state # "panicked" => Written = 2 * Passed

ServerInv == Types /\ CommandsInv /\ SamplesInv

\* The initial state: nothing has been sent, read or yielded.
LEMMA InitServerInv == ServerInit => ServerInv
<1>. SUFFICES ASSUME ServerInit PROVE ServerInv
  OBVIOUS
<1>1. Types
  BY DEF ServerInit, Types, ServingStates, States
<1>2. CommandsInv
  BY LengthAssumption, ServerBoundsAssumption DEF ServerInit, CommandsInv
<1>3. SamplesInv
  BY BuffersAssumption, ServerBoundsAssumption, EmptySeq
     DEF ServerInit, SamplesInv, CanWrite, CanRead, Written, Passed
<1>. QED  BY <1>1, <1>2, <1>3 DEF ServerInv

----------------------------------------------------------------------------
(* Commands *)

\* Other steps leave commands alone.
LEMMA CommandsUntouched ==
  ASSUME CommandsInv, UNCHANGED <<input, commandBuffer>>,
         state' = "handling" => state = "handling",
         state' # "closed" => state # "closed"
  PROVE  CommandsInv'
BY DEF CommandsInv, commandBuffer

\* Each command takes its bytes from the input.
LEMMA CommandsFitInput ==
  ASSUME NEW n \in Nat
  PROVE  /\ n * CommandLength \in Nat
         /\ n <= n * CommandLength
         /\ (n + 1) * CommandLength = n * CommandLength + CommandLength
BY LengthAssumption

\* However many bytes read_buf returns, they continue those in the buffer.
LEMMA ReadCommandInv == CommandsInv /\ ReadCommand => CommandsInv'
<1>. SUFFICES ASSUME CommandsInv, ReadCommand PROVE CommandsInv'
  OBVIOUS
<1>1. PICK n \in 1 .. (CommandLength - filled) :
        /\ consumed + n <= input
        /\ Store(n)
        /\ consumed' = consumed + n
        /\ IF filled + n = CommandLength
           THEN \/ /\ state' = "handling"
                   /\ filled' = 0
                   /\ handled' = handled + 1
                \/ /\ state' = "closed"
                   /\ filled' = CommandLength
                   /\ UNCHANGED handled
           ELSE filled' = filled + n /\ UNCHANGED <<state, handled>>
  BY DEF ReadCommand
<1>2. /\ CommandLength \in Nat /\ CommandLength > 0 /\ MaxInput \in Nat
      /\ input \in Nat /\ input <= MaxInput /\ consumed \in Nat /\ handled \in Nat
      /\ filled \in Nat /\ n \in Nat /\ n > 0 /\ filled + n <= CommandLength
      /\ consumed = handled * CommandLength + filled
      /\ \A i \in 1 .. filled : data[i] = consumed - filled + i
      /\ state = "select" /\ UNCHANGED input
  BY LengthAssumption, ServerBoundsAssumption DEF CommandsInv, ReadCommand, AtSelect, peer
<1>3. /\ handled * CommandLength \in Nat
      /\ (handled + 1) * CommandLength = handled * CommandLength + CommandLength
      /\ handled <= handled * CommandLength
      /\ handled + 1 <= (handled + 1) * CommandLength
  BY <1>2, CommandsFitInput
<1>4. /\ DOMAIN data' = 1 .. CommandLength
      /\ \A i \in 1 .. (filled + n) : data'[i] = consumed + n - (filled + n) + i
      /\ \A i \in (filled + n + 1) .. CommandLength : data'[i] = data[i]
  BY <1>1, <1>2 DEF Store
<1>5. data' \in [1 .. CommandLength -> 0 .. MaxInput]
  <2>. SUFFICES ASSUME NEW i \in 1 .. CommandLength PROVE data'[i] \in 0 .. MaxInput
    BY <1>1 DEF Store
  <2>1. CASE i <= filled + n
    BY <1>1, <1>2, <1>3, <1>4, <2>1
  <2>2. CASE ~(i <= filled + n)
    <3>1. i \in (filled + n + 1) .. CommandLength
      BY <1>2, <2>2
    <3>. QED  BY <1>4, <3>1 DEF CommandsInv
  <2>. QED  BY <2>1, <2>2
<1>6. consumed' \in 0 .. input /\ input' \in 0 .. MaxInput
  BY <1>1, <1>2
<1>7. CASE filled + n = CommandLength /\ state' = "handling"
  <2>1. filled' = 0 /\ handled' = handled + 1
    BY <1>1, <1>7
  <2>2. consumed' = handled' * CommandLength + filled'
    BY <1>1, <1>2, <1>3, <1>7, <2>1
  <2>3. handled' \in 0 .. MaxInput
    BY <1>1, <1>2, <1>3, <1>7, <2>1
  <2>4. \A i \in 1 .. CommandLength : data'[i] = consumed' - CommandLength + i
    BY <1>1, <1>2, <1>4, <1>7
  <2>. QED  BY <1>2, <1>5, <1>6, <1>7, <2>1, <2>2, <2>3, <2>4 DEF CommandsInv
<1>8. CASE filled + n = CommandLength /\ state' = "closed"
  BY <1>1, <1>2, <1>5, <1>6, <1>8 DEF CommandsInv
<1>9. CASE filled + n # CommandLength
  <2>1. filled' = filled + n /\ UNCHANGED <<state, handled>>
    BY <1>1, <1>9
  <2>2. consumed' = handled' * CommandLength + filled'
    BY <1>1, <1>2, <1>3, <2>1
  <2>3. filled' \in 0 .. CommandLength /\ filled' < CommandLength
    BY <1>2, <1>9, <2>1
  <2>4. \A i \in 1 .. filled' : data'[i] = consumed' - filled' + i
    BY <1>1, <1>2, <1>4, <2>1
  <2>. QED  BY <1>2, <1>5, <1>6, <2>1, <2>2, <2>3, <2>4 DEF CommandsInv
<1>. QED  BY <1>1, <1>7, <1>8, <1>9

----------------------------------------------------------------------------
(* Samples *)

\* A sequence cut after its n-th element.
LEMMA Pieces ==
  ASSUME NEW q \in Seq(Nat), NEW n \in 0 .. Len(q)
  PROVE  /\ SubSeq(q, 1, n) \in Seq(Nat)
         /\ Len(SubSeq(q, 1, n)) = n
         /\ \A i \in 1 .. n : SubSeq(q, 1, n)[i] = q[i]
         /\ SubSeq(q, n + 1, Len(q)) \in Seq(Nat)
         /\ Len(SubSeq(q, n + 1, Len(q))) = Len(q) - n
         /\ \A i \in 1 .. Len(q) - n : SubSeq(q, n + 1, Len(q))[i] = q[n + i]
<1>1. Len(q) \in Nat /\ n \in Nat /\ n <= Len(q) /\ \A i \in 1 .. Len(q) : q[i] \in Nat
  OBVIOUS
<1>2. /\ SubSeq(q, 1, n) \in Seq(Nat)
      /\ Len(SubSeq(q, 1, n)) = n
      /\ \A i \in 1 .. n : SubSeq(q, 1, n)[i] = q[i]
  BY <1>1
<1>3. SubSeq(q, n + 1, Len(q)) = [i \in 1 .. Len(q) - n |-> q[n + i]]
  BY <1>1
<1>4. [i \in 1 .. Len(q) - n |-> q[n + i]] \in Seq(Nat)
  BY <1>1
<1>5. Len([i \in 1 .. Len(q) - n |-> q[n + i]]) = Len(q) - n
  BY <1>1
<1>. QED  BY <1>2, <1>3, <1>4, <1>5

\* The wire stays numbered if what is sent continues it.
LEMMA WireGrows ==
  ASSUME NEW q \in Seq(Nat), NEW next \in Seq(Nat),
         \A i \in 1 .. Len(q) : q[i] = i,
         \A i \in 1 .. Len(next) : next[i] = Len(q) + i
  PROVE  /\ q \o next \in Seq(Nat)
         /\ Len(q \o next) = Len(q) + Len(next)
         /\ \A i \in 1 .. Len(q \o next) : (q \o next)[i] = i
<1>1. Len(q) \in Nat /\ Len(next) \in Nat
  OBVIOUS
<1>2. /\ q \o next \in Seq(Nat)
      /\ Len(q \o next) = Len(q) + Len(next)
      /\ \A i \in 1 .. Len(q) + Len(next) :
           (q \o next)[i] = IF i <= Len(q) THEN q[i] ELSE next[i - Len(q)]
  OBVIOUS
<1>3. ASSUME NEW i \in 1 .. Len(q) + Len(next), ~(i <= Len(q))
      PROVE  i - Len(q) \in 1 .. Len(next) /\ Len(q) + (i - Len(q)) = i
  BY <1>1, <1>3
<1>. QED  BY <1>1, <1>2, <1>3

\* Other steps leave samples alone.
LEMMA SamplesUntouched ==
  ASSUME SamplesInv, UNCHANGED sampling, state' # "panicked" => state # "panicked"
  PROVE  SamplesInv'
BY DEF SamplesInv, sampling, sampleBuffer, writing, Written, Passed, CanWrite, CanRead

\* The bytes of read_buffer come right after those written.
LEMMA UnreadFacts ==
  ASSUME SamplesInv, state # "panicked"
  PROVE  /\ Unread \in Seq(Nat)
         /\ Len(Unread) = 2 * (write_pos - read_pos)
         /\ \A i \in 1 .. Len(Unread) : Unread[i] = Written + i
<1>1. /\ write_pos \in Nat /\ read_pos \in Nat /\ read_pos <= write_pos
      /\ Passed \in Nat /\ Written = 2 * Passed
  BY BuffersAssumption, ServerBoundsAssumption DEF SamplesInv, Passed, Written
<1>2. ASSUME NEW i \in 1 .. 2 * (write_pos - read_pos)
      PROVE  2 * samples[read_pos + (i - 1) \div 2] - (i % 2) = Written + i
  <2>1. read_pos + (i - 1) \div 2 \in read_pos .. write_pos - 1
    BY <1>1
  <2>2. samples[read_pos + (i - 1) \div 2] = Passed + (i - 1) \div 2 + 1
    BY <1>1, <2>1 DEF SamplesInv
  <2>. QED  BY <1>1, <2>2
<1>3. ASSUME NEW i \in 1 .. 2 * (write_pos - read_pos)
      PROVE  2 * samples[read_pos + (i - 1) \div 2] - (i % 2) \in Nat
  BY <1>1, <1>2
<1>4. Unread \in Seq(Nat) /\ Len(Unread) = 2 * (write_pos - read_pos)
  BY <1>1, <1>3 DEF Unread
<1>. QED  BY <1>1, <1>2, <1>4 DEF Unread

\* What is copied into the empty buffer is what comes after the samples passed on.
LEMMA CopySamplesInv ==
  ASSUME SamplesInv, CanWrite, state # "panicked",
         NEW from \in Seq(Nat), Len(from) \in Nat \ {0}, CopySamples(from),
         yielded' \in 0 .. MaxSamples, yielded <= yielded', yielded' = Passed + Len(from),
         \A i \in 1 .. Len(from) : from[i] = Passed + i,
         UNCHANGED <<state, read_pos, writing>>
  PROVE  SamplesInv'
<1>1. PICK n \in 1 .. Len(from) :
        /\ n <= Capacity
        /\ samples' = [i \in 0 .. Capacity - 1 |-> IF i < n THEN from[i + 1] ELSE samples[i]]
        /\ write_pos' = n
        /\ chunk' = SubSeq(from, n + 1, Len(from))
  <2>1. CASE Len(from) < Capacity
    <3>1. Len(from) \in 1 .. Len(from) /\ Len(from) <= Capacity
      BY <2>1, BuffersAssumption
    <3>. QED  BY <2>1, <3>1 DEF CopySamples
  <2>2. CASE ~(Len(from) < Capacity)
    <3>1. Capacity \in 1 .. Len(from) /\ Capacity <= Capacity
      BY <2>2, BuffersAssumption
    <3>. QED  BY <2>2, <3>1 DEF CopySamples
  <2>. QED  BY <2>1, <2>2
<1>2. /\ write_pos = 0 /\ read_pos = 0 /\ UNCHANGED <<read_pos, writer, wire, flushing>>
      /\ UNCHANGED Written
  BY BuffersAssumption DEF CanWrite, SamplesInv, writing, Written
<1>3. /\ n \in Nat /\ n > 0 /\ n <= Len(from) /\ Len(from) \in Nat
      /\ n <= Capacity /\ Capacity \in Nat
      /\ MaxSamples \in Nat /\ yielded' \in Nat /\ yielded' <= MaxSamples
      /\ Passed \in Nat /\ Passed + Len(from) <= MaxSamples
  <2>1. n \in Nat /\ n > 0 /\ n <= Len(from) /\ n <= Capacity /\ Capacity \in Nat
    BY <1>1, BuffersAssumption
  <2>2. MaxSamples \in Nat /\ yielded' \in Nat /\ yielded' <= MaxSamples
    BY ServerBoundsAssumption
  <2>3. yielded \in Nat /\ Len(chunk) \in Nat /\ Len(chunk) <= yielded
    BY <1>2, ServerBoundsAssumption DEF SamplesInv
  <2>4. Passed \in Nat
    BY <1>2, <2>3 DEF Passed
  <2>. QED  BY <2>1, <2>2, <2>4
<1>4. /\ chunk' \in Seq(Nat) /\ Len(chunk') = Len(from) - n
      /\ \A i \in 1 .. Len(chunk') : chunk'[i] = from[n + i]
  <2>1. n \in 0 .. Len(from)
    BY <1>3
  <2>2. /\ SubSeq(from, n + 1, Len(from)) \in Seq(Nat)
        /\ Len(SubSeq(from, n + 1, Len(from))) = Len(from) - n
        /\ \A i \in 1 .. Len(from) - n : SubSeq(from, n + 1, Len(from))[i] = from[n + i]
    BY <2>1, Pieces
  <2>. QED  BY <1>1, <1>3, <2>2
<1>5. Passed' = Passed
  <2>1. Passed' = yielded' - Len(chunk') - (write_pos' - read_pos')
    BY DEF Passed
  <2>. QED  BY <1>1, <1>2, <1>3, <1>4, <2>1
<1>6. \A i \in 0 .. Capacity - 1 : i < n => samples'[i] = Passed + i + 1
  BY <1>1, <1>3
<1>7. samples' \in [0 .. Capacity - 1 -> 0 .. MaxSamples]
  <2>. SUFFICES ASSUME NEW i \in 0 .. Capacity - 1
                PROVE  (IF i < n THEN from[i + 1] ELSE samples[i]) \in 0 .. MaxSamples
    BY <1>1
  <2>1. CASE i < n
    <3>1. i + 1 \in 1 .. Len(from) /\ Passed + (i + 1) \in 0 .. MaxSamples
      BY <1>3, <2>1
    <3>. QED  BY <2>1, <3>1
  <2>2. CASE ~(i < n)
    BY <2>2 DEF SamplesInv
  <2>. QED  BY <2>1, <2>2
<1>8. \A i \in 1 .. Len(chunk') : chunk'[i] = yielded' - Len(chunk') + i
  BY <1>3, <1>4
<1>9. \A i \in read_pos' .. write_pos' - 1 : samples'[i] = Passed' + (i - read_pos') + 1
  BY <1>1, <1>2, <1>3, <1>5, <1>6
<1>10. write_pos' \in 0 .. Capacity /\ read_pos' \in 0 .. write_pos' /\ (CanWrite \/ CanRead)'
  BY <1>1, <1>2, <1>3 DEF CanRead, CanWrite
<1>11. Len(chunk') + (write_pos' - read_pos') <= yielded'
  BY <1>1, <1>2, <1>3, <1>4
<1>12. Written' <= 2 * yielded' /\ Written' = 2 * Passed'
  BY <1>2, <1>3, <1>5 DEF SamplesInv, Written
<1>. QED  BY <1>2, <1>4, <1>7, <1>8, <1>9, <1>10, <1>11, <1>12 DEF SamplesInv

\* read_samples
LEMMA ReadSamplesInv == SamplesInv /\ ReadSamples => SamplesInv'
<1>. SUFFICES ASSUME SamplesInv, ReadSamples PROVE SamplesInv'
  OBVIOUS
<1>1. CanWrite /\ state = "select" /\ UNCHANGED <<state, read_pos, writing>>
  BY DEF ReadSamples, AtSelect
<1>2. /\ chunk \in Seq(Nat) /\ Len(chunk) \in Nat /\ yielded \in 0 .. MaxSamples
      /\ yielded \in Nat /\ Passed = yielded - Len(chunk)
  BY <1>1, BuffersAssumption, ServerBoundsAssumption DEF SamplesInv, Passed, CanWrite
<1>3. CASE chunk # <<>>
  <2>1. CopySamples(chunk) /\ UNCHANGED yielded /\ Len(chunk) \in Nat \ {0}
    BY <1>2, <1>3 DEF ReadSamples
  <2>2. \A i \in 1 .. Len(chunk) : chunk[i] = Passed + i
    BY <1>2 DEF SamplesInv
  <2>. QED  BY <1>1, <1>2, <2>1, <2>2, CopySamplesInv
<1>4. CASE chunk = <<>>
  <2>1. PICK size \in ChunkSizes :
          /\ yielded + size <= MaxSamples
          /\ yielded' = yielded + size
          /\ CopySamples(Numbered(yielded + 1, yielded + size))
    BY <1>4 DEF ReadSamples
  <2>. DEFINE from == Numbered(yielded + 1, yielded + size)
  <2>2. size \in Nat \ {0} /\ Passed = yielded /\ MaxSamples \in Nat
    BY <1>2, <1>4, ChunksAssumption, ServerBoundsAssumption
  <2>3. from = [i \in 1 .. size |-> yielded + i]
    BY <1>2, <2>2 DEF Numbered
  <2>4. from \in Seq(Nat) /\ Len(from) = size /\ \A i \in 1 .. Len(from) : from[i] = Passed + i
    <3>1. /\ yielded \in Nat /\ size \in Nat /\ Passed = yielded
          /\ \A i \in 1 .. size : yielded + i \in Nat
      BY <1>2, <2>2
    <3>. QED  BY <2>3, <3>1
  <2>5. CopySamples(from)
    BY <2>1
  <2>. HIDE DEF from
  <2>6. /\ yielded' \in 0 .. MaxSamples /\ yielded <= yielded'
        /\ yielded' = Passed + Len(from) /\ Len(from) \in Nat \ {0}
    <3>1. yielded' = yielded + size /\ yielded + size <= MaxSamples /\ yielded \in Nat
      BY <1>2, <2>1
    <3>2. Len(from) = size
      BY <2>4
    <3>. QED  BY <2>2, <3>1, <3>2
  <2>7. state # "panicked"
    BY <1>1
  <2>. QED  BY <1>1, <2>4, <2>5, <2>6, <2>7, CopySamplesInv
<1>. QED  BY <1>3, <1>4

\* What SamplesInv says of the BufWriter and the wire.
LEMMA WriterFacts ==
  ASSUME SamplesInv, state = "select"
  PROVE  /\ wire \in Seq(Nat) /\ Len(wire) \in Nat
         /\ writer \in Seq(Nat) /\ Len(writer) \in Nat
         /\ write_pos \in Nat /\ read_pos \in Nat /\ read_pos <= write_pos
         /\ yielded \in Nat /\ Len(chunk) \in Nat
         /\ Passed \in Nat /\ Written = 2 * Passed /\ Written = Len(wire) + Len(writer)
         /\ Passed + (write_pos - read_pos) + Len(chunk) = yielded
         /\ \A i \in 1 .. Len(wire) : wire[i] = i
         /\ \A i \in 1 .. Len(writer) : writer[i] = Len(wire) + i
BY LenProperties, BuffersAssumption, ServerBoundsAssumption DEF SamplesInv, Passed, Written

\* The BufWriter writes its first bytes to the socket.
LEMMA FlushSomeInv ==
  ASSUME SamplesInv, state = "select", FlushSome, UNCHANGED <<samples, chunk, yielded>>
  PROVE  SamplesInv'
<1>1. PICK n \in 1 .. Len(writer) :
        /\ wire' = wire \o SubSeq(writer, 1, n)
        /\ writer' = SubSeq(writer, n + 1, Len(writer))
  BY DEF FlushSome
<1>2. UNCHANGED <<state, write_pos, read_pos, samples, chunk, yielded>>
  BY DEF FlushSome
<1>3. /\ wire \in Seq(Nat) /\ Len(wire) \in Nat
      /\ writer \in Seq(Nat) /\ Len(writer) \in Nat /\ n \in Nat /\ n <= Len(writer)
      /\ Len(writer) <= WriterCapacity /\ WriterCapacity \in Nat
      /\ \A i \in 1 .. Len(wire) : wire[i] = i
      /\ \A i \in 1 .. Len(writer) : writer[i] = Len(wire) + i
  <2>1. Len(writer) <= WriterCapacity
    BY DEF SamplesInv
  <2>. QED  BY <2>1, WriterFacts, BuffersAssumption
<1>4. n \in 0 .. Len(writer)
  BY <1>3
<1>5. /\ writer' \in Seq(Nat)
      /\ Len(writer') = Len(writer) - n
      /\ \A i \in 1 .. Len(writer') : writer'[i] = writer[n + i]
  <2>1. /\ SubSeq(writer, n + 1, Len(writer)) \in Seq(Nat)
        /\ Len(SubSeq(writer, n + 1, Len(writer))) = Len(writer) - n
        /\ \A i \in 1 .. Len(writer) - n :
             SubSeq(writer, n + 1, Len(writer))[i] = writer[n + i]
    BY <1>3, <1>4, Pieces
  <2>. QED  BY <1>1, <2>1
<1>6. /\ SubSeq(writer, 1, n) \in Seq(Nat)
      /\ Len(SubSeq(writer, 1, n)) = n
      /\ \A i \in 1 .. n : SubSeq(writer, 1, n)[i] = Len(wire) + i
  <2>1. \A i \in 1 .. n : i \in 1 .. Len(writer)
    BY <1>3
  <2>. QED  BY <1>3, <1>4, <2>1, Pieces
<1>7. /\ wire' \in Seq(Nat) /\ Len(wire') = Len(wire) + n
      /\ \A i \in 1 .. Len(wire') : wire'[i] = i
  <2>1. PICK next : next = SubSeq(writer, 1, n)
    OBVIOUS
  <2>. QED  BY <1>1, <1>3, <1>6, <2>1, WireGrows
<1>8. \A i \in 1 .. Len(writer') : writer'[i] = Len(wire') + i
  <2>. SUFFICES ASSUME NEW i \in 1 .. Len(writer')
                PROVE  writer'[i] = Len(wire') + i
    OBVIOUS
  <2>1. n + i \in 1 .. Len(writer) /\ writer'[i] = writer[n + i]
    BY <1>3, <1>5
  <2>2. writer[n + i] = Len(wire) + (n + i)
    BY <1>3, <2>1
  <2>3. i \in Nat /\ Len(wire') = Len(wire) + n
    BY <1>7
  <2>. QED  BY <1>3, <2>1, <2>2, <2>3
<1>9. Written' = Written
  BY <1>3, <1>5, <1>7 DEF Written
<1>10. Len(writer') <= WriterCapacity
  BY <1>3, <1>5
<1>. QED  BY <1>2, <1>5, <1>7, <1>8, <1>9, <1>10
          DEF SamplesInv, Passed, CanWrite, CanRead

\* confirm_read takes whole samples out of the buffer: all of them, or the first k.
LEMMA ConfirmReadFacts ==
  ASSUME SamplesInv, state = "select", CanRead,
         NEW n \in 1 .. 2 * (write_pos - read_pos), ConfirmRead(n)
  PROVE  \/ state' = "panicked" /\ UNCHANGED <<read_pos, write_pos>>
         \/ /\ state' = "select"
            /\ n = 2 * (write_pos - read_pos)
            /\ read_pos' = 0 /\ write_pos' = 0
         \/ /\ state' = "select"
            /\ \E k \in 1 .. (write_pos - read_pos) :
                 /\ k < write_pos - read_pos
                 /\ n = 2 * k
                 /\ read_pos' = read_pos + k /\ UNCHANGED write_pos
<1>1. write_pos \in Nat /\ read_pos \in Nat /\ read_pos < write_pos
  BY WriterFacts DEF CanRead
<1>2. CASE n % 2 = 1
  BY <1>2 DEF ConfirmRead
<1>3. CASE n % 2 # 1
  <2>. DEFINE k == n \div 2
  <2>1. n = 2 * k /\ k \in 1 .. (write_pos - read_pos)
    BY <1>1, <1>3
  <2>2. /\ IF read_pos + k = write_pos
           THEN read_pos' = 0 /\ write_pos' = 0
           ELSE read_pos' = read_pos + k /\ UNCHANGED write_pos
        /\ UNCHANGED state
    BY <1>3 DEF ConfirmRead, SamplesIn, StartsOver
  <2>. HIDE DEF k
  <2>3. CASE read_pos + k = write_pos
    <3>1. k = write_pos - read_pos
      BY <1>1, <2>1, <2>3
    <3>. QED  BY <2>1, <2>2, <2>3, <3>1
  <2>4. CASE read_pos + k # write_pos
    <3>1. k < write_pos - read_pos
      BY <1>1, <2>1, <2>4
    <3>. QED  BY <2>1, <2>2, <2>4, <3>1
  <2>. QED  BY <2>3, <2>4
<1>. QED  BY <1>2, <1>3

\* When bytes of the sample buffer have been handed on and are confirmed, the rest
\* of it still follows them, unless the connection ends in a panic.
LEMMA ConfirmedSamplesInv ==
  ASSUME SamplesInv, state = "select", CanRead, UNCHANGED <<samples, chunk, yielded>>,
         NEW n \in 1 .. 2 * (write_pos - read_pos), ConfirmRead(n),
         wire' \in Seq(Nat), writer' \in Seq(Nat), Written' = Written + n,
         Len(writer') <= WriterCapacity, state' = "panicked" \/ n % 2 = 0,
         \A i \in 1 .. Len(wire') : wire'[i] = i,
         \A i \in 1 .. Len(writer') : writer'[i] = Len(wire') + i
  PROVE  SamplesInv'
<1>1. /\ write_pos \in Nat /\ read_pos \in Nat /\ read_pos <= write_pos
      /\ yielded \in Nat /\ Len(chunk) \in Nat
      /\ Passed \in Nat /\ Written = 2 * Passed
      /\ Passed + (write_pos - read_pos) + Len(chunk) = yielded
  BY WriterFacts
<1>2. Written' <= 2 * yielded'
  BY <1>1
<1>3. CASE state' = "panicked" /\ UNCHANGED <<read_pos, write_pos>>
  BY <1>2, <1>3 DEF SamplesInv, Passed, CanWrite, CanRead
<1>4. CASE /\ state' = "select"
           /\ n = 2 * (write_pos - read_pos)
           /\ read_pos' = 0 /\ write_pos' = 0
  <2>1. Passed' = Passed + (write_pos - read_pos)
    BY <1>1, <1>4 DEF Passed
  <2>2. Written' = 2 * Passed'
    <3>1. Written' = 2 * Passed + 2 * (write_pos - read_pos)
      BY <1>1, <1>4
    <3>. QED  BY <1>1, <2>1, <3>1
  <2>3. /\ write_pos' \in 0 .. Capacity /\ read_pos' \in 0 .. write_pos' /\ CanWrite'
        /\ Len(chunk') + (write_pos' - read_pos') <= yielded'
    BY <1>1, <1>4, BuffersAssumption DEF CanWrite
  <2>4. \A i \in read_pos' .. write_pos' - 1 : samples'[i] = Passed' + (i - read_pos') + 1
    BY <1>4
  <2>. QED  BY <1>2, <2>2, <2>3, <2>4 DEF SamplesInv
<1>5. ASSUME NEW k \in 1 .. (write_pos - read_pos), state' = "select",
             k < write_pos - read_pos, n = 2 * k,
             read_pos' = read_pos + k, UNCHANGED write_pos
      PROVE  SamplesInv'
  <2>1. k \in Nat
    BY <1>1
  <2>2. Passed' = Passed + k
    BY <1>1, <1>5, <2>1 DEF Passed
  <2>3. Written' = 2 * Passed'
    BY <1>1, <1>5, <2>1, <2>2
  <2>4. /\ write_pos' \in 0 .. Capacity /\ read_pos' \in 0 .. write_pos' /\ CanRead'
        /\ Len(chunk') + (write_pos' - read_pos') <= yielded'
    <3>1. write_pos' \in 0 .. Capacity
      BY <1>5 DEF SamplesInv
    <3>. QED  BY <1>1, <1>5, <2>1, <3>1 DEF CanRead
  <2>5. \A i \in read_pos' .. write_pos' - 1 : samples'[i] = Passed' + (i - read_pos') + 1
    <3>1. \A i \in read_pos .. write_pos - 1 : samples[i] = Passed + (i - read_pos) + 1
      BY DEF SamplesInv
    <3>. QED  BY <1>1, <1>5, <2>1, <2>2, <3>1
  <2>. QED  BY <1>2, <1>5, <2>3, <2>4, <2>5 DEF SamplesInv
<1>. QED  BY <1>3, <1>4, <1>5, ConfirmReadFacts

\* What is written past the BufWriter, which is empty then, follows what is on the wire.
LEMMA WriteThroughInv ==
  ASSUME SamplesInv, state = "select", CanRead, WriteThrough,
         UNCHANGED <<samples, chunk, yielded>>
  PROVE  SamplesInv'
<1>1. PICK n \in 1 .. Len(Unread) :
        wire' = wire \o SubSeq(Unread, 1, n) /\ ConfirmRead(n)
  BY DEF WriteThrough
<1>2. /\ UNCHANGED writer
      /\ writer = <<>> \/ Len(writer) + Len(Unread) <= WriterCapacity
      /\ Len(Unread) >= WriterCapacity
  BY BuffersAssumption, WriterFacts, UnreadFacts DEF WriteThrough, MustFlush
<1>3. /\ wire \in Seq(Nat) /\ Len(wire) \in Nat
      /\ writer \in Seq(Nat) /\ Len(writer) \in Nat
      /\ \A i \in 1 .. Len(wire) : wire[i] = i
      /\ Written = Len(wire) + Len(writer)
      /\ write_pos \in Nat /\ read_pos \in Nat /\ read_pos <= write_pos
  BY WriterFacts
<1>4. /\ Unread \in Seq(Nat) /\ Len(Unread) \in Nat /\ n \in Nat /\ n <= Len(Unread)
      /\ \A i \in 1 .. Len(Unread) : Unread[i] = Written + i
      /\ n \in 1 .. 2 * (write_pos - read_pos)
  BY UnreadFacts, LenProperties
<1>5. Len(writer) = 0
  BY <1>2, <1>3, <1>4, BuffersAssumption
<1>6. /\ SubSeq(Unread, 1, n) \in Seq(Nat)
      /\ Len(SubSeq(Unread, 1, n)) = n
      /\ \A i \in 1 .. n : SubSeq(Unread, 1, n)[i] = Len(wire) + i
  <2>1. n \in 0 .. Len(Unread) /\ \A i \in 1 .. n : i \in 1 .. Len(Unread)
    BY <1>4
  <2>2. Written = Len(wire)
    BY <1>3, <1>5
  <2>. QED  BY <1>4, <2>1, <2>2, Pieces
<1>7. /\ wire' \in Seq(Nat) /\ Len(wire') = Len(wire) + n
      /\ \A i \in 1 .. Len(wire') : wire'[i] = i
  <2>1. PICK next : next = SubSeq(Unread, 1, n)
    OBVIOUS
  <2>. QED  BY <1>1, <1>3, <1>6, <2>1, WireGrows
<1>9. Written' = Written + n
  BY <1>2, <1>3, <1>4, <1>7 DEF Written
<1>10. state' = "panicked" \/ n % 2 = 0
  BY <1>1, <1>4 DEF ConfirmRead
<1>11. /\ writer' \in Seq(Nat) /\ Len(writer') <= WriterCapacity
       /\ \A i \in 1 .. Len(writer') : writer'[i] = Len(wire') + i
  BY <1>2, <1>3, <1>5, BuffersAssumption
<1>. QED  BY <1>1, <1>4, <1>7, <1>9, <1>10, <1>11, ConfirmedSamplesInv

\* What is copied into the BufWriter follows what is in it.
LEMMA WriteBufferedInv ==
  ASSUME SamplesInv, state = "select", CanRead, WriteBuffered,
         UNCHANGED <<samples, chunk, yielded>>
  PROVE  SamplesInv'
<1>1. /\ writer' = writer \o Unread /\ ConfirmRead(Len(Unread)) /\ UNCHANGED wire
  BY DEF WriteBuffered, Buffered
<1>2. /\ writer = <<>> \/ Len(writer) + Len(Unread) <= WriterCapacity
      /\ Len(Unread) < WriterCapacity
  BY BuffersAssumption, WriterFacts, UnreadFacts DEF WriteBuffered, MustFlush
<1>3. /\ wire \in Seq(Nat) /\ Len(wire) \in Nat
      /\ writer \in Seq(Nat) /\ Len(writer) \in Nat
      /\ \A i \in 1 .. Len(wire) : wire[i] = i
      /\ \A i \in 1 .. Len(writer) : writer[i] = Len(wire) + i
      /\ Written = Len(wire) + Len(writer)
      /\ write_pos \in Nat /\ read_pos \in Nat /\ read_pos < write_pos
  BY WriterFacts DEF CanRead
<1>4. /\ Unread \in Seq(Nat) /\ Len(Unread) \in Nat
      /\ \A i \in 1 .. Len(Unread) : Unread[i] = Written + i
  BY UnreadFacts, LenProperties
<1>5. /\ Len(Unread) \in 1 .. 2 * (write_pos - read_pos)
      /\ Len(Unread) % 2 = 0
  <2>1. Len(Unread) = 2 * (write_pos - read_pos)
    BY UnreadFacts
  <2>2. write_pos - read_pos \in Nat /\ write_pos - read_pos > 0
    BY <1>3
  <2>. QED  BY <2>1, <2>2
<1>6. /\ writer' \in Seq(Nat)
      /\ Len(writer') = Len(writer) + Len(Unread)
      /\ \A i \in 1 .. Len(writer') :
           writer'[i] = IF i <= Len(writer) THEN writer[i] ELSE Unread[i - Len(writer)]
  BY <1>1, <1>3, <1>4
<1>7. \A i \in 1 .. Len(writer') : writer'[i] = Len(wire) + i
  <2>. SUFFICES ASSUME NEW i \in 1 .. Len(writer') PROVE writer'[i] = Len(wire) + i
    OBVIOUS
  <2>1. CASE i <= Len(writer)
    <3>1. i \in 1 .. Len(writer) /\ writer'[i] = writer[i]
      BY <1>3, <1>6, <2>1
    <3>. QED  BY <1>3, <3>1
  <2>2. CASE ~(i <= Len(writer))
    <3>1. i - Len(writer) \in 1 .. Len(Unread)
      BY <1>3, <1>4, <1>6, <2>2
    <3>2. Unread[i - Len(writer)] = Written + (i - Len(writer))
      BY <1>4, <3>1
    <3>. QED  BY <1>3, <1>6, <2>2, <3>2
  <2>. QED  BY <2>1, <2>2
<1>8. Written' = Written + Len(Unread)
  BY <1>1, <1>3, <1>4, <1>6 DEF Written
<1>9. Len(writer') <= WriterCapacity
  BY <1>2, <1>3, <1>4, <1>6, BuffersAssumption
<1>. QED  BY <1>1, <1>3, <1>5, <1>6, <1>7, <1>8, <1>9, ConfirmedSamplesInv

----------------------------------------------------------------------------
(* Preservation of the invariant *)

\* Every step keeps what SamplesInv says.
LEMMA NextSamplesInv == Types /\ SamplesInv /\ [ServerNext]_serverVars => SamplesInv'
<1>. SUFFICES ASSUME Types, SamplesInv, [ServerNext]_serverVars PROVE SamplesInv'
  OBVIOUS
<1>1. CASE ReadSamples
  BY <1>1, ReadSamplesInv
<1>2. CASE Write
  BY <1>2, FlushSomeInv, WriteThroughInv, WriteBufferedInv DEF Write, AtSelect
<1>3. CASE CancelToken \/ ServeShutdown \/ Accept \/ AcceptFails \/ HandleAccept
  BY <1>3, SamplesUntouched
     DEF CancelToken, ServeShutdown, Accept, AcceptFails, HandleAccept, Types
<1>4. CASE PeerSends \/ PeerHangsUp \/ Shutdown \/ InputEnds \/ SocketFails \/ SamplesEnd
  BY <1>4, SamplesUntouched
     DEF PeerSends, PeerHangsUp, Shutdown, InputEnds, SocketFails, SamplesEnd, Close,
         AtSelect
<1>5. CASE ReadCommand \/ HandleCommand
  BY <1>5, SamplesUntouched DEF ReadCommand, HandleCommand, AtSelect
<1>6. CASE UNCHANGED serverVars
  BY <1>6, SamplesUntouched DEF serverVars
<1>. QED  BY <1>1, <1>2, <1>3, <1>4, <1>5, <1>6 DEF ServerNext

\* Every step keeps what CommandsInv says.
LEMMA NextCommandsInv == Types /\ CommandsInv /\ [ServerNext]_serverVars => CommandsInv'
<1>. SUFFICES ASSUME Types, CommandsInv, [ServerNext]_serverVars PROVE CommandsInv'
  OBVIOUS
<1>1. CASE ReadCommand
  BY <1>1, ReadCommandInv
<1>2. CASE PeerSends
  <2>1. input' \in 0 .. MaxInput /\ consumed \in 0 .. input'
    BY <1>2, ServerBoundsAssumption DEF PeerSends, CommandsInv
  <2>. QED  BY <1>2, <2>1 DEF PeerSends, CommandsInv, commandBuffer
<1>3. CASE Write
  <2>1. state = "select" /\ state' \in {"select", "panicked"}
        /\ UNCHANGED <<input, commandBuffer>>
    BY <1>3 DEF Write, AtSelect, FlushSome, WriteThrough, WriteBuffered, ConfirmRead, peer
  <2>. QED  BY <2>1, CommandsUntouched
<1>4. CASE CancelToken \/ ServeShutdown \/ Accept \/ AcceptFails \/ HandleAccept
  BY <1>4, CommandsUntouched
     DEF CancelToken, ServeShutdown, Accept, AcceptFails, HandleAccept, Types, peer
<1>5. CASE PeerHangsUp \/ Shutdown \/ InputEnds \/ SocketFails \/ SamplesEnd
  BY <1>5, CommandsUntouched
     DEF PeerHangsUp, Shutdown, InputEnds, SocketFails, SamplesEnd, Close, AtSelect, peer
<1>6. CASE HandleCommand \/ ReadSamples
  BY <1>6, CommandsUntouched DEF HandleCommand, ReadSamples, AtSelect, peer
<1>7. CASE UNCHANGED serverVars
  BY <1>7, CommandsUntouched DEF serverVars, peer
<1>. QED  BY <1>1, <1>2, <1>3, <1>4, <1>5, <1>6, <1>7 DEF ServerNext

\* The connection is in one of its states, and waits for the backend if serve() does.
LEMMA NextTypes == Types /\ [ServerNext]_serverVars => Types'
<1>. SUFFICES ASSUME Types, [ServerNext]_serverVars PROVE Types'
  OBVIOUS
<1>1. CASE CancelToken \/ ServeShutdown \/ Accept \/ AcceptFails \/ HandleAccept
  BY <1>1 DEF CancelToken, ServeShutdown, Accept, AcceptFails, HandleAccept, Types,
     ServingStates, States, peer, sampling, writing
<1>2. CASE PeerSends \/ PeerHangsUp \/ Shutdown \/ InputEnds \/ SocketFails \/ SamplesEnd
  BY <1>2 DEF PeerSends, PeerHangsUp, Shutdown, InputEnds, SocketFails, SamplesEnd, Close,
     AtSelect, Types, States, server, peer, sampling, writing
<1>3. CASE ReadCommand \/ HandleCommand \/ ReadSamples
  BY <1>3 DEF ReadCommand, HandleCommand, ReadSamples, AtSelect, Types, States, server,
     peer, sampling, writing
<1>4. CASE Write
  <2>1. state = "select" /\ UNCHANGED <<server, peer>>
    BY <1>4 DEF Write, AtSelect
  <2>2. state' \in {"select", "panicked"} /\ flushing' \in BOOLEAN
    <3>1. CASE FlushSome
      BY <2>1, <3>1 DEF FlushSome
    <3>2. CASE WriteThrough \/ WriteBuffered
      BY <2>1, <3>2 DEF WriteThrough, WriteBuffered, ConfirmRead, Types
    <3>. QED  BY <1>4, <3>1, <3>2 DEF Write
  <2>. QED  BY <2>1, <2>2 DEF Types, States, server, peer
<1>5. CASE UNCHANGED serverVars
  BY <1>5 DEF serverVars, Types, server, peer, sampling, writing
<1>. QED  BY <1>1, <1>2, <1>3, <1>4, <1>5 DEF ServerNext

----------------------------------------------------------------------------
(* The theorems *)

\* The invariant holds in every reachable state.
THEOREM ServerInvariance == ServerSpec => []ServerInv
<1>1. ServerInv /\ [ServerNext]_serverVars => ServerInv'
  BY NextTypes, NextCommandsInv, NextSamplesInv DEF ServerInv
<1>. QED  BY <1>1, InitServerInv, PTL DEF ServerSpec

\* However commands are cut into pieces and whatever runs in between, the backend is
\* handed the commands that the peer sent, each from its own bytes.
THEOREM CommandsArriveAsSent == ServerSpec => []CommandsAsSent
<1>1. ServerInv => CommandsAsSent
  BY DEF ServerInv, CommandsInv, CommandsAsSent
<1>. QED  BY <1>1, ServerInvariance, PTL

\* forward_samples never finds its buffer neither readable nor writable.
THEOREM SampleBufferIsUsable == ServerSpec => []SampleBufferUsable
<1>1. ServerInv => SampleBufferUsable
  BY DEF ServerInv, SamplesInv, SampleBufferUsable
<1>. QED  BY <1>1, ServerInvariance, PTL

\* A sequence whose elements are in a set is one over that set.
LEMMA SeqOfElements ==
  ASSUME NEW S, NEW T, NEW s \in Seq(S), \A i \in 1 .. Len(s) : s[i] \in T
  PROVE  s \in Seq(T)
OBVIOUS

\* Every variable keeps its type, and every buffer its size.
THEOREM ServerTypes == ServerSpec => []ServerTypeOK
<1>1. ASSUME ServerInv PROVE ServerTypeOK
  <2>1. Types /\ CommandsInv /\ SamplesInv
    BY <1>1 DEF ServerInv
  <2>2. /\ wire \in Seq(Nat) /\ writer \in Seq(Nat) /\ chunk \in Seq(Nat)
        /\ Len(wire) \in Nat /\ Len(writer) \in Nat /\ Len(chunk) \in Nat
        /\ \A i \in 1 .. Len(wire) : wire[i] = i
        /\ \A i \in 1 .. Len(writer) : writer[i] = Len(wire) + i
        /\ \A i \in 1 .. Len(chunk) : chunk[i] = yielded - Len(chunk) + i
    BY <2>1, LenProperties DEF SamplesInv
  <2>3. /\ yielded \in Nat /\ MaxSamples \in Nat /\ yielded <= MaxSamples
        /\ Len(wire) + Len(writer) <= 2 * yielded
        /\ Len(chunk) <= yielded
    BY <2>1, <2>2, BuffersAssumption, ServerBoundsAssumption DEF SamplesInv, Written
  <2>4. Len(wire) + Len(writer) <= 2 * MaxSamples
    BY <2>2, <2>3
  <2>5. \A i \in 1 .. Len(wire) : wire[i] \in 1 .. 2 * MaxSamples
    BY <2>2, <2>3, <2>4
  <2>6. \A i \in 1 .. Len(writer) : writer[i] \in 1 .. 2 * MaxSamples
    BY <2>2, <2>3, <2>4
  <2>7. \A i \in 1 .. Len(chunk) : chunk[i] \in 1 .. MaxSamples
    BY <2>2, <2>3
  <2>8. /\ wire \in Seq(1 .. 2 * MaxSamples) /\ writer \in Seq(1 .. 2 * MaxSamples)
        /\ chunk \in Seq(1 .. MaxSamples)
    BY <2>2, <2>5, <2>6, <2>7, SeqOfElements
  <2>. QED  BY <2>1, <2>8 DEF Types, CommandsInv, SamplesInv, ServerTypeOK
<1>. QED  BY <1>1, ServerInvariance, PTL

\* Numbered sequences that follow each other are one.
LEMMA NumberedConcat ==
  ASSUME NEW a \in Nat, NEW s, s = Numbered(1, a),
         NEW t \in Seq(Nat), \A i \in 1 .. Len(t) : t[i] = a + i
  PROVE  s \o t = Numbered(1, a + Len(t))
<1>1. s = [i \in 1 .. a |-> i]
  BY DEF Numbered
<1>2. s \in Seq(Nat) /\ Len(s) = a /\ \A i \in 1 .. a : s[i] = i
  BY <1>1
<1>3. Len(t) \in Nat
  BY LenProperties
<1>4. /\ s \o t \in Seq(Nat) /\ Len(s \o t) = a + Len(t)
      /\ \A i \in 1 .. a + Len(t) : (s \o t)[i] = i
  <2>1. /\ s \o t \in Seq(Nat) /\ Len(s \o t) = Len(s) + Len(t)
        /\ \A i \in 1 .. Len(s) + Len(t) :
             (s \o t)[i] = IF i <= Len(s) THEN s[i] ELSE t[i - Len(s)]
    BY <1>2, ConcatProperties
  <2>2. ASSUME NEW i \in 1 .. a + Len(t) PROVE (s \o t)[i] = i
    <3>1. CASE i <= a
      BY <1>2, <1>3, <2>1, <3>1
    <3>2. CASE ~(i <= a)
      <4>1. i - a \in 1 .. Len(t)
        BY <1>3, <3>2
      <4>2. t[i - a] = a + (i - a)
        BY <4>1
      <4>. QED  BY <1>2, <1>3, <2>1, <3>2, <4>2
    <3>. QED  BY <3>1, <3>2
  <2>. QED  BY <1>2, <2>1, <2>2
<1>. DEFINE u == [i \in 1 .. a + Len(t) |-> i]
<1>5. u \in Seq(Nat) /\ Len(u) = a + Len(t) /\ \A i \in 1 .. a + Len(t) : u[i] = i
  BY <1>3
<1>6. s \o t = u
  BY <1>4, <1>5, SeqEqual
<1>7. Numbered(1, a + Len(t)) = u
  BY <1>3 DEF Numbered
<1>. QED  BY <1>6, <1>7

\* The sample that byte i of a chunk belongs to: IqSamples are pairs, so it is i / 2
\* rounded up, and an odd byte is the first of its pair.
LEMMA HalfRoundedUp == \A i \in Int : 2 * ((i + 1) \div 2) = i + (i % 2) /\ i % 2 \in Int
  BY SMT

\* No sample is lost, repeated or moved, however the socket cuts up what is written
\* and wherever the select! drops a write: the peer gets a prefix of the samples
\* yielded, and the rest is in the buffers.
THEOREM SamplesArriveAsYielded == ServerSpec => []SamplesAsYielded
<1>1. ASSUME ServerInv PROVE SamplesAsYielded
  <2>1. SamplesInv
    BY <1>1 DEF ServerInv
  <2>2. /\ wire \in Seq(Nat) /\ writer \in Seq(Nat) /\ chunk \in Seq(Nat)
        /\ Len(wire) \in Nat /\ Len(writer) \in Nat /\ Len(chunk) \in Nat
        /\ \A i \in 1 .. Len(wire) : wire[i] = i
        /\ \A i \in 1 .. Len(writer) : writer[i] = Len(wire) + i
        /\ \A i \in 1 .. Len(chunk) : chunk[i] = yielded - Len(chunk) + i
    BY <2>1, LenProperties DEF SamplesInv
  <2>3. wire = Numbered(1, Len(wire))
    <3>. DEFINE u == [i \in 1 .. Len(wire) |-> i]
    <3>1. u \in Seq(Nat) /\ Len(u) = Len(wire) /\ \A i \in 1 .. Len(wire) : u[i] = i
      BY <2>2
    <3>2. wire = u
      BY <2>2, <3>1, SeqEqual
    <3>. QED  BY <2>2, <3>2 DEF Numbered
  <2>4. ASSUME state \in {"select", "handling"}
        PROVE  wire \o writer \o Unread
                 \o [i \in 1 .. 2 * Len(chunk) |-> 2 * chunk[(i + 1) \div 2] - (i % 2)]
               = Numbered(1, 2 * yielded)
    <3>. DEFINE rest ==
           [i \in 1 .. 2 * Len(chunk) |-> 2 * chunk[(i + 1) \div 2] - (i % 2)]
    <3>1. /\ Unread \in Seq(Nat) /\ Len(Unread) = 2 * (write_pos - read_pos)
          /\ \A i \in 1 .. Len(Unread) : Unread[i] = Written + i
      BY <2>1, <2>4, UnreadFacts
    <3>2. /\ yielded \in Nat /\ write_pos \in Nat /\ read_pos \in Nat /\ read_pos <= write_pos
          /\ Len(chunk) + (write_pos - read_pos) <= yielded
          /\ Written = 2 * Passed
      BY <2>1, <2>4, BuffersAssumption, ServerBoundsAssumption DEF SamplesInv
    <3>3. Written = Len(wire) + Len(writer) /\ Written \in Nat
      BY <2>2 DEF Written
    <3>4. Written + Len(Unread) = 2 * (yielded - Len(chunk))
      BY <2>2, <3>1, <3>2 DEF Passed
    <3>5. wire \o writer = Numbered(1, Written)
      BY <2>2, <2>3, <3>3, NumberedConcat
    <3>6. wire \o writer \o Unread = Numbered(1, Written + Len(Unread))
      BY <3>1, <3>3, <3>5, NumberedConcat
    <3>7. /\ rest \in Seq(Nat) /\ Len(rest) = 2 * Len(chunk)
          /\ \A i \in 1 .. Len(rest) : rest[i] = 2 * (yielded - Len(chunk)) + i
      <4>1. ASSUME NEW i \in 1 .. 2 * Len(chunk)
            PROVE  2 * chunk[(i + 1) \div 2] - (i % 2) = 2 * (yielded - Len(chunk)) + i
        <5>1. (i + 1) \div 2 \in 1 .. Len(chunk)
          BY <2>2
        <5>2. chunk[(i + 1) \div 2] = yielded - Len(chunk) + (i + 1) \div 2
          BY <2>2, <5>1
        <5>0. yielded - Len(chunk) \in Int
          BY <2>2, <3>2
        <5>3. PICK p \in Int : p = yielded - Len(chunk)
          BY <5>0, Zenon
        <5>4. PICK c \in Int : c = chunk[(i + 1) \div 2]
          BY <2>2, <5>1
        <5>5. c = p + (i + 1) \div 2
          BY <5>2, <5>3, <5>4
        <5>6. 2 * c - (i % 2) = 2 * p + i
          BY <5>5, HalfRoundedUp
        <5>. QED  BY <5>3, <5>4, <5>6
      <4>2. \A i \in 1 .. 2 * Len(chunk) : 2 * (yielded - Len(chunk)) + i \in Nat
        BY <2>2, <3>2
      <4>3. rest = [i \in 1 .. 2 * Len(chunk) |-> 2 * (yielded - Len(chunk)) + i]
        BY <4>1
      <4>. HIDE DEF rest
      <4>. QED  BY <2>2, <4>2, <4>3
    <3>. HIDE DEF rest
    <3>8. 2 * (yielded - Len(chunk)) \in Nat
          /\ 2 * (yielded - Len(chunk)) + 2 * Len(chunk) = 2 * yielded
      BY <2>2, <3>2
    <3>9. (wire \o writer \o Unread) \o rest
            = Numbered(1, 2 * (yielded - Len(chunk)) + Len(rest))
      BY <3>4, <3>6, <3>7, <3>8, NumberedConcat
    <3>. QED  BY <3>7, <3>8, <3>9 DEF rest
  <2>. QED  BY <2>3, <2>4 DEF SamplesAsYielded
<1>. QED  BY <1>1, ServerInvariance, PTL

=============================================================================
