--------------------------- MODULE SamplingProofs ---------------------------
(***************************************************************************)
(* Proofs about the sampling pipeline, for any number of handles, streams, *)
(* modes and rates.  Every step of it is a step of the buffer queue or     *)
(* leaves the queue alone, so that whatever BufferQueueProofs proves holds *)
(* of the pipeline, too.  And the memory of a chunk is never read into     *)
(* again as long as somebody can see it.                                   *)
(***************************************************************************)
EXTENDS Sampling, BufferQueueProofs

----------------------------------------------------------------------------
(* The pipeline is a buffer queue. *)

\* Every action of the pipeline is an operation of the queue, or none.
LEMMA SamplingStepIsQueueStep == [SamplingNext]_samplingVars => [Next]_vars
<1>. SUFFICES ASSUME [SamplingNext]_samplingVars PROVE [Next]_vars
  OBVIOUS
<1>1. CASE Swap \/ ReadToBuffer \/ ReadFails \/ ReaderThreadExits
  BY <1>1 DEF Swap, ReadToBuffer, ReadFails, ReaderThreadExits, Next
<1>2. CASE \E hz \in Rates : SetSampleRate(hz)
  BY <1>2 DEF SetSampleRate
<1>3. CASE \E m \in Modes : ConfigureAbandoned(m)
  BY <1>3 DEF ConfigureAbandoned, SetDirectSampling
<1>4. ASSUME NEW s \in Subscribers, NEW m \in Modes,
             Configure(s, m) \/ Abandon(s) \/ OpenStream(s)
               \/ CloneRtlSdr(s) \/ DropRtlSdr(s)
      PROVE  [Next]_vars
  BY <1>4 DEF Configure, SetDirectSampling, Abandon, OpenStream, CloneRtlSdr,
              DropRtlSdr, Next
<1>5. ASSUME NEW r \in Receivers, CloneSamples(r) \/ DropSamples(r) \/ PollSamples(r)
      PROVE  [Next]_vars
  BY <1>5 DEF CloneSamples, DropSamples, PollSamples, Next
<1>6. CASE \E n \in Numbers : DropChunk(n)
  BY <1>6 DEF DropChunk
<1>7. CASE UNCHANGED samplingVars
  BY <1>7 DEF samplingVars
<1>8. Modes # {}
  BY DEF Modes
<1>. QED  BY <1>1, <1>2, <1>3, <1>4, <1>5, <1>6, <1>7, <1>8 DEF SamplingNext

\* The pipeline of sampling.rs and lib.rs uses the queue as its specification says.
THEOREM SamplingIsQueue == SamplingSpec => Spec
<1>1. SamplingInit => Init
  BY DEF SamplingInit
<1>. QED  BY <1>1, SamplingStepIsQueueStep, PTL DEF SamplingSpec, Spec

\* Streams and the reader thread get what LossyBroadcast promises: every stream is
\* handed the buffers read since it was created, in order, and loses only those
\* that it was too late for.
THEOREM SamplingBroadcasts == SamplingSpec => BroadcastSpec
BY SamplingIsQueue, Refinement, PTL

----------------------------------------------------------------------------
(* Types. *)

\* What the types rest on besides SamplingTypeOK and the queue's own.
SamplingInv ==
  /\ IInv
  /\ SamplingTypeOK
  /\ tail_pos <= fills /\ fills <= MaxFills
  /\ recycled # NoBuffer => recycled = head_pos

\* A step of the queue keeps its invariant.
LEMMA QueueInvKept == IInv /\ [SamplingNext]_samplingVars => IInv'
BY SamplingStepIsQueueStep, NextIInv

\* The initial state is one that the invariant allows.
LEMMA InitSamplingInv == SamplingInit => SamplingInv
<1>. SUFFICES ASSUME SamplingInit PROVE SamplingInv
  OBVIOUS
<1>1. IInv
  BY InitIInv DEF SamplingInit
<1>2. SamplingTypeOK
  BY BoundsAssumption
     DEF SamplingInit, SamplingTypeOK, Init, Tags, Modes, DefaultTag, NoData, NoBuffer,
         Numbers, Receivers, NoCall
<1>. QED  BY <1>1, <1>2, BoundsAssumption DEF SamplingInv, SamplingInit, Init, NoBuffer

\* What is taken out of a full queue is the buffer at its head, and the new head
\* is its number.
LEMMA OldestIsHead ==
  ASSUME IInv, AtCapacity(Pushed), sender \in {"swapping", "waiting"}
  PROVE  /\ Head(Pushed) = head_pos + 1
         /\ Head(Pushed) \in 1 .. fills
<1>1. /\ slots \in Seq(Nat) /\ head_pos \in Nat /\ tail_pos \in Nat
      /\ push_buffer \in Nat /\ Len(slots) \in Nat /\ fills \in Nat
  BY DEF IInv, TypeOK
<1>2. Len(slots) = tail_pos - head_pos
  BY DEF IInv, SlotsAreNewestBuffers
<1>3. \A n \in 1 .. Len(slots) : slots[n] = head_pos + n
  BY DEF IInv, SlotsAreNewestBuffers
<1>4. push_buffer # NoBuffer => push_buffer = tail_pos + 1
  BY DEF IInv, SlotsAreNewestBuffers
<1>5. Len(Pushed) = Capacity
  BY DEF AtCapacity
<1>6. CASE Len(slots) = 0
  <2>1. push_buffer # NoBuffer /\ slots = <<>>
    BY <1>1, <1>5, <1>6, CapacityAssumption DEF Pushed
  <2>2. Head(Pushed) = push_buffer
    BY <1>1, <2>1 DEF Pushed
  <2>3. Head(Pushed) = head_pos + 1
    BY <1>1, <1>2, <1>4, <1>6, <2>1, <2>2
  <2>4. fills = tail_pos + 1
    BY <2>1 DEF IInv, NothingSkipped
  <2>. QED  BY <1>1, <1>2, <1>6, <2>3, <2>4
<1>7. CASE Len(slots) # 0
  <2>1. Head(Pushed) = slots[1]
    BY <1>1, <1>7 DEF Pushed
  <2>2. Head(Pushed) = head_pos + 1
    BY <1>1, <1>3, <1>7, <2>1
  <2>3. fills = tail_pos \/ fills = tail_pos + 1
    BY DEF IInv, NothingSkipped
  <2>. QED  BY <1>1, <1>2, <1>7, <2>2, <2>3
<1>. QED  BY <1>6, <1>7

\* Steps of users change no field that belongs to the reader thread.
LEMMA ReaderUntouched ==
  ASSUME SamplingInv, IInv',
         UNCHANGED <<fills, recycled, head_pos, tail_pos, sender, buffers>>,
         rate' \in {0} \cup Rates, mode' \in Modes, held' \subseteq Numbers,
         call' \in [Subscribers -> {NoCall} \cup Modes],
         kind' \in [Receivers -> Modes],
         stream' \in [Receivers -> {"open", "switched"}],
         since' \in [Receivers -> SUBSET Modes],
         first' \in [Receivers -> Nat]
  PROVE  SamplingInv'
BY DEF SamplingInv, SamplingTypeOK, NoBuffer, Numbers, Tags

\* swap_buffers returns the oldest buffer, if the queue is full.
LEMMA SwapSamplingInv == SamplingInv /\ Swap /\ IInv' => SamplingInv'
<1>. SUFFICES ASSUME SamplingInv, Swap, IInv' PROVE SamplingInv'
  OBVIOUS
<1>1. SwapBuffers /\ UNCHANGED fills
  BY DEF Swap, SwapBuffers
<1>2. sender \in {"swapping", "waiting"}
  BY <1>1 DEF SwapBuffers
<1>3. tail_pos' <= fills'
  <2>1. CASE sender' \in {"waiting", "filling"}
    <3>1. /\ fills' = tail_pos' \/ fills' = tail_pos' + 1
          /\ tail_pos' \in Nat
      BY <2>1 DEF IInv, NothingSkipped, TypeOK
    <3>. QED  BY <3>1
  <2>2. CASE ReturnNone
    BY <1>1, <2>2 DEF ReturnNone, positions, SamplingInv
  <2>. QED  BY <1>1, <2>1, <2>2 DEF SwapBuffers, AwaitReceivers, Exchange
<1>4. CASE recycled' = NoBuffer
  BY <1>1, <1>3, <1>4 DEF SamplingInv, SamplingTypeOK, Swap, device, streams, NoBuffer
<1>5. CASE recycled' # NoBuffer
  <2>1. sender' = "filling" /\ AtCapacity(Pushed) /\ recycled' = Head(Pushed)
    BY <1>5 DEF Swap
  <2>2. Exchange
    BY <1>1, <2>1 DEF SwapBuffers, ReturnNone, AwaitReceivers
  <2>3. head_pos' = head_pos + 1
    BY <2>1, <2>2 DEF Exchange
  <2>4. recycled' = head_pos' /\ recycled' \in 1 .. fills
    BY <1>2, <2>1, <2>3, OldestIsHead DEF SamplingInv
  <2>5. fills \in Nat /\ MaxFills \in Nat
    BY BoundsAssumption DEF SamplingInv, IInv, TypeOK
  <2>6. recycled' \in Numbers
    BY <2>4, <2>5 DEF SamplingInv, Numbers
  <2>. QED  BY <1>1, <1>3, <2>1, <2>4, <2>6
            DEF SamplingInv, SamplingTypeOK, Swap, device, streams, NoBuffer
<1>. QED  BY <1>4, <1>5

\* The memory of a buffer has a number that was given out before.
LEMMA MemoryType ==
  ASSUME SamplingInv, fills < MaxFills
  PROVE  Memory \in 0 .. MaxFills
<1>1. fills \in Nat /\ MaxFills \in Nat
  BY BoundsAssumption DEF SamplingInv, IInv, TypeOK
<1>2. recycled # NoBuffer => recycled \in Numbers
  BY DEF SamplingInv, SamplingTypeOK, NoBuffer
<1>3. recycled # NoBuffer => buffers[recycled].memory \in 0 .. MaxFills
  BY <1>2 DEF SamplingInv, SamplingTypeOK
<1>. QED  BY <1>1, <1>3 DEF Memory

\* What the reader thread writes is a buffer.
LEMMA ReadSamplingInv == SamplingInv /\ ReadToBuffer /\ IInv' => SamplingInv'
<1>. SUFFICES ASSUME SamplingInv, ReadToBuffer, IInv' PROVE SamplingInv'
  OBVIOUS
<1>1. /\ fills' = fills + 1 /\ fills < MaxFills /\ sender' = "swapping"
      /\ recycled' = NoBuffer
  BY DEF ReadToBuffer, Fill
<1>2. fills \in Nat /\ MaxFills \in Nat /\ tail_pos \in Nat /\ UNCHANGED tail_pos
  BY BoundsAssumption DEF SamplingInv, IInv, TypeOK, ReadToBuffer, Fill, positions
<1>3. Memory \in 0 .. MaxFills
  BY <1>1, MemoryType
<1>4. Tag \in Tags /\ [rate |-> rate, mode |-> mode] \in Tags
  BY DEF Tag, Tags, DefaultTag, Modes, SamplingInv, SamplingTypeOK
<1>5. buffers' = [buffers EXCEPT ![fills + 1] =
                   [tag |-> Tag, truth |-> [rate |-> rate, mode |-> mode],
                    memory |-> Memory]]
  BY DEF ReadToBuffer
<1>6. buffers' \in [Numbers -> [tag : Tags, truth : Tags, memory : 0 .. MaxFills]]
  BY <1>3, <1>4, <1>5 DEF SamplingInv, SamplingTypeOK
<1>7. UNCHANGED <<rate, mode, held, call, kind, stream, since, first>>
  BY DEF ReadToBuffer, device, streams
<1>. QED  BY <1>1, <1>2, <1>6, <1>7 DEF SamplingInv, SamplingTypeOK, NoBuffer

\* What a receiver is handed is in the slots, and was filled before.
LEMMA ItemSeen ==
  ASSUME SamplingInv, NEW r \in Receivers, Poll(r), item' # item
  PROVE  /\ item'[r] \in InSlots
         /\ item'[r] \in 1 .. fills
         /\ item'[r] \in Numbers
<1>1. PollReady(r)
  BY DEF Poll, PollEnded, PollPending
<1>2. /\ CaughtUp(r) \in Nat /\ head_pos <= CaughtUp(r) /\ CaughtUp(r) < tail_pos
      /\ slots[CaughtUp(r) - head_pos + 1] = CaughtUp(r) + 1
  BY <1>1, CaughtUpFacts DEF SamplingInv, PollReady
<1>3. item'[r] = CaughtUp(r) + 1 /\ item'[r] = slots[CaughtUp(r) - head_pos + 1]
  BY <1>1, <1>2 DEF PollReady, SamplingInv, IInv, TypeOK
<1>4. /\ head_pos \in Nat /\ tail_pos \in Nat /\ fills \in Nat /\ MaxFills \in Nat
      /\ Len(slots) = tail_pos - head_pos
  BY BoundsAssumption DEF SamplingInv, IInv, TypeOK, SlotsAreNewestBuffers
<1>5. CaughtUp(r) - head_pos + 1 \in 1 .. Len(slots)
  BY <1>2, <1>4
<1>6. tail_pos <= fills /\ fills <= MaxFills
  BY DEF SamplingInv
<1>. QED  BY <1>2, <1>3, <1>4, <1>5, <1>6 DEF InSlots, Numbers

\* Every step keeps the invariant.
LEMMA NextSamplingInv == SamplingInv /\ [SamplingNext]_samplingVars => SamplingInv'
<1>. SUFFICES ASSUME SamplingInv, [SamplingNext]_samplingVars PROVE SamplingInv'
  OBVIOUS
<1>0. IInv'
  BY QueueInvKept DEF SamplingInv
<1>1. CASE Swap
  BY <1>0, <1>1, SwapSamplingInv
<1>2. CASE ReadToBuffer
  BY <1>0, <1>2, ReadSamplingInv
<1>3. CASE ReadFails
  BY <1>0, <1>3 DEF ReadFails, FillFails, positions, device, streams, SamplingInv,
     SamplingTypeOK, NoBuffer
<1>4. CASE ReaderThreadExits
  BY <1>0, <1>4 DEF ReaderThreadExits, DropSender, positions, device, streams, SamplingInv,
     SamplingTypeOK, NoBuffer
<1>5. ASSUME NEW hz \in Rates, SetSampleRate(hz) PROVE SamplingInv'
  BY <1>0, <1>5, ReaderUntouched DEF SetSampleRate, vars, positions, producer, streams,
     SamplingInv, SamplingTypeOK
<1>6. ASSUME NEW m \in Modes, SetDirectSampling(m),
             call' \in [Subscribers -> {NoCall} \cup Modes]
      PROVE  SamplingInv'
  <2>1. since' \in [Receivers -> SUBSET Modes]
    BY <1>6 DEF SetDirectSampling, SamplingInv, SamplingTypeOK
  <2>. QED  BY <1>0, <1>6, <2>1, ReaderUntouched
            DEF SetDirectSampling, vars, positions, producer, SamplingInv, SamplingTypeOK
<1>7. ASSUME NEW s \in Subscribers, NEW m \in Modes, Configure(s, m) PROVE SamplingInv'
  BY <1>6, <1>7 DEF Configure, SamplingInv, SamplingTypeOK
<1>8. ASSUME NEW m \in Modes, ConfigureAbandoned(m) PROVE SamplingInv'
  BY <1>6, <1>8 DEF ConfigureAbandoned, SamplingInv, SamplingTypeOK
<1>9. ASSUME NEW s \in Subscribers, Abandon(s) PROVE SamplingInv'
  BY <1>0, <1>9, ReaderUntouched DEF Abandon, vars, positions, producer, device, streams,
     SamplingInv, SamplingTypeOK
<1>10. ASSUME NEW s \in Subscribers, OpenStream(s) PROVE SamplingInv'
  <2>1. UNCHANGED <<fills, head_pos, tail_pos, sender>>
    BY <1>10 DEF OpenStream, NewReceiver, AddReceiver, positions, producer
  <2>2. call[s] \in Modes /\ tail_pos + 1 \in Nat
    BY <1>10 DEF OpenStream, SamplingInv, SamplingTypeOK, IInv, TypeOK
  <2>. QED  BY <1>0, <1>10, <2>1, <2>2, ReaderUntouched
            DEF OpenStream, device, SamplingInv, SamplingTypeOK
<1>11. ASSUME NEW s \in Subscribers, CloneRtlSdr(s) \/ DropRtlSdr(s) PROVE SamplingInv'
  BY <1>0, <1>11, ReaderUntouched DEF CloneRtlSdr, DropRtlSdr, CloneSubscriber,
     DropSubscriber, positions, producer, device, streams, SamplingInv, SamplingTypeOK
<1>12. ASSUME NEW r \in Receivers, CloneSamples(r) PROVE SamplingInv'
  <2>1. UNCHANGED <<fills, head_pos, tail_pos, sender>>
    BY <1>12 DEF CloneSamples, CloneReceiver, AddReceiver, positions, producer
  <2>. QED  BY <1>0, <1>12, <2>1, ReaderUntouched
            DEF CloneSamples, device, SamplingInv, SamplingTypeOK
<1>13. ASSUME NEW r \in Receivers, DropSamples(r) PROVE SamplingInv'
  <2>1. UNCHANGED <<fills, head_pos, tail_pos, sender>>
    BY <1>13 DEF DropSamples, DropReceiver, positions, producer
  <2>. QED  BY <1>0, <1>13, <2>1, ReaderUntouched
            DEF DropSamples, device, SamplingInv, SamplingTypeOK, Modes
<1>14. ASSUME NEW r \in Receivers, PollSamples(r) PROVE SamplingInv'
  <2>1. UNCHANGED <<fills, head_pos, tail_pos, sender>>
    BY <1>14 DEF PollSamples, Poll, positions, producer
  <2>2. held' \subseteq Numbers
    BY <1>14, ItemSeen DEF PollSamples, SamplingInv, SamplingTypeOK
  <2>. QED  BY <1>0, <1>14, <2>1, <2>2, ReaderUntouched
            DEF PollSamples, device, SamplingInv, SamplingTypeOK
<1>15. ASSUME NEW n \in Numbers, DropChunk(n) PROVE SamplingInv'
  BY <1>0, <1>15, ReaderUntouched DEF DropChunk, vars, positions, producer, device, streams,
     SamplingInv, SamplingTypeOK
<1>16. CASE UNCHANGED samplingVars
  BY <1>0, <1>16, ReaderUntouched DEF samplingVars, vars, positions, producer, device,
     streams, SamplingInv, SamplingTypeOK
<1>. QED  BY <1>1, <1>2, <1>3, <1>4, <1>5, <1>7, <1>8, <1>9, <1>10, <1>11, <1>12, <1>13,
             <1>14, <1>15, <1>16 DEF SamplingNext

\* The invariant holds in every reachable state.
THEOREM SamplingInvariance == SamplingSpec => []SamplingInv
BY InitSamplingInv, NextSamplingInv, PTL DEF SamplingSpec

\* Every variable of the pipeline keeps its type, and the reader thread never holds
\* on to an old buffer but while it reads.
THEOREM SamplingTypes == SamplingSpec => []SamplingTypeOK
<1>1. SamplingInv => SamplingTypeOK
  BY DEF SamplingInv
<1>. QED  BY <1>1, SamplingInvariance, PTL

----------------------------------------------------------------------------
(* The memory of buffers. *)

\* The buffers whose samples matter: the reader thread has not yet decided whether
\* it will reuse the memory of the recycled one.
Visible == (held \cup InSlots \cup {push_buffer, recycled}) \ {NoBuffer}

\* NoChunkOverwritten is not inductive: nothing in it keeps the memory of the buffer
\* that is about to be reclaimed apart from that of the buffers in the slots.  Here
\* that buffer is visible, too, and memory is named after a buffer filled before.
MemoryInv ==
  /\ \A n \in 1 .. fills : buffers[n].memory \in 1 .. n
  /\ Visible \subseteq 1 .. fills
  /\ \A n \in Visible : \A later \in (n + 1) .. fills :
       buffers[later].memory # buffers[n].memory

\* No buffer is filled in the initial state.
LEMMA InitMemoryInv == SamplingInit => MemoryInv
BY DEF SamplingInit, Init, MemoryInv, Visible, InSlots, NoBuffer

\* A step that fills no buffer keeps the invariant, if what is visible after it was
\* visible before.
LEMMA NothingFilled ==
  ASSUME MemoryInv, UNCHANGED <<fills, buffers>>, Visible' \subseteq Visible
  PROVE  MemoryInv'
BY DEF MemoryInv

\* The slots hold the buffers from the head to the tail.
LEMMA InSlotsBounds ==
  ASSUME SamplingInv, NEW n \in InSlots
  PROVE  n \in Nat /\ head_pos < n /\ n <= tail_pos
<1>1. PICK i \in 1 .. Len(slots) : n = slots[i]
  BY DEF InSlots
<1>2. slots[i] = head_pos + i
  BY <1>1 DEF SamplingInv, IInv, SlotsAreNewestBuffers
<1>3. /\ head_pos \in Nat /\ tail_pos \in Nat /\ Len(slots) = tail_pos - head_pos
  BY DEF SamplingInv, IInv, TypeOK, SlotsAreNewestBuffers
<1>. QED  BY <1>1, <1>2, <1>3

\* swap_buffers moves buffers: from push_buffer into the slots, and out of them.
LEMMA SwapMovesBuffers == SamplingInv /\ Swap => Visible' \subseteq Visible
<1>. SUFFICES ASSUME SamplingInv, Swap PROVE Visible' \subseteq Visible
  OBVIOUS
<1>1. /\ slots \in Seq(Nat) /\ push_buffer \in Nat
  BY DEF SamplingInv, IInv, TypeOK
<1>2. /\ SwapBuffers /\ UNCHANGED held
      /\ recycled' = NoBuffer
           \/ /\ sender' = "filling" /\ AtCapacity(Pushed)
              /\ recycled' = Head(Pushed)
  BY DEF Swap
<1>3. CASE ReturnNone \/ AwaitReceivers
  <2>1. UNCHANGED slots /\ push_buffer' \in {push_buffer, NoBuffer} /\ recycled' = NoBuffer
    BY <1>2, <1>3 DEF ReturnNone, AwaitReceivers, positions
  <2>. QED  BY <1>2, <2>1 DEF Visible, InSlots
<1>4. CASE Exchange
  <2>1. /\ Pushed \in Seq(Nat)
        /\ \A i \in 1 .. Len(Pushed) : Pushed[i] \in InSlots \cup ({push_buffer} \ {NoBuffer})
    BY <1>1 DEF Pushed, InSlots
  <2>2. slots' = Pushed \/ (AtCapacity(Pushed) /\ slots' = Tail(Pushed))
    BY <1>4 DEF Exchange
  <2>3. AtCapacity(Pushed) => Len(Pushed) \in Nat \ {0}
    BY CapacityAssumption DEF AtCapacity
  <2>4. ASSUME NEW i \in 1 .. Len(slots')
        PROVE  \E k \in 1 .. Len(Pushed) : slots'[i] = Pushed[k]
    <3>1. CASE slots' = Pushed
      BY <3>1
    <3>2. CASE AtCapacity(Pushed) /\ slots' = Tail(Pushed)
      <4>1. Len(Tail(Pushed)) = Len(Pushed) - 1 /\ Tail(Pushed)[i] = Pushed[i + 1]
        BY <2>1, <2>3, <2>4, <3>2
      <4>. QED  BY <2>1, <2>3, <2>4, <3>2, <4>1
    <3>. QED  BY <2>2, <3>1, <3>2
  <2>5. InSlots' \subseteq InSlots \cup ({push_buffer} \ {NoBuffer})
    BY <2>1, <2>4 DEF InSlots
  <2>6. recycled' # NoBuffer => recycled' \in InSlots \cup ({push_buffer} \ {NoBuffer})
    <3>1. AtCapacity(Pushed) => Head(Pushed) = Pushed[1] /\ 1 \in 1 .. Len(Pushed)
      BY <2>1, <2>3
    <3>. QED  BY <1>2, <2>1, <3>1
  <2>7. push_buffer' = NoBuffer
    BY <1>4 DEF Exchange
  <2>. QED  BY <1>2, <2>5, <2>6, <2>7 DEF Visible
<1>. QED  BY <1>2, <1>3, <1>4 DEF SwapBuffers

\* A read goes to new memory, or to memory that nobody can see.
LEMMA ReadMemoryInv == SamplingInv /\ MemoryInv /\ ReadToBuffer => MemoryInv'
<1>. SUFFICES ASSUME SamplingInv, MemoryInv, ReadToBuffer PROVE MemoryInv'
  OBVIOUS
<1>1. /\ sender = "filling" /\ fills' = fills + 1 /\ push_buffer' = fills + 1
      /\ recycled' = NoBuffer /\ UNCHANGED <<slots, held>> /\ fills < MaxFills
  BY DEF ReadToBuffer, Fill, positions
<1>2. fills \in Nat /\ MaxFills \in Nat /\ head_pos \in Nat
  BY BoundsAssumption DEF SamplingInv, IInv, TypeOK
<1>3. /\ \A n \in 1 .. fills : buffers'[n] = buffers[n]
      /\ buffers'[fills + 1].memory = Memory
  BY <1>1, <1>2 DEF ReadToBuffer, SamplingInv, SamplingTypeOK, Numbers
<1>4. Visible' = ((held \cup InSlots) \ {NoBuffer}) \cup {fills + 1}
  BY <1>1, <1>2 DEF Visible, InSlots, NoBuffer
<1>5. held \cup InSlots \subseteq Visible \cup {NoBuffer} /\ recycled \in Visible \cup {NoBuffer}
  BY DEF Visible
<1>6. Memory \in 1 .. fills + 1
  <2>1. recycled # NoBuffer => recycled \in 1 .. fills
    BY <1>5 DEF MemoryInv
  <2>2. recycled # NoBuffer => buffers[recycled].memory \in 1 .. recycled
    BY <2>1 DEF MemoryInv
  <2>. QED  BY <1>2, <2>1, <2>2 DEF Memory
<1>7. ASSUME NEW n \in (held \cup InSlots) \ {NoBuffer}
      PROVE  buffers[n].memory # Memory
  <2>1. n \in Visible /\ n \in 1 .. fills
    BY DEF Visible, MemoryInv
  <2>2. buffers[n].memory \in 1 .. n
    BY <2>1 DEF MemoryInv
  <2>3. CASE Memory = fills + 1
    BY <1>2, <2>1, <2>2, <2>3
  <2>4. CASE recycled # NoBuffer /\ Reclaimable /\ Memory = buffers[recycled].memory
    <3>1. CASE n \in held
      BY <2>4, <3>1 DEF Reclaimable
    <3>2. CASE n \in InSlots
      <4>1. recycled = head_pos /\ recycled < n
        BY <2>4, <3>2, InSlotsBounds DEF SamplingInv
      <4>2. n \in (recycled + 1) .. fills /\ recycled \in Visible
        BY <1>2, <2>1, <2>4, <4>1 DEF Visible
      <4>. QED  BY <2>4, <4>2 DEF MemoryInv
    <3>. QED  BY <3>1, <3>2
  <2>. QED  BY <2>3, <2>4 DEF Memory
<1>8. \A n \in 1 .. fills' : buffers'[n].memory \in 1 .. n
  <2>. SUFFICES ASSUME NEW n \in 1 .. fills' PROVE buffers'[n].memory \in 1 .. n
    OBVIOUS
  <2>1. CASE n = fills + 1
    BY <1>3, <1>6, <2>1
  <2>2. CASE n \in 1 .. fills
    BY <1>3, <2>2 DEF MemoryInv
  <2>. QED  BY <1>1, <1>2, <2>1, <2>2
<1>9. Visible' \subseteq 1 .. fills'
  <2>1. (held \cup InSlots) \ {NoBuffer} \subseteq 1 .. fills
    BY <1>5 DEF MemoryInv
  <2>2. 1 .. fills \subseteq 1 .. fills + 1 /\ fills + 1 \in 1 .. fills + 1
    BY <1>2
  <2>. QED  BY <1>1, <1>4, <2>1, <2>2
<1>10. ASSUME NEW n \in Visible', NEW later \in (n + 1) .. fills'
       PROVE  buffers'[later].memory # buffers'[n].memory
  <2>1. n \in 1 .. fills + 1 /\ later \in 1 .. fills + 1
    BY <1>1, <1>2, <1>9
  <2>2. n # fills + 1
    BY <1>1, <1>2, <2>1
  <2>3. n \in (held \cup InSlots) \ {NoBuffer} /\ n \in 1 .. fills
    BY <1>2, <1>4, <2>1, <2>2 DEF NoBuffer
  <2>4. CASE later = fills + 1
    BY <1>3, <1>7, <2>3, <2>4
  <2>5. CASE later \in (n + 1) .. fills
    <3>1. n \in Visible /\ later \in 1 .. fills
      BY <1>2, <2>3, <2>5 DEF Visible
    <3>. QED  BY <1>3, <2>3, <2>5, <3>1 DEF MemoryInv
  <2>. QED  BY <1>1, <1>2, <2>1, <2>4, <2>5
<1>. QED  BY <1>8, <1>9, <1>10 DEF MemoryInv

\* Every step keeps the invariant: users keep chunks of what is in the slots.
LEMMA NextMemoryInv ==
  SamplingInv /\ MemoryInv /\ [SamplingNext]_samplingVars => MemoryInv'
<1>. SUFFICES ASSUME SamplingInv, MemoryInv, [SamplingNext]_samplingVars PROVE MemoryInv'
  OBVIOUS
<1>1. CASE Swap
  BY <1>1, SwapMovesBuffers, NothingFilled DEF Swap, SwapBuffers
<1>2. CASE ReadToBuffer
  BY <1>2, ReadMemoryInv
<1>3. CASE ReadFails \/ ReaderThreadExits
  <2>1. /\ UNCHANGED <<fills, buffers, slots, push_buffer, held>>
        /\ recycled' \in {recycled, NoBuffer}
    BY <1>3 DEF ReadFails, FillFails, ReaderThreadExits, DropSender, positions
  <2>. QED  BY <2>1, NothingFilled DEF Visible, InSlots
<1>4. ASSUME NEW r \in Receivers, PollSamples(r) PROVE MemoryInv'
  <2>1. UNCHANGED <<fills, buffers, slots, push_buffer, recycled>>
    BY <1>4 DEF PollSamples, Poll, positions, producer
  <2>2. held' \subseteq held \cup (InSlots \ {NoBuffer})
    BY <1>4, ItemSeen DEF PollSamples, NoBuffer
  <2>. QED  BY <2>1, <2>2, NothingFilled DEF Visible, InSlots
<1>5. CASE /\ UNCHANGED <<fills, buffers, slots, push_buffer, recycled>>
           /\ held' \subseteq held
  BY <1>5, NothingFilled DEF Visible, InSlots
<1>6. ASSUME NEW s \in Subscribers, NEW m \in Modes,
             Configure(s, m) \/ Abandon(s) \/ OpenStream(s)
               \/ CloneRtlSdr(s) \/ DropRtlSdr(s)
      PROVE  MemoryInv'
  BY <1>5, <1>6 DEF Configure, SetDirectSampling, Abandon, OpenStream, NewReceiver,
     AddReceiver, CloneRtlSdr, CloneSubscriber, DropRtlSdr, DropSubscriber, vars,
     positions, producer
<1>7. ASSUME NEW r \in Receivers, CloneSamples(r) \/ DropSamples(r) PROVE MemoryInv'
  BY <1>5, <1>7 DEF CloneSamples, CloneReceiver, AddReceiver, DropSamples, DropReceiver,
     positions, producer
<1>8. CASE \/ \E hz \in Rates : SetSampleRate(hz)
           \/ \E m \in Modes : ConfigureAbandoned(m)
           \/ UNCHANGED samplingVars
  BY <1>5, <1>8 DEF SetSampleRate, ConfigureAbandoned, SetDirectSampling, samplingVars,
     vars, positions, producer
<1>9. CASE \E n \in Numbers : DropChunk(n)
  BY <1>5, <1>9 DEF DropChunk, vars, positions, producer
<1>10. Modes # {}
  BY DEF Modes
<1>. QED  BY <1>1, <1>2, <1>3, <1>4, <1>6, <1>7, <1>8, <1>9, <1>10 DEF SamplingNext

\* Whatever users hold on to, and however far streams lag behind, no buffer that
\* somebody can still see is read into again.
THEOREM MemoryIsSafe == SamplingSpec => []NoChunkOverwritten
<1>1. MemoryInv => NoChunkOverwritten
  BY DEF MemoryInv, Visible, NoChunkOverwritten
<1>. QED  BY <1>1, InitMemoryInv, NextMemoryInv, SamplingInvariance, PTL DEF SamplingSpec

----------------------------------------------------------------------------
(* The modes of streams. *)

\* What stream r rests on while it lives: each buffer after its first was sampled
\* in a mode of since[r], it is handed none before its first, and it has only ended
\* on a buffer that did not match.
StreamOK(r) ==
  /\ r \in LiveReceivers =>
       /\ mode \in since[r]
       /\ first[r] <= read_pos[r] + 1
       /\ \A n \in 1 .. fills : n > first[r] => buffers[n].truth.mode \in since[r]
  /\ stream[r] = "switched" =>
       /\ r \in LiveReceivers
       /\ item[r] \in 1 .. fills /\ first[r] <= item[r]
       /\ buffers[item[r]].tag.mode # kind[r]

\* SwitchWasSeenOrInFlight looks at the buffer a stream ended on; what keeps it are
\* the buffers that the stream has not been handed yet.  At most one buffer was
\* filled and not pushed when the stream was opened: it can only be its first one.
SwitchInv ==
  /\ fills <= tail_pos + 1
  /\ \A n \in 1 .. fills : buffers[n].tag \in {buffers[n].truth, DefaultTag}
  /\ \A r \in Receivers : StreamOK(r)

\* In the initial state no stream exists.
LEMMA InitSwitchInv == SamplingInit => SwitchInv
BY DEF SamplingInit, Init, SwitchInv, StreamOK, LiveReceivers, LiveStates

\* A stream stays as it is while others move, and the device is noted in since.
LEMMA StreamKept ==
  ASSUME SamplingInv, NEW r \in Receivers, StreamOK(r),
         UNCHANGED <<fills, buffers>>,
         r \in LiveReceivers <=> r \in LiveReceivers',
         kind'[r] = kind[r], stream'[r] = stream[r], item'[r] = item[r],
         first'[r] = first[r], read_pos'[r] \in Nat, read_pos[r] <= read_pos'[r],
         r \in LiveReceivers => mode' \in since'[r] /\ since[r] \subseteq since'[r]
  PROVE  StreamOK(r)'
<1>1. first[r] \in Nat /\ read_pos[r] \in Nat
  BY DEF SamplingInv, SamplingTypeOK, IInv, TypeOK
<1>2. first[r] <= read_pos[r] + 1 => first'[r] <= read_pos'[r] + 1
  BY <1>1
<1>. QED  BY <1>2 DEF StreamOK

\* The buffers filled are known to the model, and few of them are not pushed.
LEMMA FillsBounds ==
  ASSUME SamplingInv
  PROVE  /\ fills \in Nat /\ tail_pos \in Nat /\ MaxFills \in Nat
         /\ tail_pos <= fills /\ fills <= MaxFills
         /\ 1 .. fills \subseteq Numbers
BY BoundsAssumption DEF SamplingInv, IInv, TypeOK, Numbers

\* A read fills a buffer in the mode that the device is in, which every live stream
\* has seen; and its tag says so, or is that of a new buffer.
LEMMA ReadSwitchInv == SamplingInv /\ SwitchInv /\ ReadToBuffer => SwitchInv'
<1>. SUFFICES ASSUME SamplingInv, SwitchInv, ReadToBuffer PROVE SwitchInv'
  OBVIOUS
<1>1. /\ sender = "filling" /\ fills' = fills + 1 /\ fills < MaxFills
      /\ UNCHANGED <<tail_pos, task, item, read_pos, device, streams>>
  BY DEF ReadToBuffer, Fill, positions, receivers
<1>2. fills \in Nat /\ tail_pos \in Nat /\ MaxFills \in Nat
  BY FillsBounds
<1>3. fills = tail_pos
  BY <1>1 DEF SamplingInv, IInv, NothingSkipped
<1>4. /\ \A n \in 1 .. fills : buffers'[n] = buffers[n]
      /\ buffers'[fills + 1] = [tag |-> Tag, truth |-> [rate |-> rate, mode |-> mode],
                                memory |-> Memory]
  BY <1>1, <1>2, FillsBounds DEF ReadToBuffer, SamplingInv, SamplingTypeOK, Numbers
<1>5. 1 .. fills' = 1 .. fills \cup {fills + 1}
  BY <1>1, <1>2
<1>6. \A n \in 1 .. fills' : buffers'[n].tag \in {buffers'[n].truth, DefaultTag}
  BY <1>4, <1>5 DEF SwitchInv, Tag
<1>7. ASSUME NEW r \in Receivers PROVE StreamOK(r)'
  <2>1. StreamOK(r) /\ (r \in LiveReceivers' <=> r \in LiveReceivers)
    BY <1>1 DEF SwitchInv, LiveReceivers
  <2>2. UNCHANGED <<mode, since, kind, stream, first>>
    BY <1>1 DEF device, streams
  <2>3. buffers'[fills + 1].truth.mode = mode
    BY <1>4
  <2>4. r \in LiveReceivers' =>
          \A n \in 1 .. fills' : n > first'[r] => buffers'[n].truth.mode \in since'[r]
    BY <1>4, <1>5, <2>1, <2>2, <2>3 DEF StreamOK
  <2>5. stream'[r] = "switched" =>
          /\ item'[r] \in 1 .. fills'
          /\ buffers'[item'[r]].tag.mode # kind'[r]
    BY <1>1, <1>4, <1>5, <2>1, <2>2 DEF StreamOK
  <2>. QED  BY <1>1, <2>1, <2>2, <2>4, <2>5 DEF StreamOK
<1>. QED  BY <1>1, <1>2, <1>3, <1>6, <1>7 DEF SwitchInv

\* swap_buffers only pushes, and the streams that it wakes up are still alive.
LEMMA SwapSwitchInv == SamplingInv /\ SwitchInv /\ Swap => SwitchInv'
<1>. SUFFICES ASSUME SamplingInv, SwitchInv, Swap PROVE SwitchInv'
  OBVIOUS
<1>1. SwapBuffers /\ UNCHANGED <<device, buffers, streams, fills>>
  BY DEF Swap, SwapBuffers
<1>2. task \in [Receivers -> TaskStates] /\ read_pos \in [Receivers -> Nat]
  BY DEF SamplingInv, IInv, TypeOK
<1>3. UNCHANGED <<read_pos, item>> /\ LiveReceivers' = LiveReceivers
  <2>1. CASE ReturnNone \/ AwaitReceivers
    BY <2>1 DEF ReturnNone, AwaitReceivers, receivers, LiveReceivers
  <2>2. CASE Exchange
    BY <1>2, <2>2, WakeReceiversFacts DEF Exchange, LiveReceivers
  <2>. QED  BY <1>1, <2>1, <2>2 DEF SwapBuffers
<1>4. tail_pos' \in {tail_pos, tail_pos + 1}
  BY <1>1 DEF SwapBuffers, ReturnNone, AwaitReceivers, Exchange, positions
<1>5. fills' <= tail_pos' + 1
  BY <1>1, <1>4, FillsBounds DEF SwitchInv
<1>6. ASSUME NEW r \in Receivers PROVE StreamOK(r)'
  BY <1>1, <1>2, <1>3, StreamKept DEF SwitchInv, device, streams, StreamOK
<1>. QED  BY <1>1, <1>5, <1>6 DEF SwitchInv

\* The other steps leave the buffers and the tail alone.
LEMMA BuffersKept ==
  ASSUME SwitchInv, UNCHANGED <<fills, buffers, tail_pos>>,
         \A r \in Receivers : StreamOK(r)'
  PROVE  SwitchInv'
BY DEF SwitchInv

\* A new stream starts in the mode of the device, and after the last buffer pushed.
LEMMA OpenStreamSwitchInv ==
  ASSUME SamplingInv, SwitchInv, NEW s \in Subscribers, OpenStream(s)
  PROVE  SwitchInv'
<1>0. PICK new : new = next_receiver_id
  OBVIOUS
<1>1. /\ new = next_receiver_id /\ new < MaxReceivers
      /\ task' = [task EXCEPT ![new] = "running"]
      /\ read_pos' = [read_pos EXCEPT ![new] = tail_pos]
      /\ item' = [item EXCEPT ![new] = tail_pos]
      /\ UNCHANGED <<fills, buffers, tail_pos, mode, stream>>
      /\ kind' = [kind EXCEPT ![new] = call[s]]
      /\ since' = [since EXCEPT ![new] = {mode}]
      /\ first' = [first EXCEPT ![new] = tail_pos + 1]
  BY <1>0 DEF OpenStream, NewReceiver, AddReceiver, positions, producer, device
<1>2. /\ new \in Receivers /\ task[new] = "absent"
      /\ task \in [Receivers -> TaskStates] /\ read_pos \in [Receivers -> Nat]
      /\ item \in [Receivers -> Nat]
  BY <1>1, BoundsAssumption DEF SamplingInv, IInv, TypeOK, NothingSkipped, Receivers
<1>3. ASSUME NEW r \in Receivers, r # new PROVE StreamOK(r)'
  <2>1. r \in LiveReceivers <=> r \in LiveReceivers'
    BY <1>1, <1>2, <1>3 DEF LiveReceivers
  <2>2. since'[r] = since[r] /\ mode' = mode /\ StreamOK(r)
    BY <1>1, <1>3 DEF SamplingInv, SamplingTypeOK, SwitchInv
  <2>3. /\ kind'[r] = kind[r] /\ stream'[r] = stream[r] /\ item'[r] = item[r]
        /\ first'[r] = first[r] /\ read_pos'[r] = read_pos[r]
    BY <1>1, <1>2, <1>3 DEF SamplingInv, SamplingTypeOK
  <2>. QED  BY <1>1, <1>2, <2>1, <2>2, <2>3, StreamKept DEF StreamOK
<1>4. StreamOK(new)'
  <2>1. stream'[new] # "switched"
    BY <1>1, <1>2 DEF SwitchInv, StreamOK, LiveReceivers, LiveStates
  <2>2. /\ since'[new] = {mode} /\ first'[new] = tail_pos + 1 /\ read_pos'[new] = tail_pos
    BY <1>1, <1>2 DEF SamplingInv, SamplingTypeOK
  <2>3. \A n \in 1 .. fills' : ~(n > first'[new])
    BY <1>1, <2>2, FillsBounds DEF SwitchInv
  <2>4. first'[new] <= read_pos'[new] + 1
    BY <2>2, FillsBounds
  <2>. QED  BY <1>1, <2>1, <2>2, <2>3, <2>4 DEF StreamOK
<1>. QED  BY <1>1, <1>3, <1>4, BuffersKept

\* The clone of a stream has what the stream has.
LEMMA CloneSamplesSwitchInv ==
  ASSUME SamplingInv, SwitchInv, NEW r \in Receivers, CloneSamples(r)
  PROVE  SwitchInv'
<1>0. PICK new : new = next_receiver_id
  OBVIOUS
<1>1. /\ new = next_receiver_id /\ new < MaxReceivers /\ r \in LiveReceivers
      /\ task' = [task EXCEPT ![new] = "running"]
      /\ read_pos' = [read_pos EXCEPT ![new] = read_pos[r]]
      /\ item' = [item EXCEPT ![new] = item[r]]
      /\ UNCHANGED <<fills, buffers, tail_pos, mode>>
      /\ kind' = [kind EXCEPT ![new] = kind[r]]
      /\ stream' = [stream EXCEPT ![new] = stream[r]]
      /\ since' = [since EXCEPT ![new] = since[r]]
      /\ first' = [first EXCEPT ![new] = first[r]]
  BY <1>0 DEF CloneSamples, CloneReceiver, AddReceiver, positions, producer, device
<1>2. /\ new \in Receivers /\ task[new] = "absent" /\ new # r
      /\ task \in [Receivers -> TaskStates] /\ read_pos \in [Receivers -> Nat]
      /\ item \in [Receivers -> Nat]
  BY <1>1, BoundsAssumption DEF SamplingInv, IInv, TypeOK, NothingSkipped, Receivers,
     LiveReceivers, LiveStates
<1>3. ASSUME NEW q \in Receivers, q # new PROVE StreamOK(q)'
  <2>1. q \in LiveReceivers <=> q \in LiveReceivers'
    BY <1>1, <1>2, <1>3 DEF LiveReceivers
  <2>2. since'[q] = since[q] /\ mode' = mode /\ StreamOK(q)
    BY <1>1, <1>3 DEF SamplingInv, SamplingTypeOK, SwitchInv
  <2>3. /\ kind'[q] = kind[q] /\ stream'[q] = stream[q] /\ item'[q] = item[q]
        /\ first'[q] = first[q] /\ read_pos'[q] = read_pos[q]
    BY <1>1, <1>2, <1>3 DEF SamplingInv, SamplingTypeOK
  <2>. QED  BY <1>1, <1>2, <2>1, <2>2, <2>3, StreamKept DEF StreamOK
<1>4. StreamOK(new)'
  <2>1. /\ kind'[new] = kind[r] /\ stream'[new] = stream[r] /\ item'[new] = item[r]
        /\ first'[new] = first[r] /\ read_pos'[new] = read_pos[r] /\ since'[new] = since[r]
    BY <1>1, <1>2 DEF SamplingInv, SamplingTypeOK
  <2>2. new \in LiveReceivers'
    BY <1>1, <1>2 DEF LiveReceivers, LiveStates
  <2>. QED  BY <1>1, <2>1, <2>2 DEF SwitchInv, StreamOK
<1>. QED  BY <1>1, <1>3, <1>4, BuffersKept

\* Nothing is left of a dropped stream.
LEMMA DropSamplesSwitchInv ==
  ASSUME SamplingInv, SwitchInv, NEW r \in Receivers, DropSamples(r)
  PROVE  SwitchInv'
<1>1. /\ task' = [task EXCEPT ![r] = "dropped"]
      /\ UNCHANGED <<fills, buffers, tail_pos, mode, read_pos, item>>
      /\ kind' = [kind EXCEPT ![r] = "Iq"]
      /\ stream' = [stream EXCEPT ![r] = "open"]
      /\ since' = [since EXCEPT ![r] = {}]
      /\ first' = [first EXCEPT ![r] = 0]
  BY DEF DropSamples, DropReceiver, positions, producer, device
<1>2. task \in [Receivers -> TaskStates] /\ read_pos \in [Receivers -> Nat]
  BY DEF SamplingInv, IInv, TypeOK
<1>3. ASSUME NEW q \in Receivers, q # r PROVE StreamOK(q)'
  <2>1. q \in LiveReceivers <=> q \in LiveReceivers'
    BY <1>1, <1>2, <1>3 DEF LiveReceivers
  <2>2. since'[q] = since[q] /\ mode' = mode /\ StreamOK(q)
    BY <1>1, <1>3 DEF SamplingInv, SamplingTypeOK, SwitchInv
  <2>3. /\ kind'[q] = kind[q] /\ stream'[q] = stream[q] /\ item'[q] = item[q]
        /\ first'[q] = first[q] /\ read_pos'[q] = read_pos[q]
    BY <1>1, <1>2, <1>3 DEF SamplingInv, SamplingTypeOK
  <2>. QED  BY <1>1, <1>2, <2>1, <2>2, <2>3, StreamKept DEF StreamOK
<1>4. StreamOK(r)'
  <2>1. stream'[r] # "switched" /\ r \notin LiveReceivers'
    BY <1>1, <1>2 DEF SamplingInv, SamplingTypeOK, LiveReceivers, LiveStates
  <2>. QED  BY <2>1 DEF StreamOK
<1>. QED  BY <1>1, <1>3, <1>4, BuffersKept

\* A stream goes on, or has ended on a buffer that was not its own.
LEMMA PollSamplesSwitchInv ==
  ASSUME SamplingInv, SwitchInv, NEW r \in Receivers, PollSamples(r)
  PROVE  SwitchInv'
<1>1. /\ Poll(r) /\ stream[r] = "open"
      /\ UNCHANGED <<fills, buffers, tail_pos, mode, kind, since, first>>
  BY DEF PollSamples, Poll, positions, producer, device
<1>2. LiveReceivers' = LiveReceivers
  BY <1>1, PollFacts DEF SamplingInv, IInv, TypeOK
<1>3. stream' = stream \/ stream' = [stream EXCEPT ![r] = "switched"]
  BY DEF PollSamples
<1>4. ASSUME NEW q \in Receivers, q # r PROVE StreamOK(q)'
  <2>1. stream'[q] = stream[q] /\ item'[q] = item[q]
    BY <1>1, <1>3, <1>4, PollMoves DEF SamplingInv, SamplingTypeOK
  <2>2. StreamOK(q)
    BY DEF SwitchInv
  <2>3. read_pos'[q] \in Nat /\ read_pos[q] <= read_pos'[q]
    BY <1>1, PollMoves DEF SamplingInv
  <2>. QED  BY <1>1, <1>2, <2>1, <2>2, <2>3, StreamKept DEF StreamOK
<1>5. StreamOK(r)'
  <2>1. StreamOK(r) /\ r \in LiveReceivers
    BY <1>1 DEF SwitchInv, Poll, LiveReceivers, LiveStates
  <2>2. /\ read_pos[r] \in Nat /\ read_pos'[r] \in Nat /\ read_pos[r] <= read_pos'[r]
        /\ first[r] \in Nat
    BY <1>1, PollMoves DEF SamplingInv, SamplingTypeOK, IInv, TypeOK
  <2>3. first[r] <= read_pos[r] + 1
    BY <2>1 DEF StreamOK
  <2>4. r \in LiveReceivers' =>
          /\ mode' \in since'[r]
          /\ first'[r] <= read_pos'[r] + 1
          /\ \A n \in 1 .. fills' : n > first'[r] => buffers'[n].truth.mode \in since'[r]
    BY <1>1, <2>1, <2>2, <2>3 DEF StreamOK
  <2>5. ASSUME stream'[r] = "switched"
        PROVE  /\ item'[r] \in 1 .. fills' /\ first'[r] <= item'[r]
               /\ buffers'[item'[r]].tag.mode # kind'[r]
    <3>1. item' # item /\ ~Matches(r, item'[r])
      BY <1>1, <2>5 DEF PollSamples
    <3>2. item'[r] \in 1 .. fills /\ item'[r] > read_pos[r]
      BY <1>1, <3>1, ItemSeen, PollMoves DEF SamplingInv
    <3>3. first[r] <= item'[r]
      BY <2>2, <2>3, <3>2, FillsBounds
    <3>. QED  BY <1>1, <3>1, <3>2, <3>3 DEF Matches
  <2>. QED  BY <1>2, <2>1, <2>4, <2>5 DEF StreamOK
<1>. QED  BY <1>1, <1>4, <1>5, BuffersKept

\* Every live stream sees what mode the device is switched to.
LEMMA SetDirectSamplingSwitchInv ==
  ASSUME SamplingInv, SwitchInv, NEW m \in Modes, SetDirectSampling(m)
  PROVE  SwitchInv'
<1>1. /\ UNCHANGED <<fills, buffers, tail_pos, task, item, read_pos, kind, stream, first>>
      /\ mode' = m
  BY DEF SetDirectSampling, vars, positions, producer, receivers
<1>2. LiveReceivers' = LiveReceivers
  BY <1>1 DEF LiveReceivers
<1>3. ASSUME NEW r \in Receivers PROVE StreamOK(r)'
  <2>1. r \in LiveReceivers => mode' \in since'[r] /\ since[r] \subseteq since'[r]
    BY <1>1 DEF SetDirectSampling
  <2>2. read_pos[r] \in Nat /\ StreamOK(r)
    BY DEF SamplingInv, IInv, TypeOK, SwitchInv
  <2>. QED  BY <1>1, <1>2, <2>1, <2>2, StreamKept
<1>. QED  BY <1>1, <1>3, BuffersKept

\* Steps that are about neither streams nor the device leave all that as it is.
LEMMA StreamsUntouched ==
  ASSUME SamplingInv, SwitchInv,
         UNCHANGED <<fills, buffers, tail_pos, task, item, read_pos, mode, streams>>
  PROVE  SwitchInv'
<1>1. LiveReceivers' = LiveReceivers
  BY DEF LiveReceivers
<1>2. ASSUME NEW r \in Receivers PROVE StreamOK(r)'
  BY <1>1 DEF StreamOK, SwitchInv, streams
<1>. QED  BY <1>2, BuffersKept

\* Every step keeps the invariant.
LEMMA NextSwitchInv ==
  SamplingInv /\ SwitchInv /\ [SamplingNext]_samplingVars => SwitchInv'
<1>. SUFFICES ASSUME SamplingInv, SwitchInv, [SamplingNext]_samplingVars PROVE SwitchInv'
  OBVIOUS
<1>1. CASE Swap
  BY <1>1, SwapSwitchInv
<1>2. CASE ReadToBuffer
  BY <1>2, ReadSwitchInv
<1>3. CASE ReadFails \/ ReaderThreadExits
  BY <1>3, StreamsUntouched DEF ReadFails, FillFails, ReaderThreadExits, DropSender,
     positions, receivers, device
<1>4. CASE \E hz \in Rates : SetSampleRate(hz)
  BY <1>4, StreamsUntouched DEF SetSampleRate, vars, positions, producer, receivers
<1>5. CASE \/ \E s \in Subscribers, m \in Modes : Configure(s, m)
           \/ \E m \in Modes : ConfigureAbandoned(m)
  BY <1>5, SetDirectSamplingSwitchInv DEF Configure, ConfigureAbandoned
<1>6. ASSUME NEW s \in Subscribers, Abandon(s) \/ CloneRtlSdr(s) \/ DropRtlSdr(s)
      PROVE  SwitchInv'
  BY <1>6, StreamsUntouched DEF Abandon, CloneRtlSdr, CloneSubscriber, DropRtlSdr,
     DropSubscriber, vars, positions, producer, receivers, device
<1>7. CASE \E s \in Subscribers : OpenStream(s)
  BY <1>7, OpenStreamSwitchInv
<1>8. CASE \E r \in Receivers : CloneSamples(r) \/ DropSamples(r) \/ PollSamples(r)
  BY <1>8, CloneSamplesSwitchInv, DropSamplesSwitchInv, PollSamplesSwitchInv
<1>9. CASE \/ \E n \in Numbers : DropChunk(n)
           \/ UNCHANGED samplingVars
  BY <1>9, StreamsUntouched DEF DropChunk, samplingVars, vars, positions, producer,
     receivers, device
<1>. QED  BY <1>1, <1>2, <1>3, <1>4, <1>5, <1>6, <1>7, <1>8, <1>9 DEF SamplingNext

\* The invariant holds in every reachable state.
THEOREM SwitchInvariance == SamplingSpec => []SwitchInv
BY InitSwitchInv, NextSwitchInv, SamplingInvariance, PTL DEF SamplingSpec

\* A stream never ends on a mode that the device was not in while the stream was
\* open, but for the one buffer that may have been in flight when it was opened.
THEOREM SwitchIsSeenOrInFlight == SamplingSpec => []SwitchWasSeenOrInFlight
<1>1. ASSUME SamplingInv, SwitchInv PROVE SwitchWasSeenOrInFlight
  <2>1. SUFFICES ASSUME NEW r \in Receivers, stream[r] = "switched",
                        buffers[item[r]].tag = buffers[item[r]].truth
                 PROVE  /\ buffers[item[r]].tag.mode # kind[r]
                        /\ buffers[item[r]].tag.mode \in since[r] \/ item[r] = first[r]
    BY DEF SwitchWasSeenOrInFlight
  <2>2. /\ r \in LiveReceivers /\ item[r] \in 1 .. fills /\ first[r] <= item[r]
        /\ buffers[item[r]].tag.mode # kind[r]
        /\ \A n \in 1 .. fills : n > first[r] => buffers[n].truth.mode \in since[r]
    BY <1>1, <2>1 DEF SwitchInv, StreamOK
  <2>3. first[r] \in Nat /\ item[r] \in Nat
    BY <1>1 DEF SamplingInv, SamplingTypeOK, IInv, TypeOK
  <2>. QED  BY <2>1, <2>2, <2>3
<1>. QED  BY <1>1, SwitchInvariance, SamplingInvariance, PTL

----------------------------------------------------------------------------
(* Direct samples. *)

\* Only a poll hands a buffer to a stream that exists.
LEMMA OnlyPollsHandOver ==
  ASSUME SamplingInv, [SamplingNext]_samplingVars, NEW r \in Receivers,
         task[r] \in {"running", "parked"}, item'[r] # item[r]
  PROVE  PollSamples(r)
<1>1. CASE Swap
  <2>1. UNCHANGED item
    BY <1>1 DEF Swap, SwapBuffers, ReturnNone, AwaitReceivers, Exchange, receivers
  <2>. QED  BY <2>1
<1>2. CASE ReadToBuffer \/ ReadFails \/ ReaderThreadExits
  BY <1>2 DEF ReadToBuffer, Fill, ReadFails, FillFails, ReaderThreadExits, DropSender,
     receivers
<1>3. CASE \/ \E hz \in Rates : SetSampleRate(hz)
           \/ \E m \in Modes : ConfigureAbandoned(m)
           \/ \E n \in Numbers : DropChunk(n)
           \/ UNCHANGED samplingVars
  BY <1>3 DEF SetSampleRate, ConfigureAbandoned, SetDirectSampling, DropChunk,
     samplingVars, vars, receivers
<1>4. CASE \E s \in Subscribers :
             \/ \E m \in Modes : Configure(s, m)
             \/ Abandon(s)
             \/ CloneRtlSdr(s)
             \/ DropRtlSdr(s)
  BY <1>4 DEF Configure, SetDirectSampling, Abandon, CloneRtlSdr, CloneSubscriber,
     DropRtlSdr, DropSubscriber, vars, receivers
<1>5. ASSUME NEW last,
             item' = [item EXCEPT ![next_receiver_id] = last]
      PROVE  FALSE
  <2>1. task[r] = "absent" <=> r >= next_receiver_id
    BY DEF SamplingInv, IInv, NothingSkipped
  <2>2. r # next_receiver_id
    BY <2>1, BoundsAssumption DEF SamplingInv, IInv, TypeOK, Receivers
  <2>. QED  BY <1>5, <2>2 DEF SamplingInv, IInv, TypeOK
<1>6. CASE \E s \in Subscribers : OpenStream(s)
  BY <1>5, <1>6 DEF OpenStream, NewReceiver, AddReceiver
<1>7. CASE \E q \in Receivers : CloneSamples(q)
  BY <1>5, <1>7 DEF CloneSamples, CloneReceiver, AddReceiver
<1>8. CASE \E q \in Receivers : DropSamples(q)
  BY <1>8 DEF DropSamples, DropReceiver
<1>9. ASSUME NEW q \in Receivers, PollSamples(q) PROVE PollSamples(r)
  BY <1>9, PollMoves DEF PollSamples, SamplingInv
<1>. QED  BY <1>1, <1>2, <1>3, <1>4, <1>6, <1>7, <1>8, <1>9 DEF SamplingNext

\* Nobody is handed samples of another mode as direct samples: a buffer whose tag
\* is wrong has that of a new one, and claims to be "Iq".
THEOREM DirectSamplesAreNothingElse == SamplingSpec => DirectSamplesAreDirect
<1>1. ASSUME SamplingInv, SwitchInv, [SamplingNext]_samplingVars,
             NEW r \in Receivers, kind[r] \in DirectModes,
             task[r] \in {"running", "parked"}, item'[r] # item[r], stream'[r] = "open"
      PROVE  buffers[item'[r]].truth.mode = kind[r]
  <2>1. PollSamples(r) /\ item' # item
    BY <1>1, OnlyPollsHandOver
  <2>2. Poll(r)
    BY <2>1 DEF PollSamples
  <2>3. Matches(r, item'[r])
    BY <1>1, <2>1 DEF PollSamples, SamplingInv, SamplingTypeOK
  <2>4. item'[r] \in 1 .. fills
    BY <1>1, <2>1, <2>2, ItemSeen
  <2>5. kind[r] # "Iq"
    BY <1>1, ModesAssumption
  <2>. QED  BY <1>1, <2>3, <2>4, <2>5 DEF SwitchInv, Matches, DefaultTag
<1>2. SamplingInv /\ SwitchInv /\ [SamplingNext]_samplingVars =>
        [\A r \in Receivers :
           /\ kind[r] \in DirectModes
           /\ task[r] \in {"running", "parked"}
           /\ item'[r] # item[r]
           /\ stream'[r] = "open"
           => buffers[item'[r]].truth.mode = kind[r]]_samplingVars
  BY <1>1
<1>. QED  BY <1>2, SamplingInvariance, SwitchInvariance, PTL
          DEF SamplingSpec, DirectSamplesAreDirect

=============================================================================
