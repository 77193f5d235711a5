------------------------------ MODULE Sampling ------------------------------
(***************************************************************************)
(* Sampling: the reader thread of sampling.rs and the streams of lib.rs on *)
(* both ends of the buffer queue, over one device whose handle is guarded  *)
(* by a mutex.  read_to_buffer holds that mutex throughout, so a read is   *)
(* one action, and so is a control command.  RtlSdr::samples and           *)
(* direct_samples first have the control thread switch the sampling mode   *)
(* and then, in a second step, create the receiver.  (Until it is executed *)
(* a request changes nothing that this module looks at: Control models its *)
(* way to the control thread.)                                             *)
(*                                                                         *)
(* A Samples stream is a receiver of BufferQueue that only yields buffers  *)
(* tagged with its own sampling mode.  A user keeps a Chunk, and with it   *)
(* the memory of its buffer, for as long as it likes.                      *)
(***************************************************************************)
EXTENDS BufferQueue

CONSTANTS
  DirectModes,  \* the modes of direct sampling, besides the mode "Iq"
  Rates         \* the sample rates that users set, other than 0

ASSUME ModesAssumption == {"Iq", "none"} \cap DirectModes = {}
ASSUME RatesAssumption == Rates \subseteq Nat \ {0}

VARIABLES
  rate, mode,   \* the device: sample rate (0: never set) and sampling mode
  recycled,     \* the old buffer that swap_buffers returned (NoBuffer: a new one)
  buffers,      \* buffers[n]: metadata and memory of the n-th buffer filled
  held,         \* buffers of which a user still has a Chunk
  call,         \* call[s]: mode that a call of samples() on subscriber s has set
                \* and for which it is about to open a stream (NoCall: none)
  kind,         \* kind[r]: field sample_type of stream r
  stream,       \* stream[r]: "open", or "switched" if it ended on another mode
  \* history variables
  since,        \* since[r]: modes the device has been in since r was opened
  first         \* first[r]: first buffer that stream r could be handed

device == <<rate, mode>>
streams == <<kind, stream, since, first>>
samplingVars == <<vars, device, recycled, buffers, held, call, streams>>

Modes == {"Iq"} \cup DirectModes
Tags == [rate : {0} \cup Rates, mode : Modes]
Numbers == 1 .. MaxFills

\* What Buffer::new puts into a buffer's metadata.
DefaultTag == [rate |-> 0, mode |-> "Iq"]

\* Buffer: the tag is what its metadata claims and the memory is named after
\* the first buffer that was read into it; truth is how it really was sampled.
NoData == [tag |-> DefaultTag, truth |-> DefaultTag, memory |-> NoBuffer]

NoCall == "none"

SamplingInit ==
  /\ Init
  /\ rate = 0
  /\ mode = "Iq"
  /\ recycled = NoBuffer
  /\ buffers = [n \in Numbers |-> NoData]
  /\ held = {}
  /\ call = [s \in Subscribers |-> NoCall]
  /\ kind = [r \in Receivers |-> "Iq"]
  /\ stream = [r \in Receivers |-> "open"]
  /\ since = [r \in Receivers |-> {}]
  /\ first = [r \in Receivers |-> 0]

----------------------------------------------------------------------------
(* The reader thread. *)

\* The call of swap_buffers in reader_thread.
Swap ==
  /\ SwapBuffers
  /\ recycled' = IF sender' = "filling" /\ AtCapacity(Pushed)
                 THEN Head(Pushed) ELSE NoBuffer
  /\ UNCHANGED <<device, buffers, held, call, streams>>

\* Fault: the memory is reused whoever still looks at it.
Reclaimable_Always == TRUE

\* Buffer::reclaim_or_allocate: a fresh buffer is nobody else's, an old one is
\* reclaimed if no chunk refers to its memory.
Reclaimable ==
  recycled # NoBuffer =>
    \A n \in held : buffers[n].memory # buffers[recycled].memory

Memory ==
  IF recycled # NoBuffer /\ Reclaimable THEN buffers[recycled].memory ELSE fills + 1

\* Fault: the metadata of a reclaimed buffer is left as it was.
Tag_Kept ==
  IF recycled # NoBuffer /\ Reclaimable
  THEN buffers[recycled].tag ELSE [rate |-> rate, mode |-> mode]

\* read_to_buffer writes the metadata first; reclaim_or_allocate then replaces
\* the whole buffer, metadata included, if it cannot reclaim the memory.
Tag == IF Reclaimable THEN [rate |-> rate, mode |-> mode] ELSE DefaultTag

\* read_to_buffer returns Ok(true), which it cannot before a rate was set.
ReadToBuffer ==
  /\ rate # 0
  /\ Fill
  /\ buffers' = [buffers EXCEPT ![fills + 1] =
                   [tag |-> Tag, truth |-> [rate |-> rate, mode |-> mode],
                    memory |-> Memory]]
  /\ recycled' = NoBuffer
  /\ UNCHANGED <<device, held, call, streams>>

\* Fault: the buffer of a failed read is kept for the next one.
ReadFails_KeepsBuffer ==
  /\ FillFails
  /\ UNCHANGED <<device, recycled, buffers, held, call, streams>>

\* read_to_buffer returns Ok(false) or an error, and the buffer is dropped.
ReadFails ==
  /\ FillFails
  /\ recycled' = NoBuffer
  /\ UNCHANGED <<device, buffers, held, call, streams>>

ReaderThreadExits ==
  /\ DropSender
  /\ UNCHANGED <<device, recycled, buffers, held, call, streams>>

----------------------------------------------------------------------------
(* RtlSdr *)

\* LockedHandle::set_sample_rate
SetSampleRate(hz) ==
  /\ rate' = hz
  /\ UNCHANGED <<vars, mode, recycled, buffers, held, call, streams>>

\* LockedHandle::set_direct_sampling, by the control thread.
SetDirectSampling(m) ==
  /\ mode' = m
  /\ since' = [r \in Receivers |->
                 IF r \in LiveReceivers THEN since[r] \cup {m} ELSE {}]
  /\ UNCHANGED <<vars, rate, recycled, buffers, held, kind, stream, first>>

\* It does so for samples() or direct_samples(), which gets the reply ...
Configure(s, m) ==
  /\ s \in subscribers /\ call[s] = NoCall
  /\ SetDirectSampling(m)
  /\ call' = [call EXCEPT ![s] = m]

\* ... or which was dropped while it waited.
ConfigureAbandoned(m) ==
  /\ SetDirectSampling(m)
  /\ UNCHANGED call

\* The future is dropped when it has the reply.
Abandon(s) ==
  /\ call[s] # NoCall
  /\ call' = [call EXCEPT ![s] = NoCall]
  /\ UNCHANGED <<vars, device, recycled, buffers, held, streams>>

\* With the reply, the stream is created.
OpenStream(s) ==
  /\ call[s] # NoCall
  /\ NewReceiver
  /\ kind' = [kind EXCEPT ![next_receiver_id] = call[s]]
  /\ since' = [since EXCEPT ![next_receiver_id] = {mode}]
  /\ first' = [first EXCEPT ![next_receiver_id] = tail_pos + 1]
  /\ call' = [call EXCEPT ![s] = NoCall]
  /\ UNCHANGED <<device, recycled, buffers, held, stream>>

\* Clone and Drop for RtlSdr: the future borrows it.
CloneRtlSdr(s) ==
  /\ CloneSubscriber(s)
  /\ UNCHANGED <<device, recycled, buffers, held, call, streams>>

DropRtlSdr(s) ==
  /\ call[s] = NoCall
  /\ DropSubscriber(s)
  /\ UNCHANGED <<device, recycled, buffers, held, call, streams>>

----------------------------------------------------------------------------
(* Samples *)

CloneSamples(r) ==
  /\ CloneReceiver(r)
  /\ kind' = [kind EXCEPT ![next_receiver_id] = kind[r]]
  /\ stream' = [stream EXCEPT ![next_receiver_id] = stream[r]]
  /\ since' = [since EXCEPT ![next_receiver_id] = since[r]]
  /\ first' = [first EXCEPT ![next_receiver_id] = first[r]]
  /\ UNCHANGED <<device, recycled, buffers, held, call>>

\* Nothing is left of a dropped stream.
DropSamples(r) ==
  /\ DropReceiver(r)
  /\ kind' = [kind EXCEPT ![r] = "Iq"]
  /\ stream' = [stream EXCEPT ![r] = "open"]
  /\ since' = [since EXCEPT ![r] = {}]
  /\ first' = [first EXCEPT ![r] = 0]
  /\ UNCHANGED <<device, recycled, buffers, held, call>>

\* Fault: the sampling mode of the buffer is not looked at.
Matches_Always(r, n) == TRUE

Matches(r, n) == buffers[n].tag.mode = kind[r]

\* Samples::poll_next; nobody polls a stream that has ended.
PollSamples(r) ==
  /\ stream[r] = "open"
  /\ Poll(r)
  /\ IF item' = item
     THEN UNCHANGED <<held, stream>>
     ELSE IF Matches(r, item'[r])
          THEN held' = held \cup {item'[r]} /\ UNCHANGED stream
          ELSE stream' = [stream EXCEPT ![r] = "switched"] /\ UNCHANGED held
  /\ UNCHANGED <<device, recycled, buffers, call, kind, since, first>>

\* Drop of the last Chunk of a buffer.
DropChunk(n) ==
  /\ n \in held
  /\ held' = held \ {n}
  /\ UNCHANGED <<vars, device, recycled, buffers, call, streams>>

----------------------------------------------------------------------------
SamplingNext ==
  \/ Swap
  \/ ReadToBuffer
  \/ ReadFails
  \/ ReaderThreadExits
  \/ \E hz \in Rates : SetSampleRate(hz)
  \/ \E s \in Subscribers :
       \/ \E m \in Modes : Configure(s, m)
       \/ Abandon(s)
       \/ OpenStream(s)
       \/ CloneRtlSdr(s)
       \/ DropRtlSdr(s)
  \/ \E m \in Modes : ConfigureAbandoned(m)
  \/ \E r \in Receivers : CloneSamples(r) \/ DropSamples(r) \/ PollSamples(r)
  \/ \E n \in Numbers : DropChunk(n)

SamplingSpec == SamplingInit /\ [][SamplingNext]_samplingVars

----------------------------------------------------------------------------
(* Safety *)

\* Every variable of the composition has its type, and the reader thread owns an
\* old buffer only while it reads.
SamplingTypeOK ==
  /\ rate \in {0} \cup Rates
  /\ mode \in Modes
  /\ recycled \in IF sender = "filling" THEN {NoBuffer} \cup Numbers ELSE {NoBuffer}
  /\ buffers \in [Numbers -> [tag : Tags, truth : Tags, memory : 0 .. MaxFills]]
  /\ held \subseteq Numbers
  /\ call \in [Subscribers -> {NoCall} \cup Modes]
  /\ kind \in [Receivers -> Modes]
  /\ stream \in [Receivers -> {"open", "switched"}]
  /\ since \in [Receivers -> SUBSET Modes]
  /\ first \in [Receivers -> Nat]

InSlots == {slots[i] : i \in 1 .. Len(slots)}

\* The samples of a chunk that a user holds, or that is still in the queue or on
\* its way into it, are never overwritten by a later read, although buffers are
\* recycled while receivers lag behind and keep chunks.
NoChunkOverwritten ==
  \A n \in (held \cup InSlots \cup {push_buffer}) \ {NoBuffer} :
    \A later \in (n + 1) .. fills : buffers[later].memory # buffers[n].memory

\* A stream of direct samples is never handed a chunk that was sampled in another
\* mode, however mode switches, reads and recycling interleave: nobody interprets
\* IQ pairs as direct samples.
DirectSamplesAreDirect ==
  [][\A r \in Receivers :
       /\ kind[r] \in DirectModes
       /\ task[r] \in {"running", "parked"}
       /\ item'[r] # item[r]
       /\ stream'[r] = "open"
       => buffers[item'[r]].truth.mode = kind[r]]_samplingVars

\* A stream that ended on a buffer of another mode (whose tag is right) did so
\* because the device was in that mode after the stream was opened, or because it
\* was its very first buffer, which may have been read before.
SwitchWasSeenOrInFlight ==
  \A r \in Receivers :
    LET buffer == buffers[item[r]]
    IN  stream[r] = "switched" /\ buffer.tag = buffer.truth =>
          /\ buffer.tag.mode # kind[r]
          /\ buffer.tag.mode \in since[r] \/ item[r] = first[r]

----------------------------------------------------------------------------
(* What the comments of the code say and the code does not do. *)

\* Comment on read_sync: with the lock held throughout, we know exactly what state
\* the handle is in when sampling, so the metadata of a buffer is how it was
\* sampled.
TagsTruthful ==
  \A n \in 1 .. fills : buffers[n].tag = buffers[n].truth

=============================================================================
