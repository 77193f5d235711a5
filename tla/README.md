# A TLA+ model of rtlsdr-async

`rtlsdr-async` gives async Rust programs access to RTL-SDR radios. This directory
holds TLA+ modules that model its concurrent core and both ends of its rtl_tcp
protocol, TLC configurations that check them on small instances, and proofs, checked
by TLAPS, that every safety property the runs check holds for all values of the
constants.
`PROJECT.json` lists the runs, the lines each definition translates, the hazards
and the findings. Paths below are relative to `src/rtlsdr-async/src/`.

    tlc -config BufferQueue.cfg MCBufferQueue     # a run
    tlapm BufferQueueProofs.tla                   # the proofs

## The system

| Component | Source | State | Operations | Interacts with |
|---|---|---|---|---|
| Buffer queue | `buffer_queue.rs` | `SharedState` behind a mutex (handle counters, slots, positions, wakers), a condition variable, a position per receiver | `swap_buffers`, `poll_next`, `receiver`, clones and drops of three kinds of handle | producer thread, async tasks |
| Reader thread | `sampling.rs` | the buffer it owns and the one it pushes next | swap, lock the handle, write metadata, reclaim memory, read | queue, device handle |
| Device handle | `handle.rs` | the device behind a mutex, the cached tuner gain mode | one method per library call | reader thread, control thread |
| Control thread | `control.rs` | one bounded queue and one thread per process, a oneshot channel per call | seventeen commands; callers send, await, may be dropped | callers, device handles |
| Streams | `lib.rs` | `Samples`: a receiver and a sampling mode; `Chunk`: a window of a shared buffer | open, poll, clone, slice | queue, control thread |
| rtl_tcp client | `rtl_tcp/client.rs` | connection task, command queue, current rate and mode | connect, send command, forward samples | queue, socket |
| rtl_tcp server | `rtl_tcp/server.rs` | command buffer, sample buffer, a stream and a chunk per connection | accept, select over shutdown, commands, samples | backend, socket |
| Command codec | `rtl_tcp/mod.rs` | none | encode, decode, apply | client, server |
| Enumeration | `enumerate.rs` | an index | next | librtlsdr |

Hard behaviours: the reader thread sleeps on a condition variable that handles
in other threads must notify; tasks sleep until the producer wakes them; receivers
lag behind a queue that drops its oldest buffers; memory is recycled while users
still hold chunks; a mode switch and the creation of a stream are two steps; a
future may be dropped at any await while its command stays queued; the single
control thread may panic; library calls fail halfway through a command. Over
rtl_tcp, a connection is one task that multiplexes two directions with `select!`,
which drops futures that were in the middle of something; the client cannot know
when the server has executed a command; a peer may stop reading, or go.

What makes each component correct:

- *Buffer queue*: no lost wake-up on either side, counters that match handles, an
  ordered stream without duplicates that loses only expired buffers, termination.
- *Sampling*: nobody's samples are overwritten, metadata is true, a stream yields
  samples of its own mode and ends only when it should.
- *Control*: effects in call order, each result to its own call, no call waits for
  ever, the gain mode cache agrees with the device.
- *Chunk*: a slice is the range it says, of whole samples.
- *rtl_tcp client*: tags are not behind the samples, a stream ends only if another
  mode was asked for, a failed call was not sent, every call returns, and the
  connection ends with its last handle, a client or a stream.
- *rtl_tcp server*: commands and samples get through whole and in order however they
  are cut up; a peer that does not read blocks nothing but its samples.
- *Codec*: a call on a client does to the device of the server what it would do to a
  local one.

## Modules

| Module | Models |
|---|---|
| `LossyBroadcast` | what users rely on: publish, join, deliver, expire, end. No locks, slots or wakers |
| `BufferQueue` | `buffer_queue.rs`, and the producer's loop as far as the queue can see it |
| `BufferQueueProofs` | theorems about `BufferQueue`, among them that it implements `LossyBroadcast` |
| `Sampling` | extends `BufferQueue` with the device, the contents of buffers, and `RtlSdr`, `Samples` and `Chunk` handles |
| `SamplingProofs` | theorems about `Sampling`: it is a buffer queue, recycles no memory that is in use, and keeps modes apart |
| `Control` | callers, queue, control thread, handles |
| `ControlProofs` | theorems about `Control`: order of effects, results, the cached gain mode |
| `Chunk` | `Chunk::slice` and `Buffer::slice` |
| `ChunkProofs` | theorems about `Chunk`: what a slice is |
| `RtlTcpClient` | extends `BufferQueue` with the connection task of `rtl_tcp/client.rs`, its queue of commands, `RtlTcpClient` and `Samples` handles, and a server that executes commands late |
| `RtlTcpClientProofs` | theorems about `RtlTcpClient`: it is a buffer queue; tags, ends of streams, failed calls |
| `RtlTcpServer` | `serve` and one connection of `rtl_tcp/server.rs`, by the byte |
| `RtlTcpServerProofs` | theorems about `RtlTcpServer`: commands and samples get through |
| `RtlTcpConnection` | extends `RtlTcpServer` with a client that waits for the header |
| `TunerGain` | `set_tuner_gain` of `control.rs`: the search for the nearest supported gain, in two's complement, and the two library calls after it |
| `RtlTcpCommand` | `rtl_tcp/mod.rs`: the commands of each call, encode, decode, apply |
| `RtlTcpCalls` | composes the two: calls on clones of a client, and the device behind the server |
| `RtlTcpCallsProofs` | theorems about `RtlTcpCalls` and the codec: decoding inverts encoding, calls are applied as made, the nearest gain |
| `MCBufferQueue`, `MCSampling`, `MCControl`, `MCRtlTcpClient`, `MCRtlTcpCalls` | constants and symmetry sets for TLC |

`Sampling` and `RtlTcpClient` are the two producers of `BufferQueue`, one with `block`
and one without. `RtlTcpClient` and `RtlTcpServer` treat commands as opaque, and follow
them through tasks, buffers and failures; `RtlTcpCalls` looks at what is in them, and
treats the connection as a queue that may be lost. `RtlTcpServer` ends where `Backend`
begins, which is an `RtlSdr` (`Control`, `Sampling`) or another client.

Definitions whose comment starts with "Fault:" are not part of any specification.
Each is a plausible bug in the definition that follows it; with the definition
replaced by its fault, TLC finds a property violated. They are in the modules to
show that every property is able to fail.

### BufferQueue

Every operation takes the mutex once and keeps it, so each is one action.
`swap_buffers` is the exception: `Condvar::wait` releases the mutex. `SwapBuffers`
is the code from taking the mutex to returning or waiting; it is enabled when the
producer calls it (`sender = "swapping"`) and when the waiting producer has been
notified. Its three outcomes are `ReturnNone`, `AwaitReceivers` and `Exchange`.
The condition variable of `parking_lot` has no spurious wake-ups, and only the one
sender ever waits on it, so `notified` is one bit.

A buffer is its number: the n-th that was filled. `item[r]`, the last number
receiver `r` was handed, is not a field of the code: it is what the user saw.
`task[r]` is the async task that owns the receiver: a poll that returns `Pending`
parks it, a wake resumes it. It may also be polled while parked, since a
`select!` polls all its branches. Receiver ids are never reused (as in the code);
identities of subscribers are.

### Sampling

`read_to_buffer` keeps the handle locked throughout, so a whole read is one action
(`ReadToBuffer`, or `ReadFails` for every way out of the loop). `buffers[n]` says what
the metadata of buffer n claims (`tag`), how it was really sampled (`truth`), and in
whose memory it lives. `Reclaimable` is `Arc::get_mut`: it looks at chunks that users
hold. `RtlSdr::samples` is `Configure` (the control thread switches the mode on its
behalf) and `OpenStream`, and may be abandoned in between (`Abandon`) or before, when
the command is executed all the same (`ConfigureAbandoned`). A sample rate of 0 means
that none was set; the code's `get_sample_rate` then fails and the reader thread exits.

### Control

`other` stands for all commands but `set_tuner_gain`: they are one library call, or one
that reads and one that then writes under one lock (the crystal frequencies, direct
sampling), or none (`set_bias_tee`). `Unsupported` is the error that `set_offset_tuning`
returns without sending anything. `manual_far` is a manual gain so far from
the supported ones that the subtraction in the search for the nearest overflows; with
`OverflowChecks` the control thread panics. The message being executed is lost
with it, as are all that are queued, and with each its oneshot sender. A library
call that fails is taken to leave the device as it was, and no other command to change
the gain mode: both are assumptions on librtlsdr. The order in which
waiting senders get a place in the queue is left open.

### Chunk

Positions are numbers of bytes. A range is a pair of bounds, each included,
excluded or absent, at any `usize`. A failed assertion is the state `panicked`, as is
an overflow in a build that checks (`checked`); in the other kind of build sums and
products wrap around.

### RtlTcpClient

`connection` is where `handle_connection` is; the producer's part of it is that of
`BufferQueue`: `Swap`, `ReadExact` and `ReadFails` are the loop of `forward_samples`,
`TakeCommand`, `Flush`, `FlushFails` and `CommandsEnd` that of `forward_commands`. Both
are polled by one task, so that commands are only taken while the other half awaits
`read_exact` (`AtAwait`). `swap_buffers` does not block here, and is an action of its
own only because it is one in `BufferQueue`. The end of either half is `Close`: it drops
the receiver of the queue, and with every message in it the sender of its result.

Commands are numbered as they are taken from the queue, so that `ReceiverState` is a
number, too (`receiver_state`): that of the last command it reflects. The server
executes commands in order but at any later time, and any amount of samples may be on
the way, so that `ReadExact` may get samples of any age since the last buffer. `other`
stands for all commands but the choice of a sampling mode; the sample rate is tagged in
the same way. A call may be dropped at any of its two awaits. Streams are not cloned
here, as they are in `Sampling`.

### RtlTcpServer and RtlTcpConnection

`serving` is the accept loop. For a connection, the state `select` is that of waiting
at the `select!`; each branch that becomes ready is an action. A branch that is dropped
loses nothing that is not in a variable here: bytes of a command in `data`, the rest
of a chunk, the samples from `read_pos` to `write_pos`, and what `BufWriter` has taken
(`writer`). The writer is tokio's: it makes room first if data does not fit, gives
data as large as itself to the socket directly, and may stop in the middle of the
first (`flushing`). It is never flushed otherwise, so that up to its capacity is
withheld from a peer while no more samples come, and lost when the connection closes.
Only commands are awaited outside the `select!` (`handling`); while one is handled,
samples and the shutdown wait.

Bytes are numbered, by which order, loss and duplication show. The decoding is left
to `RtlTcpCommand`: here a command is valid or not.

In `RtlTcpConnection` a client reads the header off what the server writes.

### TunerGain, RtlTcpCommand and RtlTcpCalls

Integers have `Half` values where the code has 16 bits, and `Half` squared where it
has 32, and are converted in two's complement. A usize is at most one more than an
u32. The distances of gains wrap around, as in a build without overflow checks (the
panic of the other build is in `Control`).

`SetTunerGain` is the set of results that `set_tuner_gain` may have, each an `Ok` or an
error and the tuner after it: it may fail before it does anything (there is no such gain,
the first library call fails, or the control thread is dead), or after the manual mode
was set. The device then reports that it has no gain, by a 0 (`NoGain`, from the comment
in `get_tuner_gain`).

`RtlTcpCalls` sends the commands of a call one by one. A call that is given up leaves
the rest out, and a lost connection delivers a prefix of what is on the way. `completed`
lists the calls that were sent whole, but for the choices of a sampling mode, which the
server ignores. The
server handles one command at a time, and only logs an error; `failed` says which of the
gain calls on its backend returned one. Of all other calls no more is said than that
they were made.

## Runs

| Run | Bounds | Shows |
|---|---|---|
| `BufferQueue` | capacity 3, 3 receivers, 5 fills, 2 subscribers | six invariants and the refinement of `LossyBroadcast`; the sender serves receivers; it stops if it is awake when the last handle goes |
| `Sampling` | capacity 2, 2 receivers, 2 subscribers, 3 fills | no visible buffer is overwritten; direct streams yield direct samples; why a stream may end |
| `Control` | 2 callers, 2 calls each, queue of 2, 1 device | order, results, panic, cached gain mode; every call returns |
| `Chunk` | both widths, up to 10 bytes, a usize of 5 bits, with and without overflow checks | ranges of all kinds for bytes, half-open ranges for IQ samples; slices of slices |
| `RtlTcpCalls` | 2 clones, 2 calls, integers of 2 and 4 bits, 4 gains; values at the edges, all gains and modes | calls do at the server what they say; the gain of the last call that succeeded |
| `RtlTcpClient` | capacity 2, 1 receiver, 2 fills, 2 clients, queue of 1, 2 commands | tags, ends of streams, failed calls; calls return; the connection ends with the last handle |
| `RtlTcpServer` | commands of 5 bytes, 10 bytes of input; buffer of 3 samples, writer of 4 bytes, chunks of 1 and 4, 6 samples | commands and samples get through; shutdown, commands and hang-up under back-pressure |

Capacity 3 is the least at which the queue holds more than one buffer and drops one
of several; five fills make it wrap around while a receiver is anywhere in it.
Three receivers let a clone be made of one that lags behind another. With capacity
2 and three fills a buffer is recycled and read into while another is in the queue and
a third in a user's hands; the proof covers the rest. One
direct mode and one rate suffice because the code only compares modes and copies
rates. Two calls put a cancelled call and its successor in flight, and two callers
fill a queue of two. Ten bytes are five samples, enough for a slice of a slice that
starts and ends inside; a usize of 5 bits lets products and sums overflow together and
one by one.

For the client, two commands are one that opens a stream and one that switches the mode,
or one that fills the queue while another waits for room; two fills are a buffer before
and one after a switch. For the server, the input is two commands; a chunk of four
samples does not fit into the sample buffer, and one of one does not fill it; two
samples of separate writes fit into the writer together, a third makes it flush, and
three at once go past it, in odd and even parts. Calls with integers of four bits reach
both ends of each type and gains whose difference wraps around; two calls on two clones
interleave a gain call with every other call.

Queue lengths, slots, calls and receivers are bounded by
the constants named in the modules; nothing else is.

Deadlock is not checked where the system may really stop: when all handles are
gone, the bounds are used up, the server has returned, or a chunk is not used after a
panic.

### What the code does not do

Five runs are expected to fail. Each states what a comment says and TLC finds a
behaviour of the code that contradicts it.

- `BufferQueueAbandoned`: dropping the last `RtlSdr` while the reader thread waits
  leaves the thread asleep and the device open for ever (`buffer_queue.rs:194`).
  `AwakeSenderStopsWhenAbandoned` is the part that does hold.
- `BufferQueueNoEnd`: a receiver that is parked when the producer goes is never
  woken; its stream does not end (`buffer_queue.rs:306`).
- `SamplingTags`: while a user holds a chunk, the buffer that replaces it loses the
  metadata just written (`sampling.rs:76-80`). It then claims sample rate 0 and
  IQ: direct streams end without cause, and an IQ stream may yield direct samples.
- `RtlTcpClientStreams`: when the last `RtlTcpClient` is dropped, the connection ends
  although a stream is being read (`rtl_tcp/client.rs:356`); `buffer_queue.rs:121-122`
  says not to close the channel if there are receivers. `ConnectionEndsWithLastHandle`
  is what must hold in any case.
- `RtlTcpHandshake`: the server never writes `MAGIC` and `DongleInfo`
  (`rtl_tcp/server.rs:269`). A client of this library takes samples for the header, and
  `connect()` fails.

The modules show more, without a run of its own:

- With `block = false`, `swap_buffers` never returns `None` (`buffer_queue.rs:339`);
  the client's "all readers dropped" is never reached.
- A range of IQ samples with an included end (`buffer_queue.rs:72`) or an excluded start
  (`buffer_queue.rs:68`) leaves half a sample: `slice` translates the bounds to bytes
  and then adds one byte. That is why `HalfOpenSliceSelectsRange` leaves both out.
- Without overflow checks, a bound near the greatest `usize` wraps around, and slicing by
  a range that ends far behind the chunk may select samples instead of panicking
  (`..=usize::MAX` leaves no bytes). That is the exception `NoWrapAround`.
- A manual gain that fails half way leaves the device in manual mode without a gain
  (`control.rs:391`), which a client of the server does not learn: the exception in
  `GainIsNearest`.
- A stream opened right after a mode switch may be handed the buffer that was read
  before it, and end (`lib.rs:321`): this is the exception in `SwitchWasSeenOrInFlight`.
- The server ignores `SetDirectSampling` (`rtl_tcp/server.rs:417`). A client that
  connects to it and asks for direct samples tags IQ samples as direct ones. That is
  why `AppliedAsCalled` leaves the choice of a mode out.
- An odd number of bytes accepted by the socket ends a connection by a panic
  (`rtl_tcp/server.rs:226`, `ConfirmRead`).
- An error of the listener ends `serve` (`rtl_tcp/server.rs:115`, `AcceptFails`).

## Fairness

- `BufferQueue`: the reader thread runs (`SwapBuffers`, `DropSender`), a read of the
  device ends (`Fill` or `FillFails`), and the executor polls tasks that are not
  parked. Nothing is assumed of users: they may keep their handles for ever. A
  parked task may be polled for another reason, but no fairness makes that happen.
- `Control`: the thread receives, a read ends, and a task that can proceed is polled.
  Two strong assumptions: `Execute`, because a reader takes the handle again
  and again and `parking_lot` mutexes are eventually fair, so that a thread that
  waits does get it; and `Send`, because tokio's semaphore serves waiting senders
  in the order they came. Callers need not cancel nor make a next call.
- `RtlTcpClient`: the task is polled (`Swap`, `ConnectionEnds`). `ForwardCommands` is
  strong: it is disabled whenever the other half has a buffer to push, but a
  `select!` polls both, and tokio's budget makes even a socket that always has data
  await now and then. A flush ends, since a server that is alive reads its commands.
  Waiting senders get a place in the queue in their turn. Users and the server's
  samples owe nothing.
- `RtlTcpServer`: `select!` polls its branches in a random order, so that a branch that
  is ready again and again is taken (strong fairness of `Shutdown`, `ReadCommand`,
  `InputEnds`, `ServeShutdown`). The backend answers (`HandleCommand`, `HandleAccept`),
  which is `EveryCallReturns` of `Control`. The peer need not send, read or hang up, and
  the backend's stream need not yield.

## Proofs

`BufferQueueProofs` proves for every `Capacity` (a positive number), both values of
`Block`, every finite set of `Subscribers`, and any bounds on receivers and fills:

- `TypeCorrectness`, `CountersCorrect`, `SlotsCorrect`, `NothingSkippedCorrect`,
  `NoWakeupIsLost`, `NoReceiverIsIgnored`: the six invariants of the run
  `BufferQueue`;
- `Refinement`: `Spec => BroadcastSpec`, the queue implements `LossyBroadcast`.

The inductive invariant `IInv` is the conjunction of the six. `NothingSkipped` is
the strengthening: without the fact that `push_buffer` bears the number after the
last one pushed, `SlotsAreNewestBuffers` is not preserved by a push, and without
the fact that ids from `next_receiver_id` on are unused, `CountersMatchHandles` is
not preserved by a new receiver. There is one lemma per action (`FillIInv`,
`PollIInv`, ...), and cardinality lemmas for a receiver more or less. For the
refinement, `CaughtUpIsPassed` says that the position a receiver is moved to is what
the abstract specification calls the last item it will never see; it needs
`Len(slots) = Capacity - 1` once something was popped. Each action then maps
to one abstract action or to a stutter.

`SamplingProofs` and `RtlTcpClientProofs` show of the two users of the queue that every
step is a step of the queue or leaves it alone (`SamplingIsQueue`, `ClientIsQueue`), so
that all of the above holds of them, and each implements `LossyBroadcast`
(`SamplingBroadcasts`, `ClientBroadcasts`).

`SamplingProofs` proves, for any sets of modes and rates besides:

- `SamplingTypes`: `SamplingTypeOK`. It needs to know which buffer a full queue returns:
  the inductive invariant `SamplingInv` says that it is number `head_pos`
  (`OldestIsHead`), and that no more buffers were pushed than filled.
- `MemoryIsSafe`: `NoChunkOverwritten`. That is not inductive, because it says nothing
  of the memory that is about to be reclaimed. `MemoryInv` treats the recycled buffer
  as visible, too, and names memory after the first buffer in it. The
  interesting step is a read into reclaimed memory (`ReadMemoryInv`): no chunk has that
  memory, which is what `Arc::get_mut` finds out; nor has a buffer in the slots, since
  it is later than the recycled one, whose memory was apart from all later ones.
- `SwitchIsSeenOrInFlight`: `SwitchWasSeenOrInFlight` is about the buffer a stream ended
  on. `SwitchInv` is about those it has not been handed yet: each after its first
  was sampled in a mode that the device was in since the stream was opened. That at most one
  buffer is filled and not pushed makes the first the only exception.
- `DirectSamplesAreNothingElse`: the action property `DirectSamplesAreDirect`, from the
  part of `SwitchInv` that says that a tag is true or the default one, which is not direct.

`RtlTcpClientProofs` proves, for any queue and any numbers of clients, streams and
commands:

- `TagsAreNeverBehind`: samples reflect at most what the server executed, that is
  at most what was sent to it, and that at most what the client has taken, which is what
  it tags buffers with (`TagsInv`).
- `SwitchesAreAsked`: no command is taken while a buffer waits to be pushed, so that each
  buffer pushed reflects all commands taken; those a stream can still be handed are
  later than the command that opened it (`StreamsInv`).
- `ClosedCommandsAreNotSent`: every command is in one place, with its call, in the queue
  or taken, because their numbers differ (`MessagesInv`, `CallsInv`).
- `ClientTypes`: `ClientTypeOK`, of which one part is not a matter of types: at most as
  many commands are taken as were sent, by the pigeonhole principle (`TakenAtMostOnce`).

`ControlProofs` proves for all callers and devices, any queue and either kind of
build `EffectsAreInCallOrder`, `ResultsBelongToCalls`, `DeadThreadHadNoEffect`,
`CacheIsReal` and `ControlTypes`. They hold together, by `ControlInv`, which adds that a
dead thread has no queue, and that a call that waits for room is later than all its
caller's messages in flight. Without the former, a message could be found in the
queue after its caller was told that the thread is dead; without the latter, `Send`
could break the order.

`RtlTcpServerProofs` proves for commands of any length, any sizes of chunks, sample
buffer and `BufWriter`, and any input:

- `CommandsArriveAsSent`: the bytes consumed are those of the commands handed over, then
  those in the command buffer (`CommandsInv`). The lemma `ReadCommandInv` is about
  `read_buf`, which returns any number of bytes in any number of calls.
- `SamplesArriveAsYielded` and `SampleBufferIsUsable`: socket, writer, sample buffer and
  chunk follow each other without a gap (`SamplesInv`). One sample is two bytes, and the
  cut is always between samples, except after the panic of `confirm_read`.
- `ServerTypes`.

`ChunkProofs` proves for buffers and a `usize` of any size, and both kinds of build, that
a slice, of a slice of a slice, is what its range says: `SlicesSelectRanges` and
`HalfOpenSlicesSelectRanges`. The invariant is that the window lies in the buffer and
does not end before it starts; a range that overflows then ends behind it.

`RtlTcpCallsProofs` proves for every width of the integers (`Half` is even) and every
list of gains:

- `DecodeInvertsEncode`: decoding inverts encoding, for all fourteen commands. It rests on
  `SignedInverts` (two's complement) and `Halves` (two 16-bit arguments in one word).
- `CallsAreAppliedAsCalled`: `AppliedAsCalled` says nothing of commands on the way. The
  invariant (`WireInv`, `TodoInv`) counts for each of them how many calls
  will have been applied when it is handled: only the last command of a call has an effect
  (`CommandsOfCall`), and that is the call.
- `TheGainIsNearest`: `SetTunerGainResults` says what is left by a call that succeeds
  and by one that fails, and that a failed one changes the gain only to none.
  `NearestIsClosest` says that the search finds a gain at the least distance, because a
  set of numbers has a least element (`LeastNumber`), and `DistanceIsDifference` that
  the distance is the difference if that fits.
- `CallsTypes`.

The assumptions are those on the constants, next to their declarations. TLC
evaluates them. The list of gains may be empty: the tuner then has none, and every
manual gain fails.

Each inductive invariant was checked by TLC on the instance of the component's run
before it was proved.

Only model-checked: liveness (`SenderServesReceivers`, `AwakeSenderStopsWhenAbandoned`,
`EveryCallReturns`, `EveryCommandReturns`, `ConnectionEndsWithLastHandle`,
`ShutdownEndsAll`, `CommandsAreHandled`, `HangUpIsNoticed`), which is out of the
prover's reach; and the runs that are expected to fail, whose counterexamples are theirs.

## Not modelled, and why

- The life cycle of a device (`Handle::open`, `Drop`): calls of librtlsdr in a row, and
  an `Arc`. `Handle::open` leaks the device if its tuner is unknown (`handle.rs:59`).
- The values of frequencies and rates: they are passed on. The two crystal frequencies
  are read and written under one lock; what comes of that depends on librtlsdr.
- Which gain is chosen if a difference of gains does not fit into an i32: `GainIsNearest`
  only says that it is a supported one (with overflow checks the control thread panics,
  see `Control`).
- Several connections of a server: they share the token and the backend, nothing else.
- Failures of `TcpStream::connect` and `bind`: an error, before there is any state.
- Device enumeration, conversion to `f32`, command line, examples: no state, or
  strings and floating point.
- Poisoned or failing locks: `parking_lot` has none.
- Overflow of `tail_pos` and `next_receiver_id` (`usize`): at one buffer per
  microsecond a 64-bit counter lasts for half a million years.

## Plan

1. Done: `LossyBroadcast`, `BufferQueue` and its proofs; `Sampling`; `Control`; `Chunk`.
2. Done: `RtlTcpClient`, `RtlTcpServer`, `RtlTcpConnection`; `TunerGain`, `RtlTcpCommand`,
   `RtlTcpCalls`; that both users of the queue implement it; the safety of memory.
3. Done: proofs of all safety properties, in `SamplingProofs`, `RtlTcpClientProofs`,
   `ControlProofs`, `RtlTcpServerProofs`, `ChunkProofs` and `RtlTcpCallsProofs`.
4. Next: an abstract specification of the calls on one device, which `RtlTcpCalls` should
   implement as it does `AppliedAsCalled`; the safety half of the liveness
   properties (a step of the program is enabled while a call is pending) as state
   predicates that can be proved.
5. The life cycle of a device, if it comes to have more than one owner that closes it.
