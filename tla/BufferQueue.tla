---------------------------- MODULE BufferQueue ----------------------------
(***************************************************************************)
(* The queue of buffer_queue.rs, which passes sample buffers from one      *)
(* Sender (the reader thread of an RtlSdr, or the connection task of an    *)
(* RtlTcpClient) to any number of Receivers.                               *)
(*                                                                         *)
(* Every operation of the code holds the mutex of SharedState from its     *)
(* first to its last access, so each is one action; swap_buffers is cut in *)
(* two where Condvar::wait gives the mutex up.  A Buffer is represented by *)
(* its number: the n-th buffer the producer filled.  A receiver belongs to *)
(* an async task, which a Pending poll parks and a Waker::wake resumes.    *)
(***************************************************************************)
EXTENDS Integers, Sequences, FiniteSets

CONSTANTS
  Capacity,      \* num_buffers, the argument of channel()
  Block,         \* the block argument of swap_buffers: TRUE in sampling.rs,
                 \* FALSE in rtl_tcp/client.rs
  Subscribers,   \* identities of Subscriber handles, free for reuse once dropped
  MaxReceivers,  \* bound: receivers ever created
  MaxFills       \* bound: buffers ever filled

ASSUME CapacityAssumption == Capacity \in Nat \ {0}   \* assert in channel()
ASSUME BlockAssumption == Block \in BOOLEAN
ASSUME SubscribersAssumption == IsFiniteSet(Subscribers)
ASSUME BoundsAssumption == MaxReceivers \in Nat /\ MaxFills \in Nat

VARIABLES
  \* SharedState
  num_senders, num_subscribers, num_receivers,
  slots, tail_pos, head_pos,
  wakers,            \* receiver ids that have a waker registered
  next_receiver_id,
  \* the condition variable receiver_count_changed
  notified,          \* TRUE if the waiting sender has been notified
  \* the producer
  sender,            \* where the thread or task that owns the Sender is
  push_buffer,       \* the filled buffer it will push next
  fills,             \* number of buffers filled so far
  \* the handles
  subscribers,       \* live Subscribers
  task,              \* task[r]: state of the task that polls receiver r
  read_pos,          \* read_pos[r]: field of receiver r
  item               \* item[r]: last buffer handed to r

positions == <<slots, tail_pos, head_pos>>
counts == <<num_senders, num_subscribers, num_receivers>>
producer == <<sender, push_buffer, fills>>
receivers == <<task, read_pos, item>>
vars == <<counts, positions, wakers, next_receiver_id, notified, producer,
          subscribers, receivers>>

Receivers == 0 .. (MaxReceivers - 1)
NoBuffer == 0

SenderStates ==
  {"swapping",  \* about to call swap_buffers
   "waiting",   \* in swap_buffers, asleep on the condition variable
   "filling",   \* owns a buffer and reads samples into it
   "stopping",  \* has left its loop, the Sender is about to be dropped
   "dropped"}
TaskStates ==
  {"absent",    \* the receiver has not been created yet
   "running",   \* the task will poll the receiver (again)
   "parked",    \* the last poll returned Pending, nothing woke the task since
   "ended",     \* the last poll returned Ready(None)
   "dropped"}
LiveStates == {"running", "parked", "ended"}
LiveReceivers == {r \in Receivers : task[r] \in LiveStates}

\* channel()
Init ==
  /\ num_senders = 1
  /\ num_subscribers = 1
  /\ num_receivers = 0
  /\ slots = <<>>
  /\ tail_pos = 0
  /\ head_pos = 0
  /\ wakers = {}
  /\ next_receiver_id = 0
  /\ notified = FALSE
  /\ sender = "swapping"
  /\ push_buffer = NoBuffer
  /\ fills = 0
  /\ \E s \in Subscribers : subscribers = {s}
  /\ task = [r \in Receivers |-> "absent"]
  /\ read_pos = [r \in Receivers |-> 0]
  /\ item = [r \in Receivers |-> 0]

----------------------------------------------------------------------------
(* Waking up the two sides. *)

\* Fault: the notification is forgotten.
NotifySender_Forgotten == UNCHANGED notified

\* notify_one and notify_all alike: only the sender ever waits.
NotifySender == notified' = (notified \/ sender = "waiting")

\* Fault: a drain that wakes one of the tasks and forgets the others.
WakeReceivers_OnlyOne ==
  /\ IF wakers = {}
     THEN UNCHANGED task
     ELSE LET r == CHOOSE w \in wakers : TRUE
          IN  task' = [task EXCEPT ![r] = IF @ = "parked" THEN "running" ELSE @]
  /\ wakers' = {}

\* The drain of wakers in push_buffer.
WakeReceivers ==
  /\ task' = [r \in Receivers |->
                IF r \in wakers /\ task[r] = "parked" THEN "running" ELSE task[r]]
  /\ wakers' = {}

----------------------------------------------------------------------------
(* The sender. *)

\* Sender::swap_buffers, from taking the mutex (or re-taking it after a
\* notification) until it returns or waits (again).

ReturnNone ==
  /\ Block /\ num_receivers = 0 /\ num_subscribers = 0
  /\ sender' = "stopping"
  /\ push_buffer' = NoBuffer
  /\ UNCHANGED <<positions, wakers, receivers>>

\* Fault: waits for a receiver without checking that one can still come.
AwaitReceivers_Unchecked ==
  /\ Block /\ num_receivers = 0
  /\ sender' = "waiting"
  /\ UNCHANGED <<positions, wakers, receivers, push_buffer>>

AwaitReceivers ==
  /\ Block /\ num_receivers = 0 /\ num_subscribers > 0
  /\ sender' = "waiting"
  /\ UNCHANGED <<positions, wakers, receivers, push_buffer>>

\* Fault: an off-by-one in the test of pop_buffer.
AtCapacity_Late(queue) == Len(queue) > Capacity

\* The slots after push_buffer, and whether pop_buffer then takes one out.
Pushed == IF push_buffer = NoBuffer THEN slots ELSE Append(slots, push_buffer)
AtCapacity(queue) == Len(queue) = Capacity

Exchange ==
  /\ Block => num_receivers > 0
  /\ IF AtCapacity(Pushed)
     THEN slots' = Tail(Pushed) /\ head_pos' = head_pos + 1
     ELSE slots' = Pushed /\ UNCHANGED head_pos
  /\ IF push_buffer = NoBuffer
     THEN UNCHANGED <<tail_pos, task, wakers>>
     ELSE tail_pos' = tail_pos + 1 /\ WakeReceivers
  /\ sender' = "filling"
  /\ push_buffer' = NoBuffer
  /\ UNCHANGED <<read_pos, item>>

SwapBuffers ==
  /\ sender = "swapping" \/ (sender = "waiting" /\ notified)
  /\ notified' = FALSE
  /\ ReturnNone \/ AwaitReceivers \/ Exchange
  /\ UNCHANGED <<counts, next_receiver_id, fills, subscribers>>

\* The producer's loop between two calls of swap_buffers: the buffer was
\* filled, or the read failed or returned nothing and the loop is left.
Fill ==
  /\ sender = "filling"
  /\ fills < MaxFills
  /\ fills' = fills + 1
  /\ push_buffer' = fills + 1
  /\ sender' = "swapping"
  /\ UNCHANGED <<counts, positions, wakers, next_receiver_id, notified,
                 subscribers, receivers>>

FillFails ==
  /\ sender = "filling"
  /\ sender' = "stopping"
  /\ UNCHANGED <<counts, positions, wakers, next_receiver_id, notified,
                 push_buffer, fills, subscribers, receivers>>

\* Drop for Sender
DropSender ==
  /\ sender = "stopping"
  /\ sender' = "dropped"
  /\ num_senders' = num_senders - 1
  /\ IF num_subscribers = 0 /\ num_receivers = 0
     THEN NotifySender
     ELSE UNCHANGED notified
  /\ UNCHANGED <<num_subscribers, num_receivers, positions, wakers,
                 next_receiver_id, push_buffer, fills, subscribers, receivers>>

----------------------------------------------------------------------------
(* Subscribers. *)

\* Clone for Subscriber
CloneSubscriber(s) ==
  /\ subscribers # {}
  /\ s \notin subscribers
  /\ subscribers' = subscribers \cup {s}
  /\ num_subscribers' = num_subscribers + 1
  /\ UNCHANGED <<num_senders, num_receivers, positions, wakers,
                 next_receiver_id, notified, producer, receivers>>

\* Drop for Subscriber
DropSubscriber(s) ==
  /\ s \in subscribers
  /\ subscribers' = subscribers \ {s}
  /\ num_subscribers' = num_subscribers - 1
  /\ UNCHANGED <<num_senders, num_receivers, positions, wakers,
                 next_receiver_id, notified, producer, receivers>>

----------------------------------------------------------------------------
(* Receivers. *)

\* What Subscriber::receiver and Clone for Receiver have in common: a new
\* receiver r that starts at pos.
AddReceiver(r, pos, last) ==
  /\ r < MaxReceivers
  /\ next_receiver_id' = next_receiver_id + 1
  /\ task' = [task EXCEPT ![r] = "running"]
  /\ read_pos' = [read_pos EXCEPT ![r] = pos]
  /\ item' = [item EXCEPT ![r] = last]
  /\ num_receivers' = num_receivers + 1
  /\ IF num_receivers' = 1 THEN NotifySender ELSE UNCHANGED notified
  /\ UNCHANGED <<num_senders, num_subscribers, positions, wakers, producer,
                 subscribers>>

\* Fault: a new receiver starts with the buffers that are already there.
NewReceiver_AtHead ==
  /\ subscribers # {}
  /\ AddReceiver(next_receiver_id, head_pos, head_pos)

\* Subscriber::receiver
NewReceiver ==
  /\ subscribers # {}
  /\ AddReceiver(next_receiver_id, tail_pos, tail_pos)

\* Fault: a derived Clone, which copies the fields but counts nothing.
CloneReceiver_Derived(r) ==
  /\ r \in LiveReceivers
  /\ next_receiver_id < MaxReceivers
  /\ next_receiver_id' = next_receiver_id + 1
  /\ task' = [task EXCEPT ![next_receiver_id] = "running"]
  /\ read_pos' = [read_pos EXCEPT ![next_receiver_id] = read_pos[r]]
  /\ item' = [item EXCEPT ![next_receiver_id] = item[r]]
  /\ UNCHANGED <<counts, positions, wakers, notified, producer, subscribers>>

\* Clone for Receiver
CloneReceiver(r) ==
  /\ r \in LiveReceivers
  /\ AddReceiver(next_receiver_id, read_pos[r], item[r])

\* Drop for Receiver
DropReceiver(r) ==
  /\ r \in LiveReceivers
  /\ task' = [task EXCEPT ![r] = "dropped"]
  /\ num_receivers' = num_receivers - 1
  /\ IF num_subscribers = 0 /\ num_receivers' = 0
     THEN NotifySender
     ELSE UNCHANGED notified
  /\ UNCHANGED <<num_senders, num_subscribers, positions, wakers,
                 next_receiver_id, producer, subscribers, read_pos, item>>

\* Fault: a receiver that lags behind is moved to the newest position.
CaughtUp_ToTail(r) == IF read_pos[r] < head_pos THEN tail_pos ELSE read_pos[r]

\* Receiver::poll_next.  A task that lags behind resumes at the oldest buffer.
CaughtUp(r) == IF read_pos[r] < head_pos THEN head_pos ELSE read_pos[r]

PollReady(r) ==
  /\ CaughtUp(r) < tail_pos
  /\ item' = [item EXCEPT ![r] = slots[CaughtUp(r) - head_pos + 1]]
  /\ read_pos' = [read_pos EXCEPT ![r] = CaughtUp(r) + 1]
  /\ task' = [task EXCEPT ![r] = "running"]
  /\ UNCHANGED wakers

PollEnded(r) ==
  /\ CaughtUp(r) >= tail_pos
  /\ num_senders = 0
  /\ read_pos' = [read_pos EXCEPT ![r] = CaughtUp(r)]
  /\ task' = [task EXCEPT ![r] = "ended"]
  /\ UNCHANGED <<item, wakers>>

PollPending(r) ==
  /\ CaughtUp(r) >= tail_pos
  /\ num_senders > 0
  /\ read_pos' = [read_pos EXCEPT ![r] = CaughtUp(r)]
  /\ task' = [task EXCEPT ![r] = "parked"]
  /\ wakers' = wakers \cup {r}
  /\ UNCHANGED item

\* A parked task may be polled for another reason (a select! in the server).
Poll(r) ==
  /\ task[r] \in {"running", "parked"}
  /\ PollReady(r) \/ PollEnded(r) \/ PollPending(r)
  /\ UNCHANGED <<counts, positions, next_receiver_id, notified, producer,
                 subscribers>>

----------------------------------------------------------------------------
Next ==
  \/ SwapBuffers
  \/ Fill
  \/ FillFails
  \/ DropSender
  \/ \E s \in Subscribers : CloneSubscriber(s) \/ DropSubscriber(s)
  \/ NewReceiver
  \/ \E r \in Receivers : CloneReceiver(r) \/ DropReceiver(r) \/ Poll(r)

Spec == Init /\ [][Next]_vars

\* The reader thread is scheduled, a read of the device completes, and the
\* executor polls the tasks that are not parked.  Users owe nothing.
Fairness ==
  /\ WF_vars(SwapBuffers)
  /\ WF_vars(Fill \/ FillFails)
  /\ WF_vars(DropSender)
  /\ \A r \in Receivers : WF_vars(task[r] = "running" /\ Poll(r))

FairSpec == Spec /\ Fairness

----------------------------------------------------------------------------
(* Safety *)

\* Every variable has its type.
TypeOK ==
  /\ num_senders \in {0, 1}
  /\ num_subscribers \in Nat
  /\ num_receivers \in Nat
  /\ slots \in Seq(Nat)
  /\ tail_pos \in Nat
  /\ head_pos \in Nat
  /\ wakers \subseteq Receivers
  /\ next_receiver_id \in 0 .. MaxReceivers
  /\ notified \in BOOLEAN
  /\ sender \in SenderStates
  /\ push_buffer \in Nat
  /\ fills \in Nat
  /\ subscribers \subseteq Subscribers
  /\ task \in [Receivers -> TaskStates]
  /\ read_pos \in [Receivers -> Nat]
  /\ item \in [Receivers -> Nat]

\* The counters that swap_buffers and poll_next base their decisions on count
\* the handles that exist: no clone or drop, in any order, is counted twice or
\* not at all (and so no counter ever underflows).
CountersMatchHandles ==
  /\ num_subscribers = Cardinality(subscribers)
  /\ num_receivers = Cardinality(LiveReceivers)
  /\ num_senders = IF sender = "dropped" THEN 0 ELSE 1

\* Whenever the mutex is free, the slots hold exactly the newest buffers pushed,
\* at most Capacity - 1 of them, in the order they were filled, and slot i holds
\* buffer head_pos + i.  So the assert in push_buffer and the expect in
\* pop_buffer cannot fail, and no buffer is dropped before it must be.
SlotsAreNewestBuffers ==
  /\ Len(slots) < Capacity
  /\ Len(slots) = tail_pos - head_pos
  /\ head_pos > 0 => Len(slots) = Capacity - 1
  /\ \A i \in 1 .. Len(slots) : slots[i] = head_pos + i
  /\ push_buffer # NoBuffer => push_buffer = tail_pos + 1

\* Every buffer the producer filled is pushed, or is the one it pushes next, and
\* a receiver's read_pos differs from what it was handed only by buffers that
\* have been taken out of the slots: nothing is skipped between the producer's
\* loop, the queue's numbering and the receivers' cursors.
NothingSkipped ==
  /\ sender \in {"swapping", "waiting", "filling"} =>
       fills = IF push_buffer = NoBuffer THEN tail_pos ELSE tail_pos + 1
  /\ sender = "filling" => push_buffer = NoBuffer
  /\ \A r \in Receivers :
       /\ task[r] = "absent" <=> r >= next_receiver_id
       /\ item[r] <= read_pos[r] /\ read_pos[r] <= tail_pos
       /\ item[r] < read_pos[r] => read_pos[r] <= head_pos

\* A task stays parked only while its receiver has read everything that was
\* pushed, and its waker is registered for the next push: however polls, pushes,
\* clones and drops interleave, no wake-up for a buffer is lost.
NoLostWakeup ==
  \A r \in Receivers :
    task[r] = "parked" => r \in wakers /\ read_pos[r] = tail_pos

\* A sender asleep on receiver_count_changed without a pending notification has
\* no receiver to serve: the notification for the first receiver is never lost.
SleepingSenderHasNoReceiver ==
  sender = "waiting" /\ ~notified => num_receivers = 0

\* The queue keeps the promise of LossyBroadcast: every receiver is handed the
\* buffers pushed since it was created, in order and once, loses only those that
\* left the window of Capacity - 1, and sees the end only after the last one.
Status ==
  [r \in Receivers |->
     CASE task[r] \in {"running", "parked"} -> "joined"
       [] task[r] = "dropped" -> "left"
       [] OTHER -> task[r]]
Broadcast == INSTANCE LossyBroadcast WITH
  Window <- Capacity - 1,
  published <- tail_pos,
  open <- (num_senders = 1),
  seen <- item,
  status <- Status
BroadcastSpec == Broadcast!Spec

----------------------------------------------------------------------------
(* Liveness *)

\* Once there is a receiver, the sender that waits for one goes back to filling
\* buffers (unless the receiver leaves again before it wakes up).
SenderServesReceivers ==
  (sender = "waiting" /\ num_receivers > 0)
    ~> (sender = "filling" \/ num_receivers = 0)

\* A sender that nobody can listen to any more stops, if it is not asleep at the
\* moment the last handle goes.
AwakeSenderStopsWhenAbandoned ==
  (num_receivers = 0 /\ num_subscribers = 0 /\ ~(sender = "waiting" /\ ~notified))
    ~> (sender = "dropped")

----------------------------------------------------------------------------
(* What the comments of the code say and the code does not do. *)

\* Comment on receiver_count_changed: when subscribers and receivers drop to 0,
\* the reader thread resumes, finds out nobody is left, and terminates.
SenderStopsWhenAbandoned ==
  (num_receivers = 0 /\ num_subscribers = 0) ~> (sender = "dropped")

\* Comments in poll_next: a receiver without buffers waits while there are still
\* writers, and yields None when there are no writers left.
ParkedReceiverSeesEnd ==
  \A r \in Receivers :
    (task[r] = "parked" /\ num_senders = 0) ~> (task[r] # "parked")

=============================================================================
