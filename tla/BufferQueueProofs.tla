------------------------- MODULE BufferQueueProofs -------------------------
(***************************************************************************)
(* Proofs about the buffer queue, for every Capacity, every finite set of  *)
(* Subscribers, both values of Block, and any number of receivers and      *)
(* fills: the safety invariants of BufferQueue, and that BufferQueue       *)
(* implements LossyBroadcast.                                              *)
(***************************************************************************)
EXTENDS BufferQueue, FiniteSetTheorems, TLAPS

\* The inductive invariant.  SlotsAreNewestBuffers needs NothingSkipped, which
\* says which buffer is pushed next; CountersMatchHandles needs it too, because
\* it says that a new receiver id has not been used.
IInv ==
  /\ TypeOK
  /\ CountersMatchHandles
  /\ SlotsAreNewestBuffers
  /\ NothingSkipped
  /\ NoLostWakeup
  /\ SleepingSenderHasNoReceiver

----------------------------------------------------------------------------
(* Counting live receivers. *)

\* The set of live receivers is finite, so its cardinality is a number.
LEMMA LiveReceiversFinite ==
  /\ IsFiniteSet(LiveReceivers)
  /\ Cardinality(LiveReceivers) \in Nat
<1>1. IsFiniteSet(Receivers)
  BY FS_Interval, BoundsAssumption DEF Receivers
<1>2. IsFiniteSet(LiveReceivers)
  BY <1>1, FS_Subset DEF LiveReceivers
<1>. QED  BY <1>2, FS_CardinalityType

\* A receiver that comes into being is one more.
LEMMA OneMoreReceiver ==
  ASSUME NEW r \in Receivers, task \in [Receivers -> TaskStates],
         task[r] = "absent", task' = [task EXCEPT ![r] = "running"]
  PROVE  Cardinality(LiveReceivers') = Cardinality(LiveReceivers) + 1
<1>1. LiveReceivers' = LiveReceivers \cup {r}
  BY DEF LiveReceivers, LiveStates
<1>2. r \notin LiveReceivers
  BY DEF LiveReceivers, LiveStates
<1>. QED  BY <1>1, <1>2, LiveReceiversFinite, FS_AddElement

\* A live receiver that is dropped is one less.
LEMMA OneReceiverLess ==
  ASSUME NEW r \in Receivers, task \in [Receivers -> TaskStates],
         task[r] \in LiveStates, task' = [task EXCEPT ![r] = "dropped"]
  PROVE  /\ Cardinality(LiveReceivers') = Cardinality(LiveReceivers) - 1
         /\ Cardinality(LiveReceivers') \in Nat
<1>1. LiveReceivers' = LiveReceivers \ {r}
  BY DEF LiveReceivers, LiveStates
<1>2. r \in LiveReceivers
  BY DEF LiveReceivers
<1>. QED  BY <1>1, <1>2, LiveReceiversFinite, FS_RemoveElement, FS_CardinalityType

\* Draining the wakers changes neither which receivers are alive nor absent, and
\* leaves no task parked that has registered a waker.
LEMMA WakeReceiversFacts ==
  ASSUME task \in [Receivers -> TaskStates], WakeReceivers
  PROVE  /\ task' \in [Receivers -> TaskStates]
         /\ LiveReceivers' = LiveReceivers
         /\ \A r \in Receivers : (task'[r] = "absent") <=> (task[r] = "absent")
         /\ \A r \in Receivers :
              task'[r] = "parked" => task[r] = "parked" /\ r \notin wakers
         /\ \A r \in Receivers :
              task'[r] = task[r] \/ (task[r] = "parked" /\ task'[r] = "running")
  BY DEF WakeReceivers, LiveReceivers, LiveStates, TaskStates

\* Polling changes neither which receivers are alive nor which are absent.
LEMMA PollFacts ==
  ASSUME NEW r \in Receivers, task \in [Receivers -> TaskStates], Poll(r)
  PROVE  /\ task' \in [Receivers -> TaskStates]
         /\ LiveReceivers' = LiveReceivers
         /\ \A q \in Receivers : (task'[q] = "absent") <=> (task[q] = "absent")
<1>1. PICK state \in {"running", "ended", "parked"} :
        task' = [task EXCEPT ![r] = state]
  BY DEF Poll, PollReady, PollEnded, PollPending
<1>2. task[r] \in {"running", "parked"}
  BY DEF Poll
<1>. QED  BY <1>1, <1>2 DEF LiveReceivers, LiveStates, TaskStates

----------------------------------------------------------------------------
(* The initial state. *)

\* channel() establishes the inductive invariant.
LEMMA InitIInv == Init => IInv
<1>. SUFFICES ASSUME Init PROVE IInv
  OBVIOUS
<1>1. PICK s \in Subscribers : subscribers = {s}
  BY DEF Init
<1>2. LiveReceivers = {}
  BY DEF Init, LiveReceivers, LiveStates
<1>3. Cardinality(subscribers) = 1 /\ Cardinality(LiveReceivers) = 0
  BY <1>1, <1>2, FS_Singleton, FS_EmptySet
<1>4. TypeOK
  <2>1. slots \in Seq(Nat)
    BY DEF Init
  <2>2. task \in [Receivers -> TaskStates]
    BY DEF Init, TaskStates
  <2>3. subscribers \subseteq Subscribers
    BY <1>1
  <2>4. read_pos \in [Receivers -> Nat] /\ item \in [Receivers -> Nat]
    BY DEF Init
  <2>5. wakers \subseteq Receivers /\ notified \in BOOLEAN
    BY DEF Init
  <2>6. /\ num_senders \in {0, 1} /\ num_subscribers \in Nat /\ num_receivers \in Nat
        /\ tail_pos \in Nat /\ head_pos \in Nat
        /\ next_receiver_id \in 0 .. MaxReceivers
        /\ push_buffer \in Nat /\ fills \in Nat /\ sender \in SenderStates
    BY BoundsAssumption DEF Init, SenderStates, NoBuffer
  <2>. QED  BY <2>1, <2>2, <2>3, <2>4, <2>5, <2>6 DEF TypeOK
<1>5. CountersMatchHandles
  BY <1>3 DEF Init, CountersMatchHandles
<1>6. SlotsAreNewestBuffers
  BY CapacityAssumption DEF Init, SlotsAreNewestBuffers, NoBuffer
<1>7. NothingSkipped
  BY DEF Init, NothingSkipped, NoBuffer, Receivers
<1>8. NoLostWakeup /\ SleepingSenderHasNoReceiver
  BY DEF Init, NoLostWakeup, SleepingSenderHasNoReceiver
<1>. QED  BY <1>4, <1>5, <1>6, <1>7, <1>8 DEF IInv

----------------------------------------------------------------------------
(* Every action preserves the inductive invariant. *)

\* The number of handles is not the concern of an action that leaves the counts,
\* the subscribers and the set of live receivers alone.
LEMMA CountersUnchanged ==
  ASSUME CountersMatchHandles, UNCHANGED <<counts, subscribers>>,
         LiveReceivers' = LiveReceivers,
         sender' = "dropped" <=> sender = "dropped"
  PROVE  CountersMatchHandles'
  BY DEF CountersMatchHandles, counts

\* The return of None from swap_buffers preserves the inductive invariant.
LEMMA ReturnNoneIInv == IInv /\ SwapBuffers /\ ReturnNone => IInv'
<1>. SUFFICES ASSUME IInv, SwapBuffers, ReturnNone PROVE IInv'
  OBVIOUS
<1>. USE DEF IInv
<1>0. UNCHANGED <<num_senders, num_subscribers, num_receivers, slots, tail_pos,
                  head_pos, wakers, next_receiver_id, fills, subscribers, task,
                  read_pos, item>>
      /\ sender' = "stopping" /\ push_buffer' = NoBuffer /\ notified' = FALSE
  BY DEF SwapBuffers, ReturnNone, counts, positions, receivers
<1>1. TypeOK'
  BY <1>0 DEF TypeOK, SenderStates, NoBuffer
<1>2. CountersMatchHandles'
  <2>1. LiveReceivers' = LiveReceivers
    BY <1>0 DEF LiveReceivers
  <2>. QED  BY <1>0, <2>1, CountersUnchanged DEF SwapBuffers
<1>3. SlotsAreNewestBuffers'
  BY <1>0 DEF SlotsAreNewestBuffers
<1>4. NothingSkipped'
  BY <1>0 DEF NothingSkipped
<1>5. NoLostWakeup' /\ SleepingSenderHasNoReceiver'
  BY <1>0 DEF NoLostWakeup, SleepingSenderHasNoReceiver
<1>. QED  BY <1>1, <1>2, <1>3, <1>4, <1>5

\* A sender goes to sleep only while there is no receiver, and takes its
\* notification with it: the inductive invariant is preserved.
LEMMA AwaitReceiversIInv == IInv /\ SwapBuffers /\ AwaitReceivers => IInv'
<1>. SUFFICES ASSUME IInv, SwapBuffers, AwaitReceivers PROVE IInv'
  OBVIOUS
<1>. USE DEF IInv
<1>0. UNCHANGED <<num_senders, num_subscribers, num_receivers, slots, tail_pos,
                  head_pos, wakers, next_receiver_id, push_buffer, fills,
                  subscribers, task, read_pos, item>>
      /\ sender' = "waiting" /\ notified' = FALSE /\ num_receivers = 0
      /\ sender \in {"swapping", "waiting"}
  BY DEF SwapBuffers, AwaitReceivers, counts, positions, receivers
<1>1. TypeOK'
  BY <1>0 DEF TypeOK, SenderStates
<1>2. CountersMatchHandles'
  <2>1. LiveReceivers' = LiveReceivers
    BY <1>0 DEF LiveReceivers
  <2>. QED  BY <1>0, <2>1, CountersUnchanged DEF SwapBuffers
<1>3. SlotsAreNewestBuffers'
  BY <1>0 DEF SlotsAreNewestBuffers
<1>4. NothingSkipped'
  BY <1>0 DEF NothingSkipped
<1>5. NoLostWakeup' /\ SleepingSenderHasNoReceiver'
  BY <1>0 DEF NoLostWakeup, SleepingSenderHasNoReceiver
<1>. QED  BY <1>1, <1>2, <1>3, <1>4, <1>5

\* The exchange appends push_buffer, number tail_pos + 1, and takes the oldest
\* buffer out when that makes the queue full.
LEMMA ExchangeIInv == IInv /\ SwapBuffers /\ Exchange => IInv'
<1>. SUFFICES ASSUME IInv, SwapBuffers, Exchange PROVE IInv'
  OBVIOUS
<1>. USE DEF IInv
<1>0. UNCHANGED <<num_senders, num_subscribers, num_receivers, next_receiver_id,
                  fills, subscribers, read_pos, item>>
      /\ sender' = "filling" /\ notified' = FALSE /\ push_buffer' = NoBuffer
      /\ sender \in {"swapping", "waiting"}
  BY DEF SwapBuffers, Exchange, counts, positions, receivers
<1>1. task \in [Receivers -> TaskStates] /\ slots \in Seq(Nat) /\ push_buffer \in Nat
      /\ tail_pos \in Nat /\ head_pos \in Nat /\ Capacity \in Nat \ {0}
  BY CapacityAssumption DEF TypeOK
<1>2. /\ task' \in [Receivers -> TaskStates] /\ wakers' \subseteq Receivers
      /\ LiveReceivers' = LiveReceivers
      /\ \A r \in Receivers : (task'[r] = "absent") <=> (task[r] = "absent")
  <2>1. CASE push_buffer = NoBuffer
    BY <1>1, <2>1 DEF Exchange, LiveReceivers, TypeOK
  <2>2. CASE push_buffer # NoBuffer
    <3>1. WakeReceivers
      BY <2>2 DEF Exchange
    <3>. QED  BY <1>1, <3>1, WakeReceiversFacts DEF WakeReceivers
  <2>. QED  BY <2>1, <2>2
<1>3. /\ tail_pos' = IF push_buffer = NoBuffer THEN tail_pos ELSE tail_pos + 1
      /\ push_buffer # NoBuffer => push_buffer = tail_pos + 1
  BY DEF Exchange, SlotsAreNewestBuffers
<1>4. /\ Pushed \in Seq(Nat)
      /\ Len(Pushed) <= Capacity
      /\ Len(Pushed) = tail_pos' - head_pos
      /\ head_pos > 0 => Len(Pushed) >= Capacity - 1
      /\ \A i \in 1 .. Len(Pushed) : Pushed[i] = head_pos + i
  BY <1>1, <1>3 DEF Pushed, SlotsAreNewestBuffers
<1>5. /\ slots' \in Seq(Nat) /\ head_pos' \in Nat /\ head_pos <= head_pos'
      /\ Len(slots') < Capacity
      /\ Len(slots') = tail_pos' - head_pos'
      /\ head_pos' > 0 => Len(slots') = Capacity - 1
      /\ \A i \in 1 .. Len(slots') : slots'[i] = head_pos' + i
  <2>1. CASE AtCapacity(Pushed)
    <3>1. slots' = Tail(Pushed) /\ head_pos' = head_pos + 1
      BY <2>1 DEF Exchange
    <3>2. Len(Pushed) = Capacity /\ Pushed # <<>>
      BY <1>1, <1>4, <2>1 DEF AtCapacity
    <3>3. /\ Tail(Pushed) \in Seq(Nat) /\ Len(Tail(Pushed)) = Capacity - 1
          /\ \A i \in 1 .. Capacity - 1 : Tail(Pushed)[i] = Pushed[i + 1]
      BY <1>1, <1>4, <3>2
    <3>4. \A i \in 1 .. Capacity - 1 : Pushed[i + 1] = (head_pos + 1) + i
      <4>1. TAKE i \in 1 .. Capacity - 1
      <4>2. i + 1 \in 1 .. Len(Pushed)
        BY <1>1, <3>2
      <4>3. Pushed[i + 1] = head_pos + (i + 1)
        BY <1>4, <4>2
      <4>. QED  BY <1>1, <4>3
    <3>5. tail_pos' \in Nat
      BY <1>1, <1>3
    <3>6. Len(slots') = Capacity - 1 /\ slots' \in Seq(Nat)
      BY <3>1, <3>3
    <3>7. \A i \in 1 .. Len(slots') : slots'[i] = head_pos' + i
      BY <3>1, <3>3, <3>4, <3>6
    <3>8. Capacity = tail_pos' - head_pos
      BY <1>4, <3>2
    <3>9. /\ head_pos' \in Nat /\ head_pos <= head_pos'
          /\ Len(slots') < Capacity /\ Len(slots') = tail_pos' - head_pos'
      BY <1>1, <3>1, <3>5, <3>6, <3>8
    <3>. QED  BY <3>6, <3>7, <3>9
  <2>2. CASE ~AtCapacity(Pushed)
    <3>1. slots' = Pushed /\ head_pos' = head_pos
      BY <2>2 DEF Exchange
    <3>. QED  BY <1>1, <1>4, <2>2, <3>1 DEF AtCapacity
  <2>. QED  BY <2>1, <2>2
<1>6. TypeOK'
  BY <1>0, <1>1, <1>2, <1>3, <1>5 DEF TypeOK, SenderStates, NoBuffer
<1>7. CountersMatchHandles'
  BY <1>0, <1>2, CountersUnchanged DEF counts
<1>8. SlotsAreNewestBuffers'
  BY <1>0, <1>5 DEF SlotsAreNewestBuffers
<1>9. NothingSkipped'
  <2>1. /\ sender' # "stopping" => fills' = tail_pos'
        /\ push_buffer' = NoBuffer
    BY <1>0, <1>1, <1>3 DEF NothingSkipped
  <2>2. ASSUME NEW r \in Receivers
        PROVE  /\ (task'[r] = "absent") <=> r >= next_receiver_id'
               /\ item'[r] <= read_pos'[r] /\ read_pos'[r] <= tail_pos'
               /\ item'[r] < read_pos'[r] => read_pos'[r] <= head_pos'
    BY <1>0, <1>1, <1>2, <1>3, <1>5 DEF NothingSkipped, TypeOK
  <2>. QED  BY <1>0, <2>1, <2>2 DEF NothingSkipped
<1>10. NoLostWakeup'
  <2>1. CASE push_buffer = NoBuffer
    BY <1>0, <2>1 DEF Exchange, NoLostWakeup
  <2>2. CASE push_buffer # NoBuffer
    <3>1. WakeReceivers
      BY <2>2 DEF Exchange
    <3>2. \A r \in Receivers : task'[r] # "parked"
      BY <1>1, <3>1, WakeReceiversFacts DEF NoLostWakeup
    <3>. QED  BY <3>2 DEF NoLostWakeup
  <2>. QED  BY <2>1, <2>2
<1>11. SleepingSenderHasNoReceiver'
  BY <1>0 DEF SleepingSenderHasNoReceiver
<1>. QED  BY <1>6, <1>7, <1>8, <1>9, <1>10, <1>11

\* The buffer filled next bears the number after the last one pushed.
LEMMA FillIInv == IInv /\ Fill => IInv'
<1>. SUFFICES ASSUME IInv, Fill PROVE IInv'
  OBVIOUS
<1>. USE DEF IInv
<1>0. UNCHANGED <<num_senders, num_subscribers, num_receivers, slots, tail_pos,
                  head_pos, wakers, next_receiver_id, notified, subscribers, task,
                  read_pos, item>>
      /\ sender' = "swapping" /\ push_buffer' = fills + 1 /\ fills' = fills + 1
      /\ sender = "filling"
  BY DEF Fill, counts, positions, receivers
<1>1. fills \in Nat /\ fills = tail_pos
  BY <1>0 DEF NothingSkipped, TypeOK
<1>2. TypeOK'
  BY <1>0, <1>1 DEF TypeOK, SenderStates
<1>3. CountersMatchHandles'
  <2>1. LiveReceivers' = LiveReceivers
    BY <1>0 DEF LiveReceivers
  <2>. QED  BY <1>0, <2>1, CountersUnchanged DEF counts
<1>4. SlotsAreNewestBuffers'
  BY <1>0, <1>1 DEF SlotsAreNewestBuffers
<1>5. NothingSkipped'
  BY <1>0, <1>1 DEF NothingSkipped, NoBuffer
<1>6. NoLostWakeup' /\ SleepingSenderHasNoReceiver'
  BY <1>0 DEF NoLostWakeup, SleepingSenderHasNoReceiver
<1>. QED  BY <1>2, <1>3, <1>4, <1>5, <1>6

\* Leaving the producer's loop preserves the inductive invariant.
LEMMA FillFailsIInv == IInv /\ FillFails => IInv'
<1>. SUFFICES ASSUME IInv, FillFails PROVE IInv'
  OBVIOUS
<1>. USE DEF IInv
<1>0. UNCHANGED <<num_senders, num_subscribers, num_receivers, slots, tail_pos,
                  head_pos, wakers, next_receiver_id, notified, push_buffer, fills,
                  subscribers, task, read_pos, item>>
      /\ sender' = "stopping" /\ sender = "filling"
  BY DEF FillFails, counts, positions, receivers
<1>1. TypeOK'
  BY <1>0 DEF TypeOK, SenderStates
<1>2. CountersMatchHandles'
  <2>1. LiveReceivers' = LiveReceivers
    BY <1>0 DEF LiveReceivers
  <2>. QED  BY <1>0, <2>1, CountersUnchanged DEF counts
<1>3. SlotsAreNewestBuffers' /\ NothingSkipped'
  BY <1>0 DEF SlotsAreNewestBuffers, NothingSkipped
<1>4. NoLostWakeup' /\ SleepingSenderHasNoReceiver'
  BY <1>0 DEF NoLostWakeup, SleepingSenderHasNoReceiver
<1>. QED  BY <1>1, <1>2, <1>3, <1>4

\* The one sender is counted out exactly once.
LEMMA DropSenderIInv == IInv /\ DropSender => IInv'
<1>. SUFFICES ASSUME IInv, DropSender PROVE IInv'
  OBVIOUS
<1>. USE DEF IInv
<1>0. UNCHANGED <<num_subscribers, num_receivers, slots, tail_pos, head_pos,
                  wakers, next_receiver_id, push_buffer, fills, subscribers, task,
                  read_pos, item>>
      /\ sender' = "dropped" /\ sender = "stopping"
      /\ num_senders' = num_senders - 1
  BY DEF DropSender, positions, receivers
<1>1. num_senders = 1
  BY <1>0 DEF CountersMatchHandles
<1>2. notified' \in BOOLEAN
  BY DEF DropSender, NotifySender, TypeOK
<1>3. TypeOK'
  BY <1>0, <1>1, <1>2 DEF TypeOK, SenderStates
<1>4. CountersMatchHandles'
  <2>1. LiveReceivers' = LiveReceivers
    BY <1>0 DEF LiveReceivers
  <2>. QED  BY <1>0, <1>1, <2>1 DEF CountersMatchHandles
<1>5. SlotsAreNewestBuffers' /\ NothingSkipped'
  BY <1>0 DEF SlotsAreNewestBuffers, NothingSkipped
<1>6. NoLostWakeup' /\ SleepingSenderHasNoReceiver'
  BY <1>0 DEF NoLostWakeup, SleepingSenderHasNoReceiver
<1>. QED  BY <1>3, <1>4, <1>5, <1>6

\* A clone is one more subscriber, in the counter and in the set of handles.
LEMMA CloneSubscriberIInv ==
  ASSUME IInv, NEW s \in Subscribers, CloneSubscriber(s)
  PROVE  IInv'
<1>. USE DEF IInv
<1>0. UNCHANGED <<num_senders, num_receivers, slots, tail_pos, head_pos, wakers,
                  next_receiver_id, notified, sender, push_buffer, fills, task,
                  read_pos, item>>
      /\ num_subscribers' = num_subscribers + 1
      /\ subscribers' = subscribers \cup {s} /\ s \notin subscribers
  BY DEF CloneSubscriber, positions, producer, receivers
<1>1. Cardinality(subscribers') = Cardinality(subscribers) + 1
  BY <1>0, FS_Subset, FS_AddElement, SubscribersAssumption DEF TypeOK
<1>2. TypeOK'
  BY <1>0 DEF TypeOK
<1>3. CountersMatchHandles'
  <2>1. LiveReceivers' = LiveReceivers
    BY <1>0 DEF LiveReceivers
  <2>. QED  BY <1>0, <1>1, <2>1 DEF CountersMatchHandles
<1>4. SlotsAreNewestBuffers' /\ NothingSkipped'
  BY <1>0 DEF SlotsAreNewestBuffers, NothingSkipped
<1>5. NoLostWakeup' /\ SleepingSenderHasNoReceiver'
  BY <1>0 DEF NoLostWakeup, SleepingSenderHasNoReceiver
<1>. QED  BY <1>2, <1>3, <1>4, <1>5

\* A drop is one subscriber less, in the counter and in the set of handles.
LEMMA DropSubscriberIInv ==
  ASSUME IInv, NEW s \in Subscribers, DropSubscriber(s)
  PROVE  IInv'
<1>. USE DEF IInv
<1>0. UNCHANGED <<num_senders, num_receivers, slots, tail_pos, head_pos, wakers,
                  next_receiver_id, notified, sender, push_buffer, fills, task,
                  read_pos, item>>
      /\ num_subscribers' = num_subscribers - 1
      /\ subscribers' = subscribers \ {s} /\ s \in subscribers
  BY DEF DropSubscriber, positions, producer, receivers
<1>1. /\ Cardinality(subscribers') = Cardinality(subscribers) - 1
      /\ Cardinality(subscribers') \in Nat
  <2>1. IsFiniteSet(subscribers) /\ IsFiniteSet(subscribers')
    BY <1>0, FS_Subset, SubscribersAssumption DEF TypeOK
  <2>. QED  BY <1>0, <2>1, FS_RemoveElement, FS_CardinalityType
<1>2. TypeOK'
  BY <1>0, <1>1 DEF TypeOK, CountersMatchHandles
<1>3. CountersMatchHandles'
  <2>1. LiveReceivers' = LiveReceivers
    BY <1>0 DEF LiveReceivers
  <2>. QED  BY <1>0, <1>1, <2>1 DEF CountersMatchHandles
<1>4. SlotsAreNewestBuffers' /\ NothingSkipped'
  BY <1>0 DEF SlotsAreNewestBuffers, NothingSkipped
<1>5. NoLostWakeup' /\ SleepingSenderHasNoReceiver'
  BY <1>0 DEF NoLostWakeup, SleepingSenderHasNoReceiver
<1>. QED  BY <1>2, <1>3, <1>4, <1>5

\* A new receiver, made by a subscriber or by another receiver, has a fresh id
\* and a position from which nothing is skipped.
LEMMA AddReceiverIInv ==
  ASSUME IInv, NEW pos \in Nat, NEW last \in Nat,
         last <= pos, pos <= tail_pos, last < pos => pos <= head_pos,
         AddReceiver(next_receiver_id, pos, last)
  PROVE  IInv'
<1>. USE DEF IInv
<1>. DEFINE r == next_receiver_id
<1>0. UNCHANGED <<num_senders, num_subscribers, slots, tail_pos, head_pos, wakers,
                  sender, push_buffer, fills, subscribers>>
      /\ num_receivers' = num_receivers + 1
      /\ next_receiver_id' = r + 1
      /\ task' = [task EXCEPT ![r] = "running"]
      /\ read_pos' = [read_pos EXCEPT ![r] = pos]
      /\ item' = [item EXCEPT ![r] = last]
  BY DEF AddReceiver, positions, producer
<1>1. r \in Receivers /\ r < MaxReceivers /\ r + 1 \in 0 .. MaxReceivers
  BY BoundsAssumption DEF AddReceiver, TypeOK, Receivers
<1>2. task[r] = "absent"
  BY <1>1 DEF NothingSkipped, TypeOK
<1>3. notified' \in BOOLEAN
  BY DEF AddReceiver, NotifySender, TypeOK
<1>4. TypeOK'
  <2>1. task' \in [Receivers -> TaskStates]
    BY <1>0 DEF TypeOK, TaskStates
  <2>2. read_pos' \in [Receivers -> Nat] /\ item' \in [Receivers -> Nat]
    BY <1>0 DEF TypeOK
  <2>. QED  BY <1>0, <1>1, <1>3, <2>1, <2>2 DEF TypeOK
<1>5. CountersMatchHandles'
  BY <1>0, <1>1, <1>2, OneMoreReceiver DEF CountersMatchHandles, TypeOK
<1>6. SlotsAreNewestBuffers'
  BY <1>0 DEF SlotsAreNewestBuffers
<1>7. NothingSkipped'
  <2>1. ASSUME NEW q \in Receivers
        PROVE  /\ (task'[q] = "absent") <=> q >= next_receiver_id'
               /\ item'[q] <= read_pos'[q] /\ read_pos'[q] <= tail_pos'
               /\ item'[q] < read_pos'[q] => read_pos'[q] <= head_pos'
    <3>1. CASE q = r
      <4>1. task'[q] = "running" /\ read_pos'[q] = pos /\ item'[q] = last
        BY <1>0, <1>1, <3>1 DEF TypeOK
      <4>2. ~(q >= next_receiver_id')
        BY <1>0, <1>1, <3>1 DEF Receivers
      <4>. QED  BY <1>0, <4>1, <4>2
    <3>2. CASE q # r
      <4>1. task'[q] = task[q] /\ read_pos'[q] = read_pos[q] /\ item'[q] = item[q]
        BY <1>0, <1>1, <3>2 DEF TypeOK
      <4>2. q >= next_receiver_id' <=> q >= next_receiver_id
        BY <1>0, <1>1, <3>2 DEF Receivers
      <4>. QED  BY <1>0, <4>1, <4>2 DEF NothingSkipped
    <3>. QED  BY <3>1, <3>2
  <2>. QED  BY <1>0, <2>1 DEF NothingSkipped
<1>8. NoLostWakeup'
  <2>1. \A q \in Receivers : task'[q] = "parked" =>
          q # r /\ task[q] = "parked" /\ read_pos'[q] = read_pos[q]
    BY <1>0, <1>1 DEF TypeOK
  <2>. QED  BY <1>0, <2>1 DEF NoLostWakeup
<1>9. SleepingSenderHasNoReceiver'
  <2>1. SUFFICES ASSUME sender = "waiting", ~notified' PROVE FALSE
    BY <1>0 DEF SleepingSenderHasNoReceiver
  <2>2. num_receivers' = 1 => notified'
    BY <2>1 DEF AddReceiver, NotifySender
  <2>3. num_receivers' # 1 /\ notified' = notified
    BY <2>1, <2>2 DEF AddReceiver
  <2>4. num_receivers = 0
    BY <2>1, <2>3 DEF SleepingSenderHasNoReceiver
  <2>. QED  BY <1>0, <2>3, <2>4
<1>. QED  BY <1>4, <1>5, <1>6, <1>7, <1>8, <1>9

\* Subscriber::receiver starts at tail_pos, where nothing can be skipped.
LEMMA NewReceiverIInv == IInv /\ NewReceiver => IInv'
<1>. SUFFICES ASSUME IInv, NewReceiver PROVE IInv'
  OBVIOUS
<1>1. tail_pos \in Nat
  BY DEF IInv, TypeOK
<1>. QED  BY <1>1, AddReceiverIInv DEF NewReceiver

\* Clone for Receiver copies a position from which nothing is skipped.
LEMMA CloneReceiverIInv ==
  ASSUME IInv, NEW r \in Receivers, CloneReceiver(r)
  PROVE  IInv'
<1>1. read_pos[r] \in Nat /\ item[r] \in Nat
  BY DEF IInv, TypeOK
<1>2. /\ item[r] <= read_pos[r] /\ read_pos[r] <= tail_pos
      /\ item[r] < read_pos[r] => read_pos[r] <= head_pos
  BY DEF IInv, NothingSkipped
<1>. QED  BY <1>1, <1>2, AddReceiverIInv DEF CloneReceiver

\* A dropped receiver is counted out once, and wakes the sender only when
\* nobody is left.
LEMMA DropReceiverIInv ==
  ASSUME IInv, NEW r \in Receivers, DropReceiver(r)
  PROVE  IInv'
<1>. USE DEF IInv
<1>0. UNCHANGED <<num_senders, num_subscribers, slots, tail_pos, head_pos, wakers,
                  next_receiver_id, sender, push_buffer, fills, subscribers,
                  read_pos, item>>
      /\ num_receivers' = num_receivers - 1
      /\ task' = [task EXCEPT ![r] = "dropped"]
  BY DEF DropReceiver, positions, producer
<1>1. task[r] \in LiveStates
  BY DEF DropReceiver, LiveReceivers
<1>2. CountersMatchHandles'
  BY <1>0, <1>1, OneReceiverLess DEF CountersMatchHandles, TypeOK
<1>3. TypeOK'
  <2>1. notified' \in BOOLEAN
    BY DEF DropReceiver, NotifySender, TypeOK
  <2>2. task' \in [Receivers -> TaskStates]
    BY <1>0 DEF TypeOK, TaskStates
  <2>3. num_receivers' \in Nat
    BY <1>0, <1>1, <1>2, OneReceiverLess DEF CountersMatchHandles, TypeOK
  <2>. QED  BY <1>0, <2>1, <2>2, <2>3 DEF TypeOK
<1>4. SlotsAreNewestBuffers'
  BY <1>0 DEF SlotsAreNewestBuffers
<1>5. NothingSkipped'
  <2>1. \A q \in Receivers : (task'[q] = "absent") <=> (task[q] = "absent")
    BY <1>0, <1>1 DEF TypeOK, LiveStates
  <2>. QED  BY <1>0, <2>1 DEF NothingSkipped
<1>6. NoLostWakeup'
  <2>1. \A q \in Receivers : task'[q] = "parked" => task[q] = "parked"
    BY <1>0 DEF TypeOK
  <2>. QED  BY <1>0, <2>1 DEF NoLostWakeup
<1>7. SleepingSenderHasNoReceiver'
  <2>1. notified => notified'
    BY DEF DropReceiver, NotifySender
  <2>2. num_receivers # 0
    <3>1. num_receivers' \in Nat /\ num_receivers \in Nat
      BY <1>3 DEF TypeOK
    <3>. QED  BY <1>0, <3>1
  <2>. QED  BY <1>0, <2>1, <2>2 DEF SleepingSenderHasNoReceiver
<1>. QED  BY <1>2, <1>3, <1>4, <1>5, <1>6, <1>7

\* A receiver that lags behind is moved to head_pos; the slot it then reads
\* holds the buffer after its new position.
LEMMA CaughtUpFacts ==
  ASSUME IInv, NEW r \in Receivers
  PROVE  /\ CaughtUp(r) \in Nat
         /\ read_pos[r] <= CaughtUp(r) /\ CaughtUp(r) <= tail_pos
         /\ item[r] <= CaughtUp(r)
         /\ item[r] < CaughtUp(r) => CaughtUp(r) <= head_pos
         /\ head_pos <= CaughtUp(r)
         /\ CaughtUp(r) < tail_pos =>
              slots[CaughtUp(r) - head_pos + 1] = CaughtUp(r) + 1
<1>1. /\ read_pos[r] \in Nat /\ item[r] \in Nat /\ head_pos \in Nat
      /\ tail_pos \in Nat /\ Len(slots) \in Nat
  BY DEF IInv, TypeOK
<1>2. /\ item[r] <= read_pos[r] /\ read_pos[r] <= tail_pos
      /\ item[r] < read_pos[r] => read_pos[r] <= head_pos
  BY DEF IInv, NothingSkipped
<1>3. Len(slots) = tail_pos - head_pos
  BY DEF IInv, SlotsAreNewestBuffers
<1>4. CaughtUp(r) < tail_pos => slots[CaughtUp(r) - head_pos + 1] = CaughtUp(r) + 1
  <2>1. SUFFICES ASSUME CaughtUp(r) < tail_pos
                 PROVE  slots[CaughtUp(r) - head_pos + 1] = CaughtUp(r) + 1
    OBVIOUS
  <2>2. CaughtUp(r) - head_pos + 1 \in 1 .. Len(slots)
    BY <1>1, <1>3, <2>1 DEF CaughtUp
  <2>3. slots[CaughtUp(r) - head_pos + 1] = head_pos + (CaughtUp(r) - head_pos + 1)
    BY <2>2 DEF IInv, SlotsAreNewestBuffers
  <2>. QED  BY <1>1, <2>3 DEF CaughtUp
<1>. QED  BY <1>1, <1>2, <1>3, <1>4 DEF CaughtUp

\* A receiver is handed a buffer after the last position it had, and not after the
\* tail, and no other receiver moves.
LEMMA PollMoves ==
  ASSUME IInv, NEW r \in Receivers, Poll(r)
  PROVE  /\ \A q \in Receivers : read_pos'[q] \in Nat /\ read_pos[q] <= read_pos'[q]
         /\ \A q \in Receivers \ {r} : item'[q] = item[q]
         /\ item' # item => item'[r] > read_pos[r] /\ item'[r] \in 1 .. tail_pos
<1>1. /\ CaughtUp(r) \in Nat /\ read_pos[r] <= CaughtUp(r) /\ read_pos[r] \in Nat
      /\ CaughtUp(r) < tail_pos => slots[CaughtUp(r) - head_pos + 1] = CaughtUp(r) + 1
  BY CaughtUpFacts DEF IInv, TypeOK
<1>2. /\ read_pos \in [Receivers -> Nat] /\ item \in [Receivers -> Nat]
      /\ head_pos \in Nat /\ tail_pos \in Nat
  BY DEF IInv, TypeOK
<1>3. CASE PollReady(r)
  <2>1. /\ item' = [item EXCEPT ![r] = CaughtUp(r) + 1]
        /\ read_pos' = [read_pos EXCEPT ![r] = CaughtUp(r) + 1]
        /\ CaughtUp(r) < tail_pos
    BY <1>1, <1>3 DEF PollReady
  <2>. QED  BY <1>1, <1>2, <2>1
<1>4. CASE PollEnded(r) \/ PollPending(r)
  <2>1. item' = item /\ read_pos' = [read_pos EXCEPT ![r] = CaughtUp(r)]
    BY <1>4 DEF PollEnded, PollPending
  <2>. QED  BY <1>1, <1>2, <2>1
<1>. QED  BY <1>3, <1>4 DEF Poll

\* poll_next parks a task only with its waker registered and everything read.
LEMMA PollIInv ==
  ASSUME IInv, NEW r \in Receivers, Poll(r)
  PROVE  IInv'
<1>. USE DEF IInv
<1>0. UNCHANGED <<num_senders, num_subscribers, num_receivers, slots, tail_pos,
                  head_pos, next_receiver_id, notified, sender, push_buffer, fills,
                  subscribers>>
  BY DEF Poll, counts, positions, producer
<1>1. task \in [Receivers -> TaskStates] /\ wakers \subseteq Receivers
      /\ read_pos \in [Receivers -> Nat] /\ item \in [Receivers -> Nat]
      /\ head_pos \in Nat /\ tail_pos \in Nat
  BY DEF TypeOK
<1>2. /\ task' \in [Receivers -> TaskStates] /\ LiveReceivers' = LiveReceivers
      /\ \A q \in Receivers : (task'[q] = "absent") <=> (task[q] = "absent")
  BY <1>1, PollFacts
\* Where the receiver stands after the poll, and what it was handed.
<1>3. /\ read_pos' \in [Receivers -> Nat] /\ item' \in [Receivers -> Nat]
      /\ \A q \in Receivers : q # r => read_pos'[q] = read_pos[q] /\ item'[q] = item[q]
      /\ item'[r] <= read_pos'[r] /\ read_pos'[r] <= tail_pos
      /\ item'[r] < read_pos'[r] => read_pos'[r] <= head_pos
      /\ task'[r] = "parked" => r \in wakers' /\ read_pos'[r] = tail_pos
  <2>. DEFINE c == CaughtUp(r)
  <2>0. /\ c \in Nat /\ c <= tail_pos /\ item[r] <= c /\ item[r] \in Nat
        /\ item[r] < c => c <= head_pos
        /\ c < tail_pos => slots[c - head_pos + 1] = c + 1
    BY <1>1, CaughtUpFacts
  <2>1. CASE PollReady(r)
    <3>1. /\ read_pos' = [read_pos EXCEPT ![r] = c + 1]
          /\ c < tail_pos
          /\ task'[r] = "running"
      BY <1>1, <2>1 DEF PollReady
    <3>2. item' = [item EXCEPT ![r] = c + 1]
      BY <2>0, <2>1 DEF PollReady
    <3>3. c + 1 \in Nat /\ c + 1 <= tail_pos
      BY <1>1, <2>0, <3>1
    <3>4. read_pos'[r] = c + 1 /\ item'[r] = c + 1
      BY <1>1, <3>1, <3>2
    <3>. HIDE DEF c
    <3>. QED  BY <1>1, <3>1, <3>2, <3>3, <3>4
  <2>2. CASE PollEnded(r) \/ PollPending(r)
    <3>1. /\ read_pos' = [read_pos EXCEPT ![r] = c]
          /\ task'[r] = "parked" => r \in wakers'
          /\ c >= tail_pos
      BY <1>1, <2>2 DEF PollEnded, PollPending
    <3>2. item' = item
      BY <2>2 DEF PollEnded, PollPending
    <3>3. c = tail_pos
      BY <1>1, <2>0, <3>1
    <3>4. read_pos'[r] = c
      BY <1>1, <3>1
    <3>. HIDE DEF c
    <3>. QED  BY <1>1, <2>0, <3>1, <3>2, <3>3, <3>4
  <2>. QED  BY <2>1, <2>2 DEF Poll
<1>4. /\ wakers' \subseteq Receivers /\ wakers \subseteq wakers'
      /\ \A q \in Receivers : q # r => task'[q] = task[q]
  BY <1>1 DEF Poll, PollReady, PollEnded, PollPending
<1>5. TypeOK'
  BY <1>0, <1>1, <1>2, <1>3, <1>4 DEF TypeOK
<1>6. CountersMatchHandles'
  BY <1>0, <1>2, CountersUnchanged DEF counts
<1>7. SlotsAreNewestBuffers'
  BY <1>0 DEF SlotsAreNewestBuffers
<1>8. NothingSkipped'
  <2>1. ASSUME NEW q \in Receivers
        PROVE  /\ item'[q] <= read_pos'[q] /\ read_pos'[q] <= tail_pos'
               /\ item'[q] < read_pos'[q] => read_pos'[q] <= head_pos'
    <3>1. CASE q = r
      BY <1>0, <1>1, <1>3, <3>1
    <3>2. CASE q # r
      <4>1. read_pos'[q] = read_pos[q] /\ item'[q] = item[q]
        BY <1>1, <1>3, <3>2
      <4>. QED  BY <1>0, <4>1 DEF NothingSkipped
    <3>. QED  BY <3>1, <3>2
  <2>. QED  BY <1>0, <1>2, <2>1 DEF NothingSkipped
<1>9. NoLostWakeup'
  <2>1. ASSUME NEW q \in Receivers, task'[q] = "parked"
        PROVE  q \in wakers' /\ read_pos'[q] = tail_pos'
    <3>1. CASE q = r
      BY <1>0, <1>1, <1>3, <2>1, <3>1
    <3>2. CASE q # r
      BY <1>0, <1>1, <1>3, <1>4, <2>1, <3>2 DEF NoLostWakeup
    <3>. QED  BY <3>1, <3>2
  <2>. QED  BY <2>1 DEF NoLostWakeup
<1>10. SleepingSenderHasNoReceiver'
  BY <1>0 DEF SleepingSenderHasNoReceiver
<1>. QED  BY <1>5, <1>6, <1>7, <1>8, <1>9, <1>10

\* A step that changes nothing preserves the inductive invariant.
LEMMA StutterIInv == IInv /\ UNCHANGED vars => IInv'
<1>. SUFFICES ASSUME IInv, UNCHANGED vars PROVE IInv'
  OBVIOUS
<1>1. UNCHANGED <<num_senders, num_subscribers, num_receivers, slots, tail_pos,
                  head_pos, wakers, next_receiver_id, notified, sender,
                  push_buffer, fills, subscribers, task, read_pos, item>>
  BY DEF vars, counts, positions, producer, receivers
<1>2. LiveReceivers' = LiveReceivers
  BY <1>1 DEF LiveReceivers
<1>3. TypeOK' /\ CountersMatchHandles'
  BY <1>1, <1>2 DEF IInv, TypeOK, CountersMatchHandles
<1>4. SlotsAreNewestBuffers' /\ NothingSkipped'
  BY <1>1 DEF IInv, SlotsAreNewestBuffers, NothingSkipped
<1>5. NoLostWakeup' /\ SleepingSenderHasNoReceiver'
  BY <1>1 DEF IInv, NoLostWakeup, SleepingSenderHasNoReceiver
<1>. QED  BY <1>3, <1>4, <1>5 DEF IInv

\* Every step of the queue preserves the inductive invariant.
LEMMA NextIInv == IInv /\ [Next]_vars => IInv'
<1>. SUFFICES ASSUME IInv, [Next]_vars PROVE IInv'
  OBVIOUS
<1>1. CASE SwapBuffers
  BY <1>1, ReturnNoneIInv, AwaitReceiversIInv, ExchangeIInv DEF SwapBuffers
<1>2. CASE Fill
  BY <1>2, FillIInv
<1>3. CASE FillFails
  BY <1>3, FillFailsIInv
<1>4. CASE DropSender
  BY <1>4, DropSenderIInv
<1>5. CASE \E s \in Subscribers : CloneSubscriber(s) \/ DropSubscriber(s)
  BY <1>5, CloneSubscriberIInv, DropSubscriberIInv
<1>6. CASE NewReceiver
  BY <1>6, NewReceiverIInv
<1>7. CASE \E r \in Receivers : CloneReceiver(r) \/ DropReceiver(r) \/ Poll(r)
  BY <1>7, CloneReceiverIInv, DropReceiverIInv, PollIInv
<1>8. CASE UNCHANGED vars
  BY <1>8, StutterIInv
<1>. QED  BY <1>1, <1>2, <1>3, <1>4, <1>5, <1>6, <1>7, <1>8 DEF Next

\* The inductive invariant holds in every reachable state.
THEOREM Invariance == Spec => []IInv
<1>. QED  BY InitIInv, NextIInv, PTL DEF Spec

\* The variables of the queue keep their types.
THEOREM TypeCorrectness == Spec => []TypeOK
<1>1. IInv => TypeOK
  BY DEF IInv
<1>. QED  BY <1>1, Invariance, PTL

\* The counters of SharedState count the handles that exist, so they never
\* underflow and swap_buffers and poll_next decide on the truth.
THEOREM CountersCorrect == Spec => []CountersMatchHandles
<1>1. IInv => CountersMatchHandles
  BY DEF IInv
<1>. QED  BY <1>1, Invariance, PTL

\* The slots hold exactly the newest buffers: the assert of push_buffer and the
\* expect of pop_buffer never fail, for any capacity.
THEOREM SlotsCorrect == Spec => []SlotsAreNewestBuffers
<1>1. IInv => SlotsAreNewestBuffers
  BY DEF IInv
<1>. QED  BY <1>1, Invariance, PTL

\* No buffer the producer filled and no buffer in the slots is skipped.
THEOREM NothingSkippedCorrect == Spec => []NothingSkipped
<1>1. IInv => NothingSkipped
  BY DEF IInv
<1>. QED  BY <1>1, Invariance, PTL

\* However many receivers there are, no wake-up for a pushed buffer is lost.
THEOREM NoWakeupIsLost == Spec => []NoLostWakeup
<1>1. IInv => NoLostWakeup
  BY DEF IInv
<1>. QED  BY <1>1, Invariance, PTL

\* The sender never sleeps through the arrival of a receiver.
THEOREM NoReceiverIsIgnored == Spec => []SleepingSenderHasNoReceiver
<1>1. IInv => SleepingSenderHasNoReceiver
  BY DEF IInv
<1>. QED  BY <1>1, Invariance, PTL

----------------------------------------------------------------------------
(* The queue implements LossyBroadcast. *)

\* A new channel is an open broadcast with nothing published.
LEMMA InitRefines == Init => Broadcast!Init
<1>. SUFFICES ASSUME Init PROVE Broadcast!Init
  OBVIOUS
<1>1. Status = [r \in Receivers |-> "absent"]
  BY DEF Init, Status
<1>. QED  BY <1>1 DEF Init, Broadcast!Init

\* A step that neither pushes, drops the sender, nor moves a receiver is a
\* stuttering step of LossyBroadcast.
LEMMA HiddenStep ==
  ASSUME UNCHANGED <<tail_pos, num_senders, task, item>>
  PROVE  UNCHANGED Broadcast!vars
<1>1. Status' = Status
  BY DEF Status
<1>. QED  BY <1>1 DEF Broadcast!vars

\* Waking parked receivers changes nothing a user can see.
LEMMA ExchangeRefines ==
  IInv /\ SwapBuffers /\ Exchange => [Broadcast!Next]_(Broadcast!vars)
<1>. SUFFICES ASSUME IInv, SwapBuffers, Exchange
              PROVE  [Broadcast!Next]_(Broadcast!vars)
  OBVIOUS
<1>0. UNCHANGED <<num_senders, item>>
  BY DEF SwapBuffers, Exchange, counts
<1>1. CASE push_buffer = NoBuffer
  BY <1>0, <1>1, HiddenStep DEF Exchange
<1>2. CASE push_buffer # NoBuffer
  <2>1. tail_pos' = tail_pos + 1 /\ WakeReceivers
    BY <1>2 DEF Exchange
  <2>2. Status' = Status
    BY <2>1, WakeReceiversFacts DEF Status, IInv, TypeOK
  <2>3. num_senders = 1
    BY DEF IInv, CountersMatchHandles, SwapBuffers
  <2>4. Broadcast!Publish
    BY <1>0, <2>1, <2>2, <2>3 DEF Broadcast!Publish
  <2>. QED  BY <2>4 DEF Broadcast!Next
<1>. QED  BY <1>1, <1>2

\* Dropping the sender closes the broadcast.
LEMMA DropSenderRefines == IInv /\ DropSender => Broadcast!Next
<1>. SUFFICES ASSUME IInv, DropSender PROVE Broadcast!Next
  OBVIOUS
<1>1. num_senders = 1 /\ num_senders' = 0 /\ UNCHANGED <<tail_pos, task, item>>
  BY DEF IInv, CountersMatchHandles, DropSender, positions, receivers
<1>2. Status' = Status
  BY <1>1 DEF Status
<1>3. Broadcast!Close
  BY <1>1, <1>2 DEF Broadcast!Close
<1>. QED  BY <1>3 DEF Broadcast!Next

\* A new receiver joins the broadcast at the item it was last handed.
LEMMA AddReceiverRefines ==
  ASSUME IInv, NEW pos \in Nat, NEW last \in Nat,
         AddReceiver(next_receiver_id, pos, last)
  PROVE  Broadcast!Join(next_receiver_id, last) /\ next_receiver_id \in Receivers
<1>. DEFINE r == next_receiver_id
<1>1. /\ r \in Receivers
      /\ task' = [task EXCEPT ![r] = "running"]
      /\ item' = [item EXCEPT ![r] = last]
      /\ UNCHANGED <<tail_pos, num_senders>>
  BY BoundsAssumption DEF AddReceiver, IInv, TypeOK, Receivers, positions
<1>2. task[r] = "absent"
  BY <1>1 DEF IInv, NothingSkipped, TypeOK
<1>3. Status[r] = "absent"
  BY <1>1, <1>2 DEF Status
<1>4. Status' = [Status EXCEPT ![r] = "joined"]
  BY <1>1 DEF Status, IInv, TypeOK
<1>. QED  BY <1>1, <1>3, <1>4 DEF Broadcast!Join

\* Subscriber::receiver joins at the newest position.
LEMMA NewReceiverRefines == IInv /\ NewReceiver => Broadcast!Next
<1>. SUFFICES ASSUME IInv, NewReceiver PROVE Broadcast!Next
  OBVIOUS
<1>1. Broadcast!Join(next_receiver_id, tail_pos) /\ next_receiver_id \in Receivers
  BY AddReceiverRefines DEF NewReceiver, IInv, TypeOK
<1>. QED  BY <1>1 DEF Broadcast!Next

\* Clone for Receiver joins where the cloned receiver is.
LEMMA CloneReceiverRefines ==
  ASSUME IInv, NEW r \in Receivers, CloneReceiver(r)
  PROVE  Broadcast!Next
<1>1. read_pos[r] \in Nat /\ item[r] \in Nat
  BY DEF IInv, TypeOK
<1>2. /\ Broadcast!Join(next_receiver_id, item[r])
      /\ next_receiver_id \in Receivers
  BY <1>1, AddReceiverRefines DEF CloneReceiver
<1>3. Status[r] \in {"joined", "ended"}
  BY DEF CloneReceiver, LiveReceivers, LiveStates, Status
<1>. QED  BY <1>2, <1>3 DEF Broadcast!Next

\* Dropping a receiver leaves the broadcast.
LEMMA DropReceiverRefines ==
  ASSUME IInv, NEW r \in Receivers, DropReceiver(r)
  PROVE  Broadcast!Next
<1>1. /\ task' = [task EXCEPT ![r] = "dropped"]
      /\ UNCHANGED <<tail_pos, num_senders, item>>
  BY DEF DropReceiver, positions
<1>2. Status' = [Status EXCEPT ![r] = "left"]
  BY <1>1 DEF Status, IInv, TypeOK
<1>3. Status[r] \in {"joined", "ended"}
  BY DEF DropReceiver, LiveReceivers, LiveStates, Status
<1>4. Broadcast!Leave(r)
  BY <1>1, <1>2, <1>3 DEF Broadcast!Leave
<1>. QED  BY <1>4 DEF Broadcast!Next

\* The position a receiver is caught up to is the last item that LossyBroadcast
\* says it will never be handed.
LEMMA CaughtUpIsPassed ==
  ASSUME IInv, NEW r \in Receivers
  PROVE  CaughtUp(r) = Broadcast!Passed(r)
<1>1. /\ read_pos[r] \in Nat /\ item[r] \in Nat /\ head_pos \in Nat
      /\ tail_pos \in Nat /\ Len(slots) \in Nat /\ Capacity \in Nat
  BY CapacityAssumption DEF IInv, TypeOK
<1>2. /\ Len(slots) < Capacity /\ Len(slots) = tail_pos - head_pos
      /\ head_pos > 0 => Len(slots) = Capacity - 1
  BY DEF IInv, SlotsAreNewestBuffers
<1>3. /\ item[r] <= read_pos[r]
      /\ item[r] < read_pos[r] => read_pos[r] <= head_pos
  BY DEF IInv, NothingSkipped
<1>. QED  BY <1>1, <1>2, <1>3 DEF CaughtUp, Broadcast!Passed, Broadcast!Larger

\* poll_next delivers the next item that has not expired, ends the stream, or
\* changes nothing a user can see.
LEMMA PollRefines ==
  ASSUME IInv, NEW r \in Receivers, Poll(r)
  PROVE  [Broadcast!Next]_(Broadcast!vars)
<1>0. UNCHANGED <<tail_pos, num_senders>>
  BY DEF Poll, counts, positions
<1>1. /\ CaughtUp(r) = Broadcast!Passed(r)
      /\ CaughtUp(r) <= tail_pos /\ CaughtUp(r) \in Nat /\ tail_pos \in Nat
      /\ CaughtUp(r) < tail_pos => slots[CaughtUp(r) - head_pos + 1] = CaughtUp(r) + 1
  BY CaughtUpIsPassed, CaughtUpFacts DEF IInv, TypeOK
<1>2. Status[r] = "joined"
  BY DEF Poll, Status
<1>3. CASE PollReady(r)
  <2>1. Status' = Status
    BY <1>3 DEF Poll, PollReady, Status, IInv, TypeOK
  <2>2. /\ Broadcast!Passed(r) < tail_pos
        /\ item' = [item EXCEPT ![r] = Broadcast!Passed(r) + 1]
    BY <1>1, <1>3 DEF PollReady
  <2>3. Broadcast!Deliver(r)
    BY <1>0, <1>2, <2>1, <2>2 DEF Broadcast!Deliver
  <2>. QED  BY <2>3 DEF Broadcast!Next
<1>4. CASE PollEnded(r)
  <2>1. Status' = [Status EXCEPT ![r] = "ended"]
    BY <1>4 DEF PollEnded, Status, IInv, TypeOK
  <2>2. Broadcast!Passed(r) = tail_pos /\ num_senders # 1 /\ UNCHANGED item
    BY <1>1, <1>4 DEF PollEnded
  <2>3. Broadcast!End(r)
    BY <1>0, <1>2, <2>1, <2>2 DEF Broadcast!End
  <2>. QED  BY <2>3 DEF Broadcast!Next
<1>5. CASE PollPending(r)
  <2>1. Status' = Status
    BY <1>5 DEF Poll, PollPending, Status, IInv, TypeOK
  <2>. QED  BY <1>0, <1>5, <2>1 DEF PollPending, Broadcast!vars
<1>. QED  BY <1>3, <1>4, <1>5 DEF Poll

\* Every step of the queue is a step of the broadcast or a stuttering step.
LEMMA NextRefines == IInv /\ [Next]_vars => [Broadcast!Next]_(Broadcast!vars)
<1>. SUFFICES ASSUME IInv, [Next]_vars PROVE [Broadcast!Next]_(Broadcast!vars)
  OBVIOUS
<1>1. CASE SwapBuffers
  <2>1. CASE ReturnNone \/ AwaitReceivers
    <3>1. UNCHANGED <<tail_pos, num_senders, task, item>>
      BY <1>1, <2>1
         DEF SwapBuffers, ReturnNone, AwaitReceivers, counts, positions, receivers
    <3>. QED  BY <3>1, HiddenStep
  <2>2. CASE Exchange
    BY <1>1, <2>2, ExchangeRefines
  <2>. QED  BY <1>1, <2>1, <2>2 DEF SwapBuffers
<1>2. CASE Fill \/ FillFails \/ UNCHANGED vars
         \/ \E s \in Subscribers : CloneSubscriber(s) \/ DropSubscriber(s)
  <2>1. UNCHANGED <<tail_pos, num_senders, task, item>>
    BY <1>2 DEF Fill, FillFails, CloneSubscriber, DropSubscriber, vars, counts,
                positions, receivers
  <2>. QED  BY <2>1, HiddenStep
<1>3. CASE DropSender
  BY <1>3, DropSenderRefines
<1>4. CASE NewReceiver
  BY <1>4, NewReceiverRefines
<1>5. CASE \E r \in Receivers : CloneReceiver(r) \/ DropReceiver(r) \/ Poll(r)
  BY <1>5, CloneReceiverRefines, DropReceiverRefines, PollRefines
<1>. QED  BY <1>1, <1>2, <1>3, <1>4, <1>5 DEF Next

\* The buffer queue implements the lossy broadcast its users rely on.
THEOREM Refinement == Spec => BroadcastSpec
<1>. QED  BY InitRefines, NextRefines, Invariance, PTL
          DEF Spec, BroadcastSpec, Broadcast!Spec

=============================================================================
