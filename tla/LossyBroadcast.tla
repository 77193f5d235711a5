--------------------------- MODULE LossyBroadcast ---------------------------
(***************************************************************************)
(* What the buffer queue of rtlsdr-async promises to its users, without    *)
(* slots, wakers, locks or condition variables: one producer publishes     *)
(* items 1, 2, 3, ...; a receiver that joins sees the items published from *)
(* then on, in order, each at most once; it misses an item only when it    *)
(* has fallen more than Window items behind; and it is told that the       *)
(* stream has ended only after the producer is gone and every item still   *)
(* in the window has been handed to it.                                    *)
(***************************************************************************)
EXTENDS Integers

CONSTANTS
  Receivers,  \* identities of receivers, each used at most once
  Window      \* how many of the last published items are retained (a Nat)

VARIABLES
  published,  \* number of items published so far
  open,       \* TRUE while the producer exists
  status,     \* status[r] \in {"absent", "joined", "ended", "left"}
  seen        \* seen[r]: number of the last item handed to r, or the
              \* number published when r joined

vars == <<published, open, status, seen>>

Larger(a, b) == IF a > b THEN a ELSE b

\* The last item r will never be handed: it was handed over or has expired.
Passed(r) == Larger(seen[r], published - Window)

Init ==
  /\ published = 0
  /\ open = TRUE
  /\ status = [r \in Receivers |-> "absent"]
  /\ seen = [r \in Receivers |-> 0]

Publish ==
  /\ open
  /\ published' = published + 1
  /\ UNCHANGED <<open, status, seen>>

Close ==
  /\ open
  /\ open' = FALSE
  /\ UNCHANGED <<published, status, seen>>

\* A receiver joins at the newest position, or where another receiver is.
Join(r, position) ==
  /\ status[r] = "absent"
  /\ status' = [status EXCEPT ![r] = "joined"]
  /\ seen' = [seen EXCEPT ![r] = position]
  /\ UNCHANGED <<published, open>>

Deliver(r) ==
  /\ status[r] = "joined"
  /\ Passed(r) < published
  /\ seen' = [seen EXCEPT ![r] = Passed(r) + 1]
  /\ UNCHANGED <<published, open, status>>

End(r) ==
  /\ status[r] = "joined"
  /\ ~open
  /\ Passed(r) = published
  /\ status' = [status EXCEPT ![r] = "ended"]
  /\ UNCHANGED <<published, open, seen>>

Leave(r) ==
  /\ status[r] \in {"joined", "ended"}
  /\ status' = [status EXCEPT ![r] = "left"]
  /\ UNCHANGED <<published, open, seen>>

Next ==
  \/ Publish
  \/ Close
  \/ \E r \in Receivers :
       \/ Join(r, published)
       \/ \E q \in Receivers : status[q] \in {"joined", "ended"} /\ Join(r, seen[q])
       \/ Deliver(r)
       \/ End(r)
       \/ Leave(r)

Spec == Init /\ [][Next]_vars

=============================================================================
