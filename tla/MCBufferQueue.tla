--------------------------- MODULE MCBufferQueue ---------------------------
(* Small instances of the buffer queue for TLC. *)
EXTENDS BufferQueue, TLC

CONSTANTS s1, s2

MCSubscribers == {s1, s2}
SubscriberSymmetry == Permutations(MCSubscribers)

=============================================================================
