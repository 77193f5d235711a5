----------------------------- MODULE MCSampling -----------------------------
(* Small instances of the sampling pipeline for TLC. *)
EXTENDS Sampling, TLC

CONSTANTS s1, s2

MCSubscribers == {s1, s2}
SubscriberSymmetry == Permutations(MCSubscribers)

=============================================================================
