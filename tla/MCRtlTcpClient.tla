--------------------------- MODULE MCRtlTcpClient ---------------------------
(* Small instances of the rtl_tcp client for TLC. *)
EXTENDS RtlTcpClient, TLC

CONSTANTS s1, s2

MCSubscribers == {s1, s2}
SubscriberSymmetry == Permutations(MCSubscribers)

=============================================================================
