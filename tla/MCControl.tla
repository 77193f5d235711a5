----------------------------- MODULE MCControl -----------------------------
(* Small instances of the control path for TLC. *)
EXTENDS Control, TLC

CONSTANTS c1, c2, d1, d2

MCCallers == {c1, c2}
MCDevices == {d1, d2}
MCOneDevice == {d1}
ControlSymmetry == Permutations(MCCallers) \cup Permutations(MCDevices)

=============================================================================
