--------------------------- MODULE MCRtlTcpCalls ----------------------------
(* A small instance of calls over rtl_tcp for TLC: integers of 4 and 2 bits, calls
   with values at the edges of their types, and all gains. *)
EXTENDS RtlTcpCalls

CONSTANTS c1, c2

MCClones == {c1, c2}
MCSymmetry == Permutations(MCClones)
MCTunerGains == <<-3, 0, 1, 5>>

MCCalls ==
  {b \in Calls :
     /\ b.op \in Unsigned => b.value \in {0, Word - 1}
     /\ b.op \in Integral => b.value \in {-(Word \div 2), -1, 1}
     /\ b.op = "SetTunerGain" /\ b.of.kind = "ManualIndex" =>
          b.of.value \in {0, Len(TunerGains) - 1, Len(TunerGains), Word}}

=============================================================================
