----------------------------- MODULE TunerGain ------------------------------
(***************************************************************************)
(* set_tuner_gain of control.rs: a manual gain is mapped to one of those   *)
(* that the tuner supports, by its value or by its index, and set by two   *)
(* calls of librtlsdr, each of which may fail.  The search subtracts i32   *)
(* values; here they wrap around, as in a build without overflow checks.   *)
(* In a build with them the control thread panics (see Control): the call  *)
(* fails, as do all later ones, which is possible here, too.               *)
(***************************************************************************)
EXTENDS Integers, Sequences

CONSTANTS
  Half,        \* number of values of 16 bits
  TunerGains   \* Handle::tuner_gains, in tenths of a dB

ASSUME HalfAssumption == Half \in Nat \ {0} /\ Half % 2 = 0

Word == Half * Half
I16 == -(Half \div 2) .. (Half \div 2) - 1
I32 == -(Word \div 2) .. (Word \div 2) - 1

ASSUME GainsAssumption == TunerGains \in Seq(I32)

\* Two's complement: the signed integer with n values that has the bits of x.
Signed(x, n) == IF x % n >= n \div 2 THEN (x % n) - n ELSE x % n

\* i32::abs, which leaves the least value as it is.
Abs32(x) == IF x < 0 THEN Signed(-x, Word) ELSE x

Distance(supported, gain) == Abs32(Signed(supported - gain, Word))

\* min_by_key returns the first of the least.
Nearest(gain) ==
  LET best == CHOOSE i \in 1 .. Len(TunerGains) :
                /\ \A j \in 1 .. Len(TunerGains) :
                     Distance(TunerGains[i], gain) <= Distance(TunerGains[j], gain)
                /\ \A j \in 1 .. i - 1 :
                     Distance(TunerGains[i], gain) < Distance(TunerGains[j], gain)
  IN  TunerGains[best]

\* Gain
Gains ==
  [kind : {"ManualValue"}, value : I32]
    \cup [kind : {"ManualIndex"}, value : 0 .. Word]   \* a usize exceeds an u32
    \cup {[kind |-> "Auto", value |-> 0]}

\* What get_tuner_gain takes for an error: the gain that librtlsdr reports after it
\* failed to set one.
NoGain == 0

\* What a call returns, and the tuner after it: its gain mode and the gain reported.
Succeeds(tuner) == [ok |-> TRUE, tuner |-> tuner]
Fails(tuner) == [ok |-> FALSE, tuner |-> tuner]

\* Fault: the gain is set before the mode.
SetManual_GainFirst(gain, tuner) ==
  {Fails([tuner EXCEPT !.gain = NoGain]),
   Fails([tuner EXCEPT !.gain = gain]),
   Succeeds([mode |-> "Manual", gain |-> gain])}

\* The mode is set first.  If that works, the gain may still fail.  (The mode may
\* have been cached, and not set again: CachedGainModeIsReal of Control says that
\* the tuner is in that mode then.)
SetManual(gain, tuner) ==
  {Fails(tuner),
   Fails([mode |-> "Manual", gain |-> NoGain]),
   Succeeds([mode |-> "Manual", gain |-> gain])}

\* The possible results of set_tuner_gain(gain).  Any call may fail before it does
\* anything: the library call does, or the control thread is dead.
SetTunerGain(gain, tuner) ==
  CASE gain.kind = "Auto" ->
         {Fails(tuner), Succeeds([tuner EXCEPT !.mode = "Auto"])}
    [] gain.kind = "ManualValue" /\ TunerGains # <<>> ->
         SetManual(Nearest(gain.value), tuner)
    [] gain.kind = "ManualIndex" /\ gain.value < Len(TunerGains) ->
         SetManual(TunerGains[gain.value + 1], tuner)
    [] OTHER -> {Fails(tuner)}   \* NoSupportedGains, InvalidGainIndex

=============================================================================
