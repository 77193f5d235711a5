------------------------- MODULE RtlTcpCallsProofs --------------------------
(***************************************************************************)
(* Proofs about the calls over rtl_tcp.  Decoding inverts encoding for     *)
(* every command and every width of the integers; the calls applied are    *)
(* the calls completed; and the search for a gain finds the nearest one.   *)
(***************************************************************************)
EXTENDS RtlTcpCalls, FiniteSetTheorems, WellFoundedInduction, TLAPS

----------------------------------------------------------------------------
(* Integers of Half and Word values *)

\* Widths are even, so that a signed type has as many negative numbers as others.
LEMMA WordIsEven ==
  /\ Half \in Nat \ {0}
  /\ Word \in Nat \ {0}
  /\ Half % 2 = 0
  /\ Word % 2 = 0
<1>1. Half \in Nat \ {0} /\ Half % 2 = 0
  BY HalfAssumption
<1>2. \A n \in Nat \ {0} : n % 2 = 0 => n * n \in Nat \ {0} /\ (n * n) % 2 = 0
  BY SMT
<1> QED
  BY <1>1, <1>2 DEF Word

\* Two's complement with n values represents every number of the signed type.
LEMMA SignedInverts ==
  ASSUME NEW n \in Nat \ {0}, n % 2 = 0,
         NEW x \in -(n \div 2) .. (n \div 2) - 1
  PROVE  /\ x % n \in 0 .. n - 1
         /\ Signed(x % n, n) = x
<1>1. n \div 2 \in Nat /\ n = 2 * (n \div 2)
  BY SMT
<1>2. x \in Int /\ -n <= x /\ x < n
  BY <1>1
<1>3. CASE x >= 0
  <2>1. x % n = x
    BY <1>2, <1>3, SMT
  <2> QED
    BY <2>1, <1>1, <1>2, <1>3 DEF Signed
<1>4. CASE x < 0
  <2>1. x % n = x + n
    BY <1>2, <1>4, SMT
  <2>2. (x + n) % n = x + n
    BY <1>2, <1>4, SMT
  <2> QED
    BY <2>1, <2>2, <1>1, <1>2, <1>4 DEF Signed
<1> QED
  BY <1>2, <1>3, <1>4

\* The value of Signed is in the range of the type.
LEMMA SignedType ==
  ASSUME NEW n \in Nat \ {0}, n % 2 = 0, NEW x \in Int
  PROVE  Signed(x, n) \in -(n \div 2) .. (n \div 2) - 1
<1>1. n \div 2 \in Nat /\ n = 2 * (n \div 2)
  BY SMT
<1>2. x % n \in 0 .. n - 1
  BY SMT
<1> QED
  BY <1>1, <1>2 DEF Signed

\* Two halves of a word can be told apart.
LEMMA Halves ==
  ASSUME NEW h \in Nat \ {0}, NEW a \in 0 .. h - 1, NEW b \in 0 .. h - 1
  PROVE  /\ (a * h) + b \in 0 .. (h * h) - 1
         /\ ((a * h) + b) \div h = a
         /\ ((a * h) + b) % h = b
<1>1. (a * h) + b \in 0 .. (h * h) - 1
  BY SMT
<1>2. ((a * h) + b) \div h = a
  BY SMT
<1>3. ((a * h) + b) % h = b
  BY SMT
<1> QED
  BY <1>1, <1>2, <1>3

----------------------------------------------------------------------------
(* The codec *)

\* The argument of every command fits into its four bytes.
LEMMA ArgumentInU32 ==
  ASSUME NEW c \in Commands
  PROVE  Argument(c) \in U32
<1>1. CASE c.op \in Unsigned \cup {"SetTunerGainIndex"}
  <2>1. c.value \in U32
    BY <1>1 DEF Commands, Unsigned, Integral, Flags
  <2> QED
    BY <1>1, <2>1 DEF Argument, Unsigned, Integral, Flags
<1>2. CASE c.op \in Integral \cup {"SetTunerGain"}
  <2>1. c.value \in I32
    BY <1>2 DEF Commands, Unsigned, Integral, Flags
  <2>2. c.value % Word \in 0 .. Word - 1
    BY <2>1, WordIsEven, SignedInverts DEF I32
  <2> QED
    BY <1>2, <2>2 DEF Argument, Unsigned, Integral, Flags, U32
<1>3. CASE c.op \in Flags \cup {"SetTestMode", "SetTunerGainMode", "SetDirectSampling"}
  <2>1. Word >= 4
    <3>1. Half >= 2
      BY HalfAssumption
    <3>2. \A h \in Nat : h >= 2 => h * h >= 4
      BY SMT
    <3> QED
      BY <3>1, <3>2, WordIsEven DEF Word
  <2>2. {0, 1, 2} \subseteq U32
    BY <2>1, WordIsEven DEF U32
  <2>3. CASE c.op = "SetDirectSampling"
    <3>1. c.mode \in Samplings
      BY <2>3 DEF Commands, Unsigned, Integral, Flags
    <3> QED
      BY <2>2, <2>3, <3>1 DEF Argument, Unsigned, Integral, Flags, Samplings
  <2>4. CASE c.op # "SetDirectSampling"
    BY <1>3, <2>2, <2>4 DEF Argument, Unsigned, Integral, Flags
  <2> QED
    BY <2>3, <2>4
<1>4. CASE c.op = "SetTunerIfGain"
  <2>1. c.stage \in I16 /\ c.gain \in I16
    BY <1>4 DEF Commands, Unsigned, Integral, Flags
  <2>2. c.stage % Half \in 0 .. Half - 1 /\ c.gain % Half \in 0 .. Half - 1
    BY <2>1, WordIsEven, SignedInverts DEF I16
  <2>3. ((c.stage % Half) * Half) + (c.gain % Half) \in 0 .. (Half * Half) - 1
    BY <2>2, WordIsEven, Halves
  <2> QED
    BY <1>4, <2>3 DEF Argument, U32, Word, Unsigned, Integral, Flags
<1> QED
  BY <1>1, <1>2, <1>3, <1>4 DEF Commands, Unsigned, Integral, Flags

\* Every command has an opcode, by which it is recognised.
LEMMA EncodeType ==
  ASSUME NEW c \in Commands
  PROVE  /\ Encode(c) \in (1 .. Len(Opcodes)) \X U32
         /\ Opcodes[Encode(c)[1]] = c.op
         /\ Encode(c)[2] = Argument(c)
<1>1. Len(Opcodes) = 14
  BY DEF Opcodes
<1>2. \E code \in 1 .. 14 : Opcodes[code] = c.op
  <2>1. c.op \in {"SetCenterFrequency", "SetSampleRate", "SetTunerGainMode",
                  "SetTunerGain", "SetFrequencyCorrection", "SetTunerIfGain",
                  "SetTestMode", "SetAgcMode", "SetDirectSampling",
                  "SetOffsetTuning", "SetRtlXtal", "SetTunerXtal",
                  "SetTunerGainIndex", "SetBiasT"}
    BY DEF Commands, Unsigned, Integral, Flags
  <2> QED
    BY <2>1 DEF Opcodes
<1> DEFINE code == CHOOSE code \in 1 .. Len(Opcodes) : Opcodes[code] = c.op
<1>3. code \in 1 .. Len(Opcodes) /\ Opcodes[code] = c.op
  BY <1>1, <1>2
<1>4. Encode(c) = <<code, Argument(c)>>
  BY DEF Encode
<1> HIDE DEF code
<1> QED
  BY <1>3, <1>4, ArgumentInU32

\* What the server decodes is what the client encoded: for every command, with every
\* argument of its type, whatever the width of the integers.
THEOREM DecodeInvertsEncode ==
  \A c \in Commands : Decode(Encode(c)) = c
<1> SUFFICES ASSUME NEW c \in Commands
             PROVE  Decode(Encode(c)) = c
  OBVIOUS
<1> DEFINE message == Encode(c)
<1>1. /\ message[1] \in 1 .. Len(Opcodes)
      /\ Opcodes[message[1]] = c.op
      /\ message[2] = Argument(c)
  BY EncodeType
<1> HIDE DEF message
<1>2. CASE c.op \in Unsigned \cup {"SetTunerGainIndex"}
  <2>1. c = [op |-> c.op, value |-> c.value]
    BY <1>2 DEF Commands, Unsigned, Integral, Flags
  <2>2. Argument(c) = c.value
    BY <1>2 DEF Argument, Unsigned, Integral, Flags
  <2>3. Decode(message) = [op |-> c.op, value |-> Argument(c)]
    BY <1>1, <1>2 DEF Decode, Unsigned, Integral, Flags
  <2> QED
    BY <2>1, <2>2, <2>3 DEF message
<1>3. CASE c.op \in Integral \cup {"SetTunerGain"}
  <2>1. c = [op |-> c.op, value |-> c.value] /\ c.value \in I32
    BY <1>3 DEF Commands, Unsigned, Integral, Flags
  <2>2. Argument(c) = c.value % Word
    BY <1>3 DEF Argument, Unsigned, Integral, Flags
  <2>3. Decode(message) = [op |-> c.op, value |-> Integer(Argument(c))]
    BY <1>1, <1>3 DEF Decode, Unsigned, Integral, Flags
  <2>4. Integer(Argument(c)) = c.value
    BY <2>1, <2>2, WordIsEven, SignedInverts DEF I32, Integer
  <2> QED
    BY <2>1, <2>3, <2>4 DEF message
<1>4. CASE c.op \in Flags \cup {"SetTestMode"}
  <2>1. c = [op |-> c.op, enable |-> c.enable] /\ c.enable \in BOOLEAN
    BY <1>4 DEF Commands, Unsigned, Integral, Flags
  <2>2. Argument(c) = IF c.enable THEN 1 ELSE 0
    BY <1>4 DEF Argument, Unsigned, Integral, Flags
  <2>3. Decode(message) = [op |-> c.op, enable |-> Argument(c) # 0]
    BY <1>1, <1>4 DEF Decode, Unsigned, Integral, Flags
  <2>4. (Argument(c) # 0) = c.enable
    BY <2>1, <2>2
  <2> QED
    BY <2>1, <2>3, <2>4 DEF message
<1>5. CASE c.op = "SetTunerIfGain"
  <2>1. /\ c = [op |-> c.op, stage |-> c.stage, gain |-> c.gain]
        /\ c.stage \in I16 /\ c.gain \in I16
    BY <1>5 DEF Commands, Unsigned, Integral, Flags
  <2> DEFINE stage == c.stage % Half
             gain == c.gain % Half
  <2>2. Argument(c) = (stage * Half) + gain
    BY <1>5 DEF Argument, Unsigned, Integral, Flags
  <2>3. /\ stage \in 0 .. Half - 1 /\ gain \in 0 .. Half - 1
        /\ Signed(stage, Half) = c.stage /\ Signed(gain, Half) = c.gain
    BY <2>1, WordIsEven, SignedInverts DEF I16
  <2> HIDE DEF stage, gain
  <2>4. ((stage * Half) + gain) \div Half = stage /\ ((stage * Half) + gain) % Half = gain
    BY <2>3, WordIsEven, Halves
  <2>5. Decode(message) = [op |-> c.op, stage |-> Signed(Argument(c) \div Half, Half),
                           gain |-> Signed(Argument(c) % Half, Half)]
    BY <1>1, <1>5 DEF Decode, Unsigned, Integral, Flags
  <2> QED
    BY <2>1, <2>2, <2>3, <2>4, <2>5 DEF message
<1>6. CASE c.op = "SetTunerGainMode"
  <2>1. c = [op |-> c.op, mode |-> c.mode] /\ c.mode \in {"Auto", "Manual"}
    BY <1>6 DEF Commands, Unsigned, Integral, Flags
  <2>2. Argument(c) = IF c.mode = "Auto" THEN 0 ELSE 1
    BY <1>6 DEF Argument, Unsigned, Integral, Flags
  <2>3. Decode(message) = [op |-> c.op, mode |-> IF Argument(c) = 0 THEN "Auto" ELSE "Manual"]
    BY <1>1, <1>6 DEF Decode, Unsigned, Integral, Flags
  <2> QED
    BY <2>1, <2>2, <2>3 DEF message
<1>7. CASE c.op = "SetDirectSampling"
  <2>1. c = [op |-> c.op, mode |-> c.mode] /\ c.mode \in {"None", "I", "Q"}
    BY <1>7 DEF Commands, Unsigned, Integral, Flags, Samplings
  <2>2. Argument(c) = CASE c.mode = "None" -> 0 [] c.mode = "I" -> 1 [] c.mode = "Q" -> 2
    BY <1>7 DEF Argument, Unsigned, Integral, Flags
  <2>3. Decode(message) = [op |-> c.op, mode |-> CASE Argument(c) = 1 -> "I"
                                                   [] Argument(c) = 2 -> "Q"
                                                   [] OTHER -> "None"]
    BY <1>1, <1>7 DEF Decode, Unsigned, Integral, Flags
  <2> QED
    BY <2>1, <2>2, <2>3 DEF message
<1> QED
  BY <1>2, <1>3, <1>4, <1>5, <1>6, <1>7 DEF Commands, Unsigned, Integral, Flags

----------------------------------------------------------------------------
(* The commands of a call, and what the server does for them *)

\* Most calls are commands.
LEMMA SimpleCall ==
  ASSUME NEW b \in Calls, b.op \notin {"Samples", "SetTunerGain"}
  PROVE  /\ CommandsOf(b) = <<b>>
         /\ b \in Commands
         /\ Apply(b) = <<b>>
<1>1. b.op \in Unsigned \cup Integral \cup Flags \cup {"SetTunerIfGain"} /\ b \in Commands
  BY DEF Calls, Commands, Unsigned, Integral, Flags
<1> QED
  BY <1>1 DEF CommandsOf, Apply, Unsigned, Integral, Flags

\* The choice of a sampling mode is a command that the server ignores.
LEMMA SamplesCall ==
  ASSUME NEW b \in Calls, b.op = "Samples"
  PROVE  \E c \in Commands : CommandsOf(b) = <<c>> /\ Apply(c) = <<>>
<1> DEFINE c == [op |-> "SetDirectSampling", mode |-> b.mode]
<1>1. c \in Commands
  BY DEF Calls, Commands, Unsigned, Integral, Flags
<1>2. CommandsOf(b) = <<c>>
  BY DEF CommandsOf
<1>3. Apply(c) = <<>>
  BY DEF Apply
<1> QED
  BY <1>1, <1>2, <1>3

\* A gain is set by its last command, and the mode before it has no effect.
LEMMA GainCall ==
  ASSUME NEW b \in Calls, b.op = "SetTunerGain"
  PROVE  \/ CommandsOf(b) = <<>>
         \/ \E c \in Commands : CommandsOf(b) = <<c>> /\ Apply(c) = <<b>>
         \/ \E c, d \in Commands :
              CommandsOf(b) = <<c, d>> /\ Apply(c) = <<>> /\ Apply(d) = <<b>>
<1>1. b = [op |-> "SetTunerGain", of |-> b.of] /\ b.of \in Gains
  BY DEF Calls, Unsigned, Integral, Flags
<1>2. GainMode("Auto") \in Commands /\ GainMode("Manual") \in Commands
  BY DEF GainMode, Commands
<1>3. Apply(GainMode("Manual")) = <<>> /\ Apply(GainMode("Auto")) = SetsGain("Auto", 0)
  BY DEF Apply, GainMode, ManualMode
<1>4. CASE b.of.kind = "Auto"
  <2>1. b.of = [kind |-> "Auto", value |-> 0]
    BY <1>1, <1>4 DEF Gains
  <2>2. CommandsOf(b) = <<GainMode("Auto")>>
    BY <1>4 DEF CommandsOf
  <2>3. SetsGain("Auto", 0) = <<b>>
    BY <1>1, <2>1 DEF SetsGain
  <2> QED
    BY <1>2, <1>3, <2>2, <2>3
<1>5. CASE b.of.kind = "ManualValue"
  <2> DEFINE d == [op |-> "SetTunerGain", value |-> b.of.value]
  <2>1. b.of = [kind |-> "ManualValue", value |-> b.of.value] /\ b.of.value \in I32
    BY <1>1, <1>5 DEF Gains
  <2>2. CommandsOf(b) = <<GainMode("Manual"), d>>
    BY <1>5 DEF CommandsOf
  <2>3. d \in Commands
    BY <2>1 DEF Commands
  <2>4. Apply(d) = SetsGain("ManualValue", b.of.value)
    BY DEF Apply
  <2>5. SetsGain("ManualValue", b.of.value) = <<b>>
    BY <1>1, <2>1 DEF SetsGain
  <2> QED
    BY <1>2, <1>3, <2>2, <2>3, <2>4, <2>5
<1>6. CASE b.of.kind = "ManualIndex" /\ b.of.value \in U32
  <2> DEFINE d == [op |-> "SetTunerGainIndex", value |-> b.of.value]
  <2>1. b.of = [kind |-> "ManualIndex", value |-> b.of.value]
    BY <1>1, <1>6 DEF Gains
  <2>2. CommandsOf(b) = <<GainMode("Manual"), d>>
    BY <1>6 DEF CommandsOf
  <2>3. d \in Commands
    BY <1>6 DEF Commands
  <2>4. Apply(d) = SetsGain("ManualIndex", b.of.value)
    BY DEF Apply
  <2>5. SetsGain("ManualIndex", b.of.value) = <<b>>
    BY <1>1, <2>1 DEF SetsGain
  <2> QED
    BY <1>2, <1>3, <2>2, <2>3, <2>4, <2>5
<1>7. CASE b.of.kind = "ManualIndex" /\ b.of.value \notin U32
  <2>1. CommandsOf(b) = <<>>
    BY <1>7 DEF CommandsOf
  <2> QED
    BY <2>1
<1> QED
  BY <1>1, <1>4, <1>5, <1>6, <1>7 DEF Gains

\* What the server does for a command that it receives.
Effect(message) == Apply(Decode(message))

\* Whether a call is one of those that reach the device.
Remote(b) == b.op # "Samples"

\* Of the commands of a call, the last has the effect of the call, and no other has one.
LEMMA CommandsOfCall ==
  ASSUME NEW b \in Calls
  PROVE  \/ CommandsOf(b) = <<>>
         \/ \E c \in Commands : /\ CommandsOf(b) = <<c>>
                                /\ Effect(Encode(c)) = IF Remote(b) THEN <<b>> ELSE <<>>
         \/ \E c, d \in Commands : /\ CommandsOf(b) = <<c, d>>
                                   /\ Remote(b)
                                   /\ Effect(Encode(c)) = <<>>
                                   /\ Effect(Encode(d)) = <<b>>
<1>1. \A c \in Commands : Effect(Encode(c)) = Apply(c)
  BY DecodeInvertsEncode DEF Effect
<1>2. CASE b.op \notin {"Samples", "SetTunerGain"}
  BY <1>1, <1>2, SimpleCall DEF Remote
<1>3. CASE b.op = "Samples"
  BY <1>1, <1>3, SamplesCall DEF Remote
<1>4. CASE b.op = "SetTunerGain"
  BY <1>1, <1>4, GainCall DEF Remote
<1> QED
  BY <1>2, <1>3, <1>4

----------------------------------------------------------------------------
(* The search for a gain *)

\* A set of natural numbers has a least element: 0 .. n - 1 is a smaller set for a
\* smaller n, and inclusion of finite sets is well founded.
LEMMA LeastNumber ==
  ASSUME NEW S \in SUBSET Nat, S # {}
  PROVE  \E x \in S : \A y \in S : x <= y
<1> DEFINE Below(n) == 0 .. n - 1
           T == {Below(n) : n \in S}
<1>1. \A n \in S : Below(n) \in FiniteSubsetsOf(Nat)
  BY FS_Interval DEF FiniteSubsetsOf
<1>2. T \subseteq FiniteSubsetsOf(Nat) /\ T # {}
  BY <1>1
<1>3. PICK X \in T : \A Y \in T : <<Y, X>> \notin StrictSubsetOrdering(Nat)
  BY <1>2, FS_StrictSubsetOrderingWellFounded, WFMin
<1>4. PICK x \in S : X = Below(x)
  OBVIOUS
<1>5. ASSUME NEW y \in S, ~(x <= y)
      PROVE  FALSE
  <2>1. Below(y) \subseteq X /\ Below(y) # X /\ Below(y) \in SUBSET Nat /\ X \in SUBSET Nat
    BY <1>4, <1>5
  <2>2. <<Below(y), X>> \in StrictSubsetOrdering(Nat)
    BY <2>1 DEF StrictSubsetOrdering
  <2> QED
    BY <2>2, <1>3
<1> QED
  BY <1>5

\* Distances are i32, if not always positive.
LEMMA DistanceType ==
  ASSUME NEW x \in Int, NEW y \in Int
  PROVE  Distance(x, y) \in I32
<1>1. Signed(x - y, Word) \in I32
  BY WordIsEven, SignedType DEF I32
<1>2. Signed(-Signed(x - y, Word), Word) \in I32
  <2>1. -Signed(x - y, Word) \in Int
    BY <1>1 DEF I32
  <2> QED
    BY <2>1, WordIsEven, SignedType DEF I32
<1> QED
  BY <1>1, <1>2 DEF Distance, Abs32

\* What min_by_key looks for.
Closest(i, gain) ==
  /\ \A j \in 1 .. Len(TunerGains) :
       Distance(TunerGains[i], gain) <= Distance(TunerGains[j], gain)
  /\ \A j \in 1 .. i - 1 :
       Distance(TunerGains[i], gain) < Distance(TunerGains[j], gain)

\* The search returns one of the supported gains, at the least distance, if there is
\* one at all.
LEMMA NearestIsClosest ==
  ASSUME NEW gain \in Int, TunerGains # <<>>
  PROVE  \E i \in 1 .. Len(TunerGains) :
           /\ Nearest(gain) = TunerGains[i]
           /\ \A j \in 1 .. Len(TunerGains) :
                Distance(TunerGains[i], gain) <= Distance(TunerGains[j], gain)
<1> DEFINE D(i) == Distance(TunerGains[i], gain)
           Indices == 1 .. Len(TunerGains)
<1>1. Len(TunerGains) \in Nat \ {0} /\ \A i \in Indices : TunerGains[i] \in I32
  BY GainsAssumption
<1>2. \A i \in Indices : D(i) \in I32
  <2>1. \A i \in Indices : TunerGains[i] \in Int
    BY <1>1 DEF I32
  <2> QED
    BY <2>1, DistanceType
<1>3. \A x \in I32 : x \in Int /\ x + Word \in Nat
  <2>1. Word \div 2 <= Word /\ Word \div 2 \in Nat
    BY WordIsEven
  <2> QED
    BY <2>1, WordIsEven DEF I32
<1> HIDE DEF D
<1>4. PICK d \in {D(i) + Word : i \in Indices} : \A e \in {D(i) + Word : i \in Indices} : d <= e
  <2>1. {D(i) + Word : i \in Indices} \in SUBSET Nat
    BY <1>2, <1>3
  <2>2. {D(i) + Word : i \in Indices} # {}
    BY <1>1
  <2> QED
    BY <2>1, <2>2, LeastNumber
<1> DEFINE Best == {i \in Indices : D(i) + Word = d}
<1>5. \A i \in Best, j \in Indices : D(i) <= D(j)
  <2> SUFFICES ASSUME NEW i \in Best, NEW j \in Indices
               PROVE  D(i) <= D(j)
    OBVIOUS
  <2>1. D(i) + Word <= D(j) + Word
    BY <1>4
  <2> QED
    BY <2>1, <1>2, <1>3, WordIsEven
<1>6. PICK i \in Best : \A j \in Best : i <= j
  <2>1. Best \in SUBSET Nat /\ Best # {}
    BY <1>1, <1>4
  <2> HIDE DEF Best
  <2> QED
    BY <2>1, LeastNumber
<1>7. \A j \in 1 .. i - 1 : D(i) < D(j)
  <2> SUFFICES ASSUME NEW j \in 1 .. i - 1
               PROVE  D(i) < D(j)
    OBVIOUS
  <2>1. i \in Indices /\ j \in Indices /\ i \in Nat /\ j \in Nat /\ j < i
    BY <1>1
  <2>2. D(j) + Word # d
    BY <1>6, <2>1
  <2>3. D(i) + Word = d
    BY <1>6
  <2>4. D(i) <= D(j) /\ D(i) \in Int /\ D(j) \in Int
    BY <1>5, <1>2, <1>3, <2>1
  <2> QED
    BY <2>2, <2>3, <2>4
<1>8. Closest(i, gain)
  BY <1>5, <1>7 DEF Closest, D
<1> DEFINE best == CHOOSE n \in Indices : Closest(n, gain)
<1>9. best \in Indices /\ Closest(best, gain)
  BY <1>8
<1>10. Nearest(gain) = TunerGains[best]
  BY DEF Nearest, Closest
<1> HIDE DEF best
<1> QED
  BY <1>9, <1>10 DEF Closest

\* Where the difference of two gains fits into an i32, the search measures it.
LEMMA DistanceIsDifference ==
  ASSUME NEW x \in Int, NEW y \in Int, x - y \in I32 \ {-(Word \div 2)}
  PROVE  Distance(x, y) = AbsDiff(x, y)
<1> DEFINE d == x - y
<1>1. Word \div 2 \in Nat /\ Word = 2 * (Word \div 2)
  BY WordIsEven
<1>2. \A z \in I32 : Signed(z, Word) = z
  <2> SUFFICES ASSUME NEW z \in I32
               PROVE  Signed(z, Word) = z
    OBVIOUS
  <2>1. z % Word \in 0 .. Word - 1 /\ Signed(z % Word, Word) = z
    BY WordIsEven, SignedInverts DEF I32
  <2>2. (z % Word) % Word = z % Word
    <3>1. \A n \in Nat \ {0} : \A m \in 0 .. n - 1 : m % n = m
      BY SMT
    <3> QED
      BY <2>1, <3>1, WordIsEven
  <2> QED
    BY <2>1, <2>2 DEF Signed
<1>3. Signed(d, Word) = d
  BY <1>2
<1>4. CASE d < 0
  <2>1. -d \in I32
    BY <1>1, <1>4 DEF I32
  <2>2. Signed(-d, Word) = -d
    BY <1>2, <2>1
  <2> QED
    BY <1>3, <1>4, <2>2 DEF Distance, Abs32, AbsDiff
<1>5. CASE ~(d < 0)
  BY <1>3, <1>5 DEF Distance, Abs32, AbsDiff
<1> QED
  BY <1>4, <1>5

----------------------------------------------------------------------------
(* The inductive invariant *)

\* What is left to send belongs to the latest call.
TodoInv ==
  \A c \in Clones :
    todo[c] # <<>> => /\ call[c] \in UserCalls
                      /\ \/ todo[c] = CommandsOf(call[c])
                         \/ todo[c] = Tail(CommandsOf(call[c]))

\* The commands on the way will have the effects of the calls that are completed and
\* not applied yet: done[i] calls are applied when i commands are handled.
Done(done) ==
  /\ done[0] = Len(applied)
  /\ \A i \in 1 .. Len(wire) :
       \/ done[i] = done[i - 1] /\ Effect(wire[i]) = <<>>
       \/ done[i] = done[i - 1] + 1 /\ Effect(wire[i]) = <<completed[done[i]]>>
  /\ connected => done[Len(wire)] = Len(completed)

\* What was applied is what was completed first, and the rest is on the way.
WireInv ==
  /\ Len(applied) <= Len(completed)
  /\ \A i \in 1 .. Len(applied) : applied[i] = completed[i]
  /\ \E done \in [0 .. Len(wire) -> 0 .. Len(completed)] : Done(done)

\* AppliedAsCalled is not inductive: it says nothing of the commands on the way, nor of
\* those that a call has yet to send.
CallsInv ==
  /\ CallsTypeOK
  /\ TodoInv
  /\ WireInv
  /\ GainIsNearest

\* The states of the tuner.
Tuners == [mode : Modes, gain : Range(TunerGains) \cup {NoGain}]

\* A gain that is set is that of the tuner if both library calls succeed, and if the
\* second fails there is none.
LEMMA SetManualResults ==
  ASSUME NEW gain \in Range(TunerGains), NEW t \in Tuners, NEW result \in SetManual(gain, t)
  PROVE  /\ result.tuner \in Tuners
         /\ result.ok => result.tuner = [mode |-> "Manual", gain |-> gain]
         /\ ~result.ok => \/ result.tuner = t
                          \/ result.tuner = [mode |-> "Manual", gain |-> NoGain]
<1>1. /\ [mode |-> "Manual", gain |-> gain] \in Tuners
      /\ [mode |-> "Manual", gain |-> NoGain] \in Tuners
  BY DEF Tuners, Modes
<1>2. \/ result = Fails(t)
      \/ result = Fails([mode |-> "Manual", gain |-> NoGain])
      \/ result = Succeeds([mode |-> "Manual", gain |-> gain])
  BY DEF SetManual
<1> QED
  BY <1>1, <1>2 DEF Fails, Succeeds

\* The nearest gain is the right choice for a value.
LEMMA NearestIsChosen ==
  ASSUME NEW gain \in Gains, gain.kind = "ManualValue", TunerGains # <<>>
  PROVE  Chosen(gain, Nearest(gain.value))
<1>1. gain.value \in Int
  BY DEF Gains, I32
<1>2. PICK n \in 1 .. Len(TunerGains) :
        /\ Nearest(gain.value) = TunerGains[n]
        /\ \A j \in 1 .. Len(TunerGains) :
             Distance(TunerGains[n], gain.value) <= Distance(TunerGains[j], gain.value)
  BY <1>1, NearestIsClosest
<1>3. \A i \in 1 .. Len(TunerGains) : TunerGains[i] \in Int
  <2>1. \A i \in 1 .. Len(TunerGains) : TunerGains[i] \in I32
    BY GainsAssumption
  <2> QED
    BY <2>1 DEF I32
<1>4. ASSUME Fits(gain.value), NEW i \in 1 .. Len(TunerGains)
      PROVE  Distance(TunerGains[i], gain.value) = AbsDiff(TunerGains[i], gain.value)
  BY <1>1, <1>3, <1>4, DistanceIsDifference DEF Fits
<1>5. Nearest(gain.value) \in Range(TunerGains)
  BY <1>2, GainsAssumption DEF Range
<1> QED
  BY <1>2, <1>4, <1>5 DEF Chosen

\* What set_tuner_gain may return, and how it leaves the tuner: as asked if it returns
\* Ok, and otherwise as it was, or without a gain.
LEMMA SetTunerGainResults ==
  ASSUME NEW gain \in Gains, NEW t \in Tuners, NEW result \in SetTunerGain(gain, t)
  PROVE  /\ result.tuner \in Tuners
         /\ result.ok =>
              \/ gain.kind = "Auto" /\ result.tuner.mode = "Auto"
              \/ /\ gain.kind # "Auto" /\ result.tuner.mode = "Manual"
                 /\ Chosen(gain, result.tuner.gain)
         /\ ~result.ok =>
              \/ result.tuner = t
              \/ gain.kind # "Auto" /\ result.tuner = [mode |-> "Manual", gain |-> NoGain]
<1>1. CASE result = Fails(t)
  BY <1>1 DEF Fails
<1>2. CASE gain.kind = "Auto"
  <2>1. result = Fails(t) \/ result = Succeeds([t EXCEPT !.mode = "Auto"])
    BY <1>2 DEF SetTunerGain
  <2>2. [t EXCEPT !.mode = "Auto"] \in Tuners /\ [t EXCEPT !.mode = "Auto"].mode = "Auto"
    BY DEF Tuners, Modes
  <2>3. CASE result = Succeeds([t EXCEPT !.mode = "Auto"])
    <3>1. result.ok /\ result.tuner = [t EXCEPT !.mode = "Auto"]
      BY <2>3 DEF Succeeds
    <3> QED
      BY <1>2, <2>2, <3>1
  <2>4. CASE result = Fails(t)
    <3>1. ~result.ok /\ result.tuner = t
      BY <2>4 DEF Fails
    <3> QED
      BY <3>1
  <2> QED
    BY <2>1, <2>3, <2>4
<1>3. ASSUME NEW chosen \in Range(TunerGains), Chosen(gain, chosen),
             gain.kind # "Auto", result \in SetManual(chosen, t)
      PROVE  /\ result.tuner \in Tuners
             /\ result.ok => /\ result.tuner.mode = "Manual"
                             /\ Chosen(gain, result.tuner.gain)
             /\ ~result.ok => \/ result.tuner = t
                              \/ result.tuner = [mode |-> "Manual", gain |-> NoGain]
  <2>1. /\ result.tuner \in Tuners
        /\ result.ok => result.tuner = [mode |-> "Manual", gain |-> chosen]
        /\ ~result.ok => \/ result.tuner = t
                         \/ result.tuner = [mode |-> "Manual", gain |-> NoGain]
    BY <1>3, SetManualResults
  <2>2. ASSUME result.tuner = [mode |-> "Manual", gain |-> chosen]
        PROVE  result.tuner.mode = "Manual" /\ Chosen(gain, result.tuner.gain)
    <3>1. result.tuner.mode = "Manual" /\ result.tuner.gain = chosen
      BY <2>2
    <3> QED
      BY <1>3, <3>1
  <2> QED
    BY <2>1, <2>2
<1>4. CASE gain.kind = "ManualValue" /\ TunerGains # <<>>
  <2>1. result \in SetManual(Nearest(gain.value), t)
    BY <1>4 DEF SetTunerGain
  <2>2. Chosen(gain, Nearest(gain.value))
    BY <1>4, NearestIsChosen
  <2>3. Nearest(gain.value) \in Range(TunerGains)
    BY <2>2 DEF Chosen
  <2> QED
    BY <1>3, <1>4, <2>1, <2>2, <2>3
<1>5. CASE gain.kind = "ManualIndex" /\ gain.value < Len(TunerGains)
  <2>1. result \in SetManual(TunerGains[gain.value + 1], t)
    BY <1>5 DEF SetTunerGain
  <2>2. gain.value + 1 \in 1 .. Len(TunerGains)
    <3>1. gain.value \in Nat
      BY <1>5, WordIsEven DEF Gains
    <3> QED
      BY <1>5, <3>1, GainsAssumption
  <2>3. TunerGains[gain.value + 1] \in Range(TunerGains)
    BY <2>2, GainsAssumption DEF Range
  <2>4. Chosen(gain, TunerGains[gain.value + 1])
    BY <1>5, <2>3 DEF Chosen
  <2> QED
    BY <1>3, <1>5, <2>1, <2>3, <2>4
<1>6. CASE /\ gain.kind # "Auto"
           /\ ~(gain.kind = "ManualValue" /\ TunerGains # <<>>)
           /\ ~(gain.kind = "ManualIndex" /\ gain.value < Len(TunerGains))
  BY <1>1, <1>6 DEF SetTunerGain
<1> QED
  BY <1>2, <1>4, <1>5, <1>6

\* What the next command of a call does: only the last one has an effect.
LEMMA NextCommand ==
  ASSUME CallsTypeOK, TodoInv, NEW c \in Clones, todo[c] # <<>>
  PROVE  /\ call[c] \in UserCalls
         /\ Head(todo[c]) \in Commands
         /\ Effect(Encode(Head(todo[c]))) =
              IF Len(todo[c]) = 1 /\ call[c].op # "Samples" THEN <<call[c]>> ELSE <<>>
         /\ Tail(todo[c]) # <<>> => Tail(todo[c]) = Tail(CommandsOf(call[c]))
<1> DEFINE b == call[c]
<1>1. b \in UserCalls /\ b \in Calls
  BY UserCallsAssumption DEF TodoInv
<1>2. todo[c] = CommandsOf(b) \/ todo[c] = Tail(CommandsOf(b))
  BY DEF TodoInv
<1> HIDE DEF b
<1>3. CASE CommandsOf(b) = <<>>
  <2>1. Tail(CommandsOf(b)) = <<>>
    BY <1>3
  <2> QED
    BY <1>2, <1>3, <2>1
<1>4. CASE \E d \in Commands : /\ CommandsOf(b) = <<d>>
                               /\ Effect(Encode(d)) = IF Remote(b) THEN <<b>> ELSE <<>>
  <2>1. PICK d \in Commands : /\ CommandsOf(b) = <<d>>
                              /\ Effect(Encode(d)) = IF Remote(b) THEN <<b>> ELSE <<>>
    BY <1>4
  <2>2. todo[c] = <<d>>
    BY <1>2, <2>1
  <2>3. Head(todo[c]) = d /\ Len(todo[c]) = 1 /\ Tail(todo[c]) = <<>>
    BY <2>2
  <2> QED
    BY <1>1, <2>1, <2>3 DEF Remote, b
<1>5. CASE \E d, e \in Commands : /\ CommandsOf(b) = <<d, e>>
                                  /\ Remote(b)
                                  /\ Effect(Encode(d)) = <<>>
                                  /\ Effect(Encode(e)) = <<b>>
  <2>1. PICK d \in Commands, e \in Commands : /\ CommandsOf(b) = <<d, e>>
                                              /\ Remote(b)
                                              /\ Effect(Encode(d)) = <<>>
                                              /\ Effect(Encode(e)) = <<b>>
    BY <1>5
  <2>2. Tail(<<d, e>>) = <<e>>
    OBVIOUS
  <2>3. CASE todo[c] = <<d, e>>
    <3>1. Head(todo[c]) = d /\ Len(todo[c]) = 2 /\ Tail(todo[c]) = <<e>>
      BY <2>3, <2>2
    <3> QED
      BY <1>1, <2>1, <2>2, <3>1 DEF b
  <2>4. CASE todo[c] = <<e>>
    <3>1. Head(todo[c]) = e /\ Len(todo[c]) = 1 /\ Tail(todo[c]) = <<>>
      BY <2>4
    <3> QED
      BY <1>1, <2>1, <3>1 DEF Remote, b
  <2> QED
    BY <1>2, <2>1, <2>2, <2>3, <2>4
<1> QED
  BY <1>1, <1>3, <1>4, <1>5, CommandsOfCall

\* A call is translated to commands.
LEMMA CommandsOfType ==
  ASSUME NEW b \in Calls
  PROVE  CommandsOf(b) \in Seq(Commands)
<1>1. /\ <<>> \in Seq(Commands)
      /\ \A c \in Commands : <<c>> \in Seq(Commands)
      /\ \A c, d \in Commands : <<c, d>> \in Seq(Commands)
  OBVIOUS
<1> QED
  BY <1>1, CommandsOfCall

----------------------------------------------------------------------------
(* Every step preserves the invariant *)

\* In the initial state nothing was called.
LEMMA Init_CallsInv ==
  CallsInit => CallsInv
<1> SUFFICES ASSUME CallsInit PROVE CallsInv
  OBVIOUS
<1>1. CallsTypeOK
  BY UserCallsAssumption DEF CallsInit, CallsTypeOK
<1>2. TodoInv
  BY DEF CallsInit, TodoInv
<1>3. WireInv
  <2> DEFINE done == [i \in 0 .. 0 |-> 0]
  <2>1. wire = <<>> /\ applied = <<>> /\ completed = <<>>
    BY DEF CallsInit
  <2>2. Len(wire) = 0 /\ Len(applied) = 0 /\ Len(completed) = 0
    BY <2>1
  <2>3. done \in [0 .. Len(wire) -> 0 .. Len(completed)]
    BY <2>2
  <2>4. Done(done)
    BY <2>2 DEF Done
  <2> HIDE DEF done
  <2> QED
    BY <2>2, <2>3, <2>4 DEF WireInv
<1>4. GainIsNearest
  BY DEF CallsInit, GainIsNearest
<1> QED
  BY <1>1, <1>2, <1>3, <1>4 DEF CallsInv

\* The commands of a new call are those of the call.
LEMMA StartCall_Inv ==
  ASSUME CallsInv, NEW c \in Clones, NEW b \in UserCalls, StartCall(c, b)
  PROVE  CallsInv'
<1>1. CallsTypeOK /\ TodoInv /\ WireInv /\ GainIsNearest
  BY DEF CallsInv
<1>2. b \in Calls /\ CommandsOf(b) \in Seq(Commands)
  BY UserCallsAssumption, CommandsOfType
<1>3. call' = [call EXCEPT ![c] = b] /\ todo' = [todo EXCEPT ![c] = CommandsOf(b)]
  BY DEF StartCall
<1>4. UNCHANGED <<connected, wire, tuner, completed, applied, failed>>
  BY DEF StartCall, history
<1>5. CallsTypeOK'
  <2>1. made' \in 0 .. MaxCalls
    BY <1>1, UserCallsAssumption DEF CallsTypeOK, StartCall
  <2>2. call' \in [Clones -> UserCalls \cup {NoCall}] /\ todo' \in [Clones -> Seq(Commands)]
    BY <1>1, <1>2, <1>3 DEF CallsTypeOK
  <2> QED
    BY <1>1, <1>4, <2>1, <2>2 DEF CallsTypeOK
<1>6. TodoInv'
  BY <1>1, <1>2, <1>3 DEF TodoInv, CallsTypeOK
<1>7. WireInv'
  BY <1>1, <1>4 DEF WireInv, Done
<1>8. GainIsNearest'
  BY <1>1, <1>4 DEF GainIsNearest, LastSuccess, ManualFailedAfter
<1> QED
  BY <1>5, <1>6, <1>7, <1>8 DEF CallsInv

\* The last command of a call completes it, and will be the one to apply it.
LEMMA SendCommand_Inv ==
  ASSUME CallsInv, NEW c \in Clones, SendCommand(c)
  PROVE  CallsInv'
<1>1. CallsTypeOK /\ TodoInv /\ WireInv /\ GainIsNearest
  BY DEF CallsInv
<1> DEFINE message == Encode(Head(todo[c]))
           IsLast == Len(todo[c]) = 1 /\ call[c].op # "Samples"
<1>2. /\ connected /\ todo[c] # <<>>
      /\ wire' = Append(wire, message)
      /\ todo' = [todo EXCEPT ![c] = Tail(todo[c])]
      /\ completed' = IF IsLast THEN Append(completed, call[c]) ELSE completed
      /\ UNCHANGED <<made, call, connected, tuner, applied, failed>>
  BY DEF SendCommand
<1>3. /\ call[c] \in UserCalls
      /\ Head(todo[c]) \in Commands
      /\ Effect(message) = IF IsLast THEN <<call[c]>> ELSE <<>>
      /\ Tail(todo[c]) # <<>> => Tail(todo[c]) = Tail(CommandsOf(call[c]))
  BY <1>1, <1>2, NextCommand
<1>4. message \in (1 .. Len(Opcodes)) \X U32
  BY <1>3, EncodeType
<1>5. /\ todo[c] \in Seq(Commands) /\ Tail(todo[c]) \in Seq(Commands)
      /\ wire \in Seq((1 .. Len(Opcodes)) \X U32) /\ completed \in Seq(UserCalls)
      /\ applied \in Seq(Calls)
  BY <1>1, <1>2 DEF CallsTypeOK
<1> HIDE DEF message, IsLast
<1>6. CallsTypeOK'
  <2>1. wire' \in Seq((1 .. Len(Opcodes)) \X U32)
    BY <1>2, <1>4, <1>5
  <2>2. completed' \in Seq(UserCalls)
    BY <1>2, <1>3, <1>5
  <2>3. todo' \in [Clones -> Seq(Commands)]
    BY <1>1, <1>2, <1>5 DEF CallsTypeOK
  <2> QED
    BY <1>1, <1>2, <2>1, <2>2, <2>3 DEF CallsTypeOK
<1>7. TodoInv'
  BY <1>1, <1>2, <1>3 DEF TodoInv, CallsTypeOK
<1>8. WireInv'
  <2>1. PICK done \in [0 .. Len(wire) -> 0 .. Len(completed)] : Done(done)
    BY <1>1 DEF WireInv
  <2>2. /\ Len(wire) \in Nat /\ Len(wire') = Len(wire) + 1
        /\ \A i \in 1 .. Len(wire) : wire'[i] = wire[i]
        /\ wire'[Len(wire) + 1] = message
    BY <1>2, <1>4, <1>5
  <2>3. /\ Len(completed) \in Nat /\ Len(applied) \in Nat
        /\ Len(completed') = Len(completed) + (IF IsLast THEN 1 ELSE 0)
        /\ \A i \in 1 .. Len(completed) : completed'[i] = completed[i]
        /\ IsLast => completed'[Len(completed) + 1] = call[c]
    BY <1>2, <1>3, <1>5
  <2> PICK next : next = [i \in 0 .. Len(wire) + 1 |->
                            IF i <= Len(wire) THEN done[i] ELSE Len(completed')]
    OBVIOUS
  <2>4. next \in [0 .. Len(wire') -> 0 .. Len(completed')]
    BY <2>2, <2>3
  <2>5. \A i \in 0 .. Len(wire) : next[i] = done[i] /\ done[i] \in 0 .. Len(completed)
    BY <2>1, <2>2
  <2>6. next[Len(wire) + 1] = Len(completed')
    BY <2>2
  <2>7. done[0] = Len(applied) /\ done[Len(wire)] = Len(completed)
    BY <1>2, <2>1 DEF Done
  <2>8. ASSUME NEW i \in 1 .. Len(wire')
        PROVE  \/ next[i] = next[i - 1] /\ Effect(wire'[i]) = <<>>
               \/ next[i] = next[i - 1] + 1 /\ Effect(wire'[i]) = <<completed'[next[i]]>>
    <3>1. CASE i \in 1 .. Len(wire)
      <4>1. i - 1 \in 0 .. Len(wire) /\ i \in 0 .. Len(wire)
        BY <3>1, <2>2
      <4>2. next[i] = done[i] /\ next[i - 1] = done[i - 1] /\ wire'[i] = wire[i]
        BY <3>1, <4>1, <2>2, <2>5
      <4>3. done[i] \in 0 .. Len(completed) /\ done[i - 1] \in 0 .. Len(completed)
        BY <4>1, <2>5
      <4>4. done[i] = done[i - 1] + 1 => done[i] \in 1 .. Len(completed)
        BY <4>3, <2>3
      <4> QED
        BY <2>1, <2>3, <3>1, <4>2, <4>4 DEF Done
    <3>2. CASE i = Len(wire) + 1
      <4>1. i - 1 = Len(wire) /\ i - 1 \in 0 .. Len(wire)
        BY <3>2, <2>2
      <4>2. next[i - 1] = Len(completed) /\ next[i] = Len(completed') /\ wire'[i] = message
        BY <3>2, <4>1, <2>2, <2>5, <2>6, <2>7
      <4>3. CASE IsLast
        <5>1. next[i] = next[i - 1] + 1 /\ next[i] = Len(completed) + 1
          BY <2>3, <4>2, <4>3
        <5>2. Effect(wire'[i]) = <<completed'[next[i]]>>
          BY <1>3, <2>3, <4>2, <4>3, <5>1
        <5> QED
          BY <5>1, <5>2
      <4>4. CASE ~IsLast
        BY <1>2, <1>3, <4>2, <4>4
      <4> QED
        BY <4>3, <4>4
    <3> QED
      BY <2>2, <3>1, <3>2
  <2>9. next[0] = Len(applied') /\ next[Len(wire')] = Len(completed')
    BY <1>2, <2>2, <2>5, <2>6, <2>7
  <2>10. Done(next)'
    BY <2>8, <2>9 DEF Done
  <2>11. /\ Len(applied') <= Len(completed')
         /\ \A i \in 1 .. Len(applied') : applied'[i] = completed'[i]
    <3>1. Len(applied) <= Len(completed) /\ \A i \in 1 .. Len(applied) : applied[i] = completed[i]
      BY <1>1 DEF WireInv
    <3> QED
      BY <3>1, <1>2, <2>3
  <2> QED
    BY <2>4, <2>10, <2>11 DEF WireInv
<1>9. GainIsNearest'
  BY <1>1, <1>2 DEF GainIsNearest, LastSuccess, ManualFailedAfter
<1> QED
  BY <1>6, <1>7, <1>8, <1>9 DEF CallsInv

\* A call that is given up has had no effect.
LEMMA GiveUp_Inv ==
  ASSUME CallsInv, NEW c \in Clones, GiveUp(c)
  PROVE  CallsInv'
<1>1. CallsTypeOK /\ TodoInv /\ WireInv /\ GainIsNearest
  BY DEF CallsInv
<1>2. /\ todo' = [todo EXCEPT ![c] = <<>>]
      /\ UNCHANGED <<made, call, connected, wire, tuner, completed, applied, failed>>
  BY DEF GiveUp, history
<1>3. CallsTypeOK'
  BY <1>1, <1>2 DEF CallsTypeOK
<1>4. TodoInv'
  BY <1>1, <1>2 DEF TodoInv, CallsTypeOK
<1>5. WireInv'
  BY <1>1, <1>2 DEF WireInv, Done
<1>6. GainIsNearest'
  BY <1>1, <1>2 DEF GainIsNearest, LastSuccess, ManualFailedAfter
<1> QED
  BY <1>3, <1>4, <1>5, <1>6 DEF CallsInv

\* The commands that still arrive keep their effects.
LEMMA ConnectionLost_Inv ==
  ASSUME CallsInv, ConnectionLost
  PROVE  CallsInv'
<1>1. CallsTypeOK /\ TodoInv /\ WireInv /\ GainIsNearest
  BY DEF CallsInv
<1>2. PICK n \in 0 .. Len(wire) : wire' = SubSeq(wire, 1, n)
  BY DEF ConnectionLost, Prefixes
<1>3. ~connected' /\ UNCHANGED <<made, call, todo, tuner, completed, applied, failed>>
  BY DEF ConnectionLost, history
<1>4. wire \in Seq((1 .. Len(Opcodes)) \X U32)
  BY <1>1 DEF CallsTypeOK
<1>5. /\ wire' \in Seq((1 .. Len(Opcodes)) \X U32)
      /\ Len(wire') = n /\ Len(wire) \in Nat
      /\ \A i \in 1 .. n : wire'[i] = wire[i]
  BY <1>2, <1>4
<1>6. CallsTypeOK'
  BY <1>1, <1>3, <1>5 DEF CallsTypeOK, ConnectionLost
<1>7. TodoInv'
  BY <1>1, <1>3 DEF TodoInv
<1>8. WireInv'
  <2>1. PICK done \in [0 .. Len(wire) -> 0 .. Len(completed)] : Done(done)
    BY <1>1 DEF WireInv
  <2> DEFINE next == [i \in 0 .. n |-> done[i]]
  <2>2. next \in [0 .. Len(wire') -> 0 .. Len(completed')]
    BY <1>3, <1>5, <2>1
  <2>3. \A i \in 0 .. n : next[i] = done[i]
    OBVIOUS
  <2> HIDE DEF next
  <2>4. ASSUME NEW i \in 1 .. Len(wire')
        PROVE  \/ next[i] = next[i - 1] /\ Effect(wire'[i]) = <<>>
               \/ next[i] = next[i - 1] + 1 /\ Effect(wire'[i]) = <<completed'[next[i]]>>
    <3>1. i \in 0 .. n /\ i - 1 \in 0 .. n /\ i \in 1 .. Len(wire) /\ wire'[i] = wire[i]
      BY <1>5
    <3>2. next[i] = done[i] /\ next[i - 1] = done[i - 1]
      BY <2>3, <3>1
    <3> QED
      BY <1>3, <2>1, <3>1, <3>2 DEF Done
  <2>5. next[0] = Len(applied')
    <3>1. 0 \in 0 .. n
      BY <1>5
    <3> QED
      BY <1>3, <2>1, <2>3, <3>1 DEF Done
  <2>6. Done(next)'
    BY <1>3, <2>4, <2>5 DEF Done
  <2> QED
    BY <1>1, <1>3, <2>2, <2>6 DEF WireInv
<1>9. GainIsNearest'
  BY <1>1, <1>3 DEF GainIsNearest, LastSuccess, ManualFailedAfter
<1> QED
  BY <1>6, <1>7, <1>8, <1>9 DEF CallsInv

\* The calls of users are calls of the trait.
LEMMA SeqOfUserCalls == \A s : s \in Seq(UserCalls) => s \in Seq(Calls)
<1> SUFFICES ASSUME NEW s \in Seq(UserCalls)
             PROVE  s \in Seq(Calls)
  OBVIOUS
<1>1. Len(s) \in Nat /\ s = [i \in 1 .. Len(s) |-> s[i]]
  OBVIOUS
<1>2. \A i \in 1 .. Len(s) : s[i] \in Calls
  BY UserCallsAssumption
<1> HIDE DEF Calls
<1> QED
  BY <1>1, <1>2

\* A command that is handled applies the next call that was completed, or nothing.
LEMMA HandleCommand_Inv ==
  ASSUME CallsInv, HandleCommand
  PROVE  CallsInv'
<1>1. CallsTypeOK /\ TodoInv /\ WireInv /\ GainIsNearest
  BY DEF CallsInv
<1> DEFINE calls == Effect(Head(wire))
<1>2. /\ wire # <<>> /\ wire' = Tail(wire)
      /\ applied' = applied \o calls
      /\ UNCHANGED <<made, call, todo, connected, completed>>
  BY DEF HandleCommand, Effect
<1> DEFINE SetsTheGain == calls # <<>> /\ IsGain(calls[1])
<1>3. ASSUME SetsTheGain
       PROVE  \E result \in SetTunerGain(calls[1].of, tuner) :
                /\ tuner' = result.tuner
                /\ failed' = IF result.ok THEN failed ELSE failed \cup {Len(applied')}
  BY <1>3 DEF HandleCommand, Effect
<1>4. ASSUME ~SetsTheGain
       PROVE  UNCHANGED <<tuner, failed>>
  BY <1>4 DEF HandleCommand, Effect
<1> HIDE DEF calls
<1>5. /\ wire \in Seq((1 .. Len(Opcodes)) \X U32)
      /\ applied \in Seq(Calls) /\ completed \in Seq(UserCalls)
  BY <1>1 DEF CallsTypeOK
<1>6. /\ Len(wire) \in Nat \ {0} /\ Head(wire) = wire[1]
      /\ wire' \in Seq((1 .. Len(Opcodes)) \X U32)
      /\ Len(wire') = Len(wire) - 1
      /\ \A i \in 1 .. Len(wire') : wire'[i] = wire[i + 1]
  BY <1>2, <1>5
<1>7. PICK done \in [0 .. Len(wire) -> 0 .. Len(completed)] : Done(done)
  BY <1>1 DEF WireInv
<1>8. Len(applied) <= Len(completed) /\ \A i \in 1 .. Len(applied) : applied[i] = completed[i]
  BY <1>1 DEF WireInv
\* The command has no effect, or applies the next call that was completed.
<1>9. \/ calls = <<>> /\ done[1] = Len(applied)
      \/ /\ done[1] = Len(applied) + 1 /\ Len(applied) + 1 \in 1 .. Len(completed)
         /\ calls = <<completed[Len(applied) + 1]>>
  <2>1. 1 \in 1 .. Len(wire) /\ 1 \in 0 .. Len(wire) /\ 1 - 1 = 0
    BY <1>6
  <2>2. \/ done[1] = done[0] /\ calls = <<>>
        \/ done[1] = done[0] + 1 /\ calls = <<completed[done[1]]>>
    BY <1>6, <1>7, <2>1 DEF Done, calls
  <2>3. done[0] = Len(applied) /\ Len(applied) \in Nat /\ done[1] \in 0 .. Len(completed)
    BY <1>5, <1>7, <2>1 DEF Done
  <2> QED
    BY <2>2, <2>3
<1>10. /\ Len(applied') = done[1] /\ Len(applied') <= Len(completed)
       /\ \A i \in 1 .. Len(applied') : applied'[i] = completed[i]
       /\ \A i \in 1 .. Len(applied) : applied'[i] = applied[i]
       /\ applied' \in Seq(UserCalls)
  <2>0. applied \in Seq(UserCalls)
    <3>1. \A i \in 1 .. Len(completed) : completed[i] \in UserCalls
      BY <1>5
    <3>2. \A i \in 1 .. Len(applied) : i \in 1 .. Len(completed)
      BY <1>5, <1>8
    <3>3. \A i \in 1 .. Len(applied) : applied[i] \in UserCalls
      BY <1>8, <3>1, <3>2
    <3>4. Len(applied) \in Nat /\ applied = [i \in 1 .. Len(applied) |-> applied[i]]
      BY <1>5
    <3> QED
      BY <3>3, <3>4
  <2>1. CASE calls = <<>> /\ done[1] = Len(applied)
    <3>1. applied' = applied
      BY <1>2, <1>5, <2>1
    <3> QED
      BY <1>8, <2>0, <2>1, <3>1
  <2>2. CASE /\ done[1] = Len(applied) + 1 /\ Len(applied) + 1 \in 1 .. Len(completed)
             /\ calls = <<completed[Len(applied) + 1]>>
    <3>1. applied' = Append(applied, completed[Len(applied) + 1])
      BY <1>2, <1>5, <2>2
    <3>2. completed[Len(applied) + 1] \in UserCalls
      BY <1>5, <2>2
    <3> QED
      BY <1>5, <1>8, <2>0, <2>2, <3>1, <3>2
  <2> QED
    BY <1>9, <2>1, <2>2
<1>11. calls # <<>> => /\ calls = <<calls[1]>> /\ calls[1] \in Calls
                      /\ Len(applied') = Len(applied) + 1
                      /\ applied'[Len(applied) + 1] = calls[1]
  <2>1. ASSUME calls # <<>>
        PROVE  /\ calls = <<completed[Len(applied) + 1]>>
               /\ Len(applied') = Len(applied) + 1
               /\ Len(applied) + 1 \in 1 .. Len(completed)
    BY <1>9, <1>10, <2>1
  <2>2. ASSUME calls # <<>>
        PROVE  completed[Len(applied) + 1] \in Calls
    BY <1>5, <2>1, <2>2, UserCallsAssumption
  <2>3. Len(applied) + 1 \in 1 .. Len(applied') /\ Len(applied') \in Nat
        => applied'[Len(applied) + 1] = completed[Len(applied) + 1]
    BY <1>10
  <2>4. ASSUME calls # <<>>
        PROVE  Len(applied) + 1 \in 1 .. Len(applied') /\ Len(applied') \in Nat
    BY <1>5, <2>1, <2>4
  <2>5. \A x : calls = <<x>> => calls[1] = x
    OBVIOUS
  <2> QED
    BY <2>1, <2>2, <2>3, <2>4, <2>5
<1>12. ASSUME SetsTheGain
       PROVE  calls[1].of \in Gains
  BY <1>11, <1>12 DEF IsGain, Calls, Unsigned, Integral, Flags
<1>13. tuner \in Tuners
  BY <1>1 DEF CallsTypeOK, Tuners
<1>14. Len(applied) \in Nat /\ failed \subseteq {n \in 1 .. Len(applied) : IsGain(applied[n])}
  BY <1>1, <1>5 DEF CallsTypeOK
<1>15. \/ applied' = applied
       \/ Len(applied') = Len(applied) + 1
  BY <1>2, <1>5, <1>11
<1>16. failed \subseteq {n \in 1 .. Len(applied') : IsGain(applied'[n])}
  <2> SUFFICES ASSUME NEW n \in failed
               PROVE  n \in 1 .. Len(applied') /\ IsGain(applied'[n])
    OBVIOUS
  <2>1. n \in 1 .. Len(applied) /\ IsGain(applied[n])
    BY <1>14
  <2>2. n \in 1 .. Len(applied')
    BY <1>14, <1>15, <2>1
  <2> QED
    BY <1>10, <2>1, <2>2
<1>17. CallsTypeOK'
  <2>1. applied' \in Seq(Calls)
    BY <1>10, SeqOfUserCalls
  <2>2. tuner' \in Tuners
    BY <1>3, <1>4, <1>12, <1>13, SetTunerGainResults
  <2>3. failed' \subseteq {n \in 1 .. Len(applied') : IsGain(applied'[n])}
    <3>1. CASE SetsTheGain
      <4>1. failed' = failed \/ failed' = failed \cup {Len(applied')}
        BY <1>3, <3>1
      <4>2. Len(applied') \in 1 .. Len(applied') /\ IsGain(applied'[Len(applied')])
        BY <1>11, <1>14, <3>1
      <4> QED
        BY <1>16, <4>1, <4>2
    <3>2. CASE ~SetsTheGain
      BY <1>4, <1>16, <3>2
    <3> QED
      BY <3>1, <3>2
  <2> QED
    BY <1>1, <1>2, <1>6, <2>1, <2>2, <2>3 DEF CallsTypeOK, Tuners
<1>18. TodoInv'
  BY <1>1, <1>2 DEF TodoInv
<1>19. WireInv'
  <2> PICK next : next = [i \in 0 .. Len(wire) - 1 |-> done[i + 1]]
    OBVIOUS
  <2>1. \A i \in 0 .. Len(wire') : next[i] = done[i + 1] /\ i + 1 \in 0 .. Len(wire)
    BY <1>6
  <2>2. next \in [0 .. Len(wire') -> 0 .. Len(completed')]
    BY <1>2, <1>6, <1>7, <2>1
  <2>3. ASSUME NEW i \in 1 .. Len(wire')
        PROVE  \/ next[i] = next[i - 1] /\ Effect(wire'[i]) = <<>>
               \/ next[i] = next[i - 1] + 1 /\ Effect(wire'[i]) = <<completed'[next[i]]>>
    <3>1. Len(wire') \in Nat /\ Len(wire) = Len(wire') + 1
      BY <1>6
    <3>2. /\ i \in 0 .. Len(wire') /\ i - 1 \in 0 .. Len(wire') /\ i + 1 \in 1 .. Len(wire)
          /\ (i - 1) + 1 = i /\ (i + 1) - 1 = i
      BY <3>1
    <3>3. wire'[i] = wire[i + 1]
      BY <1>6
    <3>4. next[i] = done[i + 1] /\ next[i - 1] = done[i]
      BY <2>1, <3>2
    <3> QED
      BY <1>2, <1>7, <3>2, <3>4, <3>3 DEF Done
  <2>4. next[0] = Len(applied')
    <3>1. 0 \in 0 .. Len(wire') /\ 0 + 1 = 1
      BY <1>6
    <3> QED
      BY <1>10, <2>1, <3>1
  <2>5. connected' => next[Len(wire')] = Len(completed')
    <3>1. Len(wire') \in 0 .. Len(wire') /\ Len(wire') + 1 = Len(wire)
      BY <1>6
    <3> QED
      BY <1>2, <1>7, <2>1, <3>1 DEF Done
  <2>6. Done(next)'
    BY <2>3, <2>4, <2>5 DEF Done
  <2> QED
    BY <1>2, <1>10, <2>2, <2>6 DEF WireInv
<1>20. GainIsNearest'
  <2> SUFFICES ASSUME NEW n \in 1 .. Len(applied'), LastSuccess(n)'
               PROVE  LET gain == applied'[n].of
                      IN  \/ gain.kind = "Auto" /\ tuner'.mode = "Auto"
                          \/ /\ gain.kind # "Auto" /\ tuner'.mode = "Manual"
                             /\ Chosen(gain, tuner'.gain)
                          \/ /\ ManualFailedAfter(n)'
                             /\ tuner' = [mode |-> "Manual", gain |-> NoGain]
    BY DEF GainIsNearest, Chosen, Fits
  <2>1. CASE n = Len(applied) + 1
    <3>1. SetsTheGain /\ applied'[n] = calls[1]
      <4>1. calls # <<>>
        BY <1>2, <1>5, <1>14, <2>1
      <4> QED
        BY <1>11, <2>1, <4>1 DEF LastSuccess
    <3>2. PICK result \in SetTunerGain(calls[1].of, tuner) :
            /\ tuner' = result.tuner
            /\ failed' = IF result.ok THEN failed ELSE failed \cup {Len(applied')}
      BY <1>3, <3>1
    <3>3. result.ok
      <4>1. Len(applied') = n
        BY <1>11, <2>1, <3>1
      <4> QED
        BY <3>2, <4>1 DEF LastSuccess
    <3> QED
      BY <1>12, <1>13, <3>1, <3>2, <3>3, SetTunerGainResults
  <2>2. CASE n # Len(applied) + 1
    <3>1. n \in 1 .. Len(applied) /\ applied'[n] = applied[n]
      BY <1>10, <1>14, <1>15, <2>2
    \* If the call sets the gain, it fails.
    <3>2. ASSUME SetsTheGain
          PROVE  /\ Len(applied') \in failed' /\ Len(applied') > n
                 /\ applied'[Len(applied')] = calls[1]
                 /\ failed \subseteq failed'
                 /\ \/ tuner' = tuner
                    \/ /\ calls[1].of.kind # "Auto"
                       /\ tuner' = [mode |-> "Manual", gain |-> NoGain]
      <4>1. Len(applied') = Len(applied) + 1 /\ applied'[Len(applied')] = calls[1]
        BY <1>11, <3>2
      <4>2. Len(applied') \in n + 1 .. Len(applied')
        BY <1>14, <3>1, <4>1
      <4>3. Len(applied') \in failed'
        BY <3>2, <4>1, <4>2 DEF LastSuccess
      <4>4. PICK result \in SetTunerGain(calls[1].of, tuner) :
              /\ tuner' = result.tuner
              /\ failed' = IF result.ok THEN failed ELSE failed \cup {Len(applied')}
        BY <1>3, <3>2
      <4>5. Len(applied') \notin failed
        BY <1>14, <4>1
      <4>6. ~result.ok
        BY <4>3, <4>4, <4>5
      <4> QED
        BY <1>12, <1>13, <1>14, <3>1, <3>2, <4>1, <4>3, <4>4, <4>6, SetTunerGainResults
    <3>3. /\ failed \subseteq failed'
          /\ SetsTheGain \/ failed' = failed
          /\ SetsTheGain \/ tuner' = tuner
      BY <1>4, <3>2
    <3>4. LastSuccess(n)
      <4>1. IsGain(applied[n]) /\ n \notin failed
        BY <3>1, <3>3 DEF LastSuccess
      <4>2. ASSUME NEW i \in n + 1 .. Len(applied), IsGain(applied[i])
            PROVE  i \in failed
        <5>1. i \in 1 .. Len(applied) /\ i \in n + 1 .. Len(applied')
          BY <1>14, <1>15, <3>1
        <5>2. i \in failed'
          BY <1>10, <4>2, <5>1 DEF LastSuccess
        <5>3. ASSUME SetsTheGain PROVE i # Len(applied')
          BY <1>11, <1>14, <5>1, <5>3
        <5>4. ASSUME SetsTheGain PROVE failed' \subseteq failed \cup {Len(applied')}
          BY <1>3, <5>4
        <5> QED
          BY <3>3, <5>2, <5>3, <5>4
      <4> QED
        BY <4>1, <4>2 DEF LastSuccess
    <3>5. ASSUME ManualFailedAfter(n) PROVE ManualFailedAfter(n)'
      <4>1. PICK i \in failed : i > n /\ applied[i].of.kind # "Auto"
        BY <3>5 DEF ManualFailedAfter
      <4>2. i \in failed' /\ applied'[i] = applied[i]
        BY <1>10, <1>14, <3>3, <4>1
      <4> QED
        BY <4>1, <4>2 DEF ManualFailedAfter
    <3>6. LET gain == applied[n].of
          IN  \/ gain.kind = "Auto" /\ tuner.mode = "Auto"
              \/ gain.kind # "Auto" /\ tuner.mode = "Manual" /\ Chosen(gain, tuner.gain)
              \/ ManualFailedAfter(n) /\ tuner = [mode |-> "Manual", gain |-> NoGain]
      BY <1>1, <3>1, <3>4 DEF GainIsNearest
    <3>7. CASE tuner' = tuner
      BY <3>1, <3>5, <3>6, <3>7
    <3>8. CASE tuner' # tuner
      <4>1. ManualFailedAfter(n)'
        BY <3>2, <3>3, <3>8 DEF ManualFailedAfter
      <4> QED
        BY <3>2, <3>3, <3>8, <4>1
    <3> QED
      BY <3>7, <3>8
  <2> QED
    BY <2>1, <2>2
<1> QED
  BY <1>17, <1>18, <1>19, <1>20 DEF CallsInv

----------------------------------------------------------------------------

\* The invariant holds for every number of clones and calls, every list of gains and
\* every width of the integers.
THEOREM CallsInvariance == CallsSpec => []CallsInv
<1>1. CallsInv /\ [CallsNext]_callsVars => CallsInv'
  <2> SUFFICES ASSUME CallsInv, [CallsNext]_callsVars
               PROVE  CallsInv'
    OBVIOUS
  <2>1. ASSUME NEW c \in Clones, NEW b \in UserCalls, StartCall(c, b)
        PROVE  CallsInv'
    BY <2>1, StartCall_Inv
  <2>2. ASSUME NEW c \in Clones, SendCommand(c)
        PROVE  CallsInv'
    BY <2>2, SendCommand_Inv
  <2>3. ASSUME NEW c \in Clones, GiveUp(c)
        PROVE  CallsInv'
    BY <2>3, GiveUp_Inv
  <2>4. CASE ConnectionLost
    BY <2>4, ConnectionLost_Inv
  <2>5. CASE HandleCommand
    BY <2>5, HandleCommand_Inv
  <2>6. CASE UNCHANGED callsVars
    BY <2>6 DEF callsVars, history, CallsInv, CallsTypeOK, TodoInv, WireInv, Done,
       GainIsNearest, LastSuccess, ManualFailedAfter
  <2> QED
    BY <2>1, <2>2, <2>3, <2>4, <2>5, <2>6 DEF CallsNext
<1> QED
  BY Init_CallsInv, <1>1, PTL DEF CallsSpec

\* Every variable keeps its type: the server only makes calls of the trait, and the
\* gain of the device is one of those that the tuner supports, or none.
THEOREM CallsTypes == CallsSpec => []CallsTypeOK
<1>1. CallsInv => CallsTypeOK
  BY DEF CallsInv
<1> QED
  BY CallsInvariance, <1>1, PTL

\* The calls made on the server's backend are those completed on the client, whole, in
\* order and with the same arguments, and all of them once nothing is on the way.
THEOREM CallsAreAppliedAsCalled == CallsSpec => []AppliedAsCalled
<1>1. CallsInv => AppliedAsCalled
  <2> SUFFICES ASSUME CallsTypeOK, WireInv
               PROVE  AppliedAsCalled
    BY DEF CallsInv
  <2>1. applied \in Seq(Calls) /\ completed \in Seq(UserCalls)
    BY DEF CallsTypeOK
  <2>2. Len(applied) <= Len(completed) /\ \A i \in 1 .. Len(applied) : applied[i] = completed[i]
    BY DEF WireInv
  <2>3. SubSeq(applied, 1, Len(applied)) = SubSeq(completed, 1, Len(applied))
    BY <2>1, <2>2
  <2>4. ASSUME connected, wire = <<>>
        PROVE  applied = completed
    <3>1. PICK done \in [0 .. Len(wire) -> 0 .. Len(completed)] : Done(done)
      BY DEF WireInv
    <3>2. Len(applied) = Len(completed)
      BY <2>4, <3>1 DEF Done
    <3> QED
      BY <2>1, <2>2, <3>2
  <2> QED
    BY <2>2, <2>3, <2>4 DEF AppliedAsCalled, IsPrefix
<1> QED
  BY CallsInvariance, <1>1, PTL

\* The gain of the device is that of the last call that succeeded, by its index or the
\* nearest to its value, unless a later manual gain failed half way; with any list of
\* gains, an empty one included.
THEOREM TheGainIsNearest == CallsSpec => []GainIsNearest
<1>1. CallsInv => GainIsNearest
  BY DEF CallsInv
<1> QED
  BY CallsInvariance, <1>1, PTL

=============================================================================
