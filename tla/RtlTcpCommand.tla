--------------------------- MODULE RtlTcpCommand ----------------------------
(***************************************************************************)
(* The commands of rtl_tcp/mod.rs: what a client sends for a call of the   *)
(* Backend trait (client.rs), their encoding as an opcode and a word of 32 *)
(* bits, the decoding, and the call that a server makes for a command.     *)
(* The arguments of commands and calls are named by their type: value,     *)
(* enable, mode.                                                           *)
(***************************************************************************)
EXTENDS TunerGain

U32 == 0 .. Word - 1

\* The operations whose argument is an u32, an i32 and a bool.
Unsigned == {"SetCenterFrequency", "SetSampleRate", "SetRtlXtal", "SetTunerXtal"}
Integral == {"SetFrequencyCorrection"}
Flags == {"SetAgcMode", "SetOffsetTuning", "SetBiasT"}

Samplings == {"None", "I", "Q"}

\* The methods of Backend.
Calls ==
  [op : Unsigned, value : U32]
    \cup [op : Integral, value : I32]
    \cup [op : Flags, enable : BOOLEAN]
    \cup [op : {"SetTunerIfGain"}, stage : I16, gain : I16]
    \cup [op : {"SetTunerGain"}, of : Gains]
    \cup [op : {"Samples"}, mode : Samplings]

\* Command, where the variants for a bare gain, index or mode are not calls.
Commands ==
  [op : Unsigned \cup {"SetTunerGainIndex"}, value : U32]
    \cup [op : Integral \cup {"SetTunerGain"}, value : I32]
    \cup [op : Flags \cup {"SetTestMode"}, enable : BOOLEAN]
    \cup [op : {"SetTunerIfGain"}, stage : I16, gain : I16]
    \cup [op : {"SetTunerGainMode"}, mode : {"Auto", "Manual"}]
    \cup [op : {"SetDirectSampling"}, mode : Samplings]

----------------------------------------------------------------------------
(* RtlTcpClient: the commands that one call sends, in this order. *)

GainMode(mode) == [op |-> "SetTunerGainMode", mode |-> mode]

CommandsOf(call) ==
  IF call.op = "Samples" THEN <<[op |-> "SetDirectSampling", mode |-> call.mode]>>
  ELSE IF call.op # "SetTunerGain" THEN <<call>>
  ELSE CASE call.of.kind = "Auto" -> <<GainMode("Auto")>>
         [] call.of.kind = "ManualValue" ->
              <<GainMode("Manual"), [op |-> "SetTunerGain", value |-> call.of.value]>>
         [] call.of.kind = "ManualIndex" /\ call.of.value \in U32 ->
              <<GainMode("Manual"), [op |-> "SetTunerGainIndex", value |-> call.of.value]>>
         [] OTHER -> <<>>   \* the index does not fit into an u32

----------------------------------------------------------------------------
(* Command::encode and Command::decode *)

Opcodes ==
  <<"SetCenterFrequency", "SetSampleRate", "SetTunerGainMode", "SetTunerGain",
    "SetFrequencyCorrection", "SetTunerIfGain", "SetTestMode", "SetAgcMode",
    "SetDirectSampling", "SetOffsetTuning", "SetRtlXtal", "SetTunerXtal",
    "SetTunerGainIndex", "SetBiasT">>

Invalid == [op |-> "InvalidCommand"]

Argument(command) ==
  CASE command.op \in Unsigned \cup {"SetTunerGainIndex"} -> command.value
    [] command.op \in Integral \cup {"SetTunerGain"} -> command.value % Word
    [] command.op \in Flags \cup {"SetTestMode"} -> IF command.enable THEN 1 ELSE 0
    [] command.op = "SetTunerIfGain" ->
         ((command.stage % Half) * Half) + (command.gain % Half)
    [] command.op = "SetTunerGainMode" -> IF command.mode = "Auto" THEN 0 ELSE 1
    [] command.op = "SetDirectSampling" ->
         CASE command.mode = "None" -> 0
           [] command.mode = "I" -> 1
           [] command.mode = "Q" -> 2

Encode(command) ==
  <<CHOOSE code \in 1 .. Len(Opcodes) : Opcodes[code] = command.op, Argument(command)>>

\* Fault: a signed argument is read with get_u32.
Integer_Unsigned(word) == word

\* get_i32
Integer(word) == Signed(word, Word)

Decode(message) ==
  LET op == Opcodes[message[1]]
      word == message[2]
  IN  IF message[1] \notin 1 .. Len(Opcodes) THEN Invalid
      ELSE CASE op \in Unsigned \cup {"SetTunerGainIndex"} -> [op |-> op, value |-> word]
             [] op \in Integral \cup {"SetTunerGain"} ->
                  [op |-> op, value |-> Integer(word)]
             [] op \in Flags \cup {"SetTestMode"} -> [op |-> op, enable |-> word # 0]
             [] op = "SetTunerIfGain" ->
                  [op |-> op, stage |-> Signed(word \div Half, Half),
                   gain |-> Signed(word % Half, Half)]
             [] op = "SetTunerGainMode" ->
                  [op |-> op, mode |-> IF word = 0 THEN "Auto" ELSE "Manual"]
             [] op = "SetDirectSampling" ->
                  [op |-> op, mode |-> CASE word = 1 -> "I"
                                         [] word = 2 -> "Q"
                                         [] OTHER -> "None"]

----------------------------------------------------------------------------
(* handle_command and Command::apply: the calls made on the server's backend. *)

SetsGain(kind, value) ==
  <<[op |-> "SetTunerGain", of |-> [kind |-> kind, value |-> value]]>>

\* Fault: the mode is set by its own command, with some gain.
ManualMode_Applied == SetsGain("ManualValue", 0)

\* The gain will come with the next command.
ManualMode == <<>>

Apply(command) ==
  CASE command.op = "SetTunerGainMode" ->
         IF command.mode = "Auto" THEN SetsGain("Auto", 0) ELSE ManualMode
    [] command.op = "SetTunerGain" -> SetsGain("ManualValue", command.value)
    [] command.op = "SetTunerGainIndex" -> SetsGain("ManualIndex", command.value)
    [] command.op \in {"SetTestMode", "SetDirectSampling"} -> <<>>   \* not supported
    [] OTHER -> <<command>>

=============================================================================
