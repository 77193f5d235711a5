---------------------------- MODULE RtlTcpCalls -----------------------------
(***************************************************************************)
(* Calls of the Backend trait that users make on clones of an              *)
(* RtlTcpClient, and what they do to the RtlSdr behind the server at the   *)
(* other end.  A call may send two commands, and may be dropped between    *)
(* them; commands of other clones come in between.  RtlTcpClient and       *)
(* RtlTcpServer model how commands get through a connection; here it is a  *)
(* queue, of which a part is lost when the connection ends.  A call on the *)
(* RtlSdr may fail there, of which the client learns nothing.              *)
(***************************************************************************)
EXTENDS RtlTcpCommand, SequencesExt

CONSTANTS
  Clones,    \* clones of the client
  UserCalls, \* the calls that users make
  MaxCalls   \* bound: calls made

ASSUME UserCallsAssumption == UserCalls \subseteq Calls /\ MaxCalls \in Nat

VARIABLES
  made,       \* calls made so far
  call,       \* call[c]: the latest call on c
  todo,       \* todo[c]: its commands that are not sent yet
  connected,
  wire,       \* commands sent and not yet handled, encoded
  tuner,      \* gain mode of the device, and the gain that it reports
  \* history variables
  completed,  \* the calls all of whose commands were sent, in that order,
              \* but for the choice of a sampling mode
  applied,    \* the calls made on the server's backend
  failed      \* positions in applied of the gain calls that returned an error

history == <<completed, applied, failed>>
callsVars == <<made, call, todo, connected, wire, tuner, history>>

NoCall == [op |-> "none"]
Modes == {"Auto", "Manual"}

CallsInit ==
  /\ made = 0
  /\ call = [c \in Clones |-> NoCall]
  /\ todo = [c \in Clones |-> <<>>]
  /\ connected = TRUE
  /\ wire = <<>>
  /\ tuner \in [mode : Modes, gain : Range(TunerGains) \cup {NoGain}]
  /\ completed = <<>>
  /\ applied = <<>>
  /\ failed = {}

\* A call that sends nothing returns Ok at once.
StartCall(c, b) ==
  /\ todo[c] = <<>>
  /\ made < MaxCalls
  /\ made' = made + 1
  /\ call' = [call EXCEPT ![c] = b]
  /\ todo' = [todo EXCEPT ![c] = CommandsOf(b)]
  /\ UNCHANGED <<connected, wire, tuner, history>>

SendCommand(c) ==
  /\ connected
  /\ todo[c] # <<>>
  /\ wire' = Append(wire, Encode(Head(todo[c])))
  /\ todo' = [todo EXCEPT ![c] = Tail(@)]
  /\ completed' = IF Len(todo[c]) = 1 /\ call[c].op # "Samples"
                  THEN Append(completed, call[c]) ELSE completed
  /\ UNCHANGED <<made, call, connected, tuner, applied, failed>>

\* The future is dropped, or a command cannot be sent any more.
GiveUp(c) ==
  /\ todo[c] # <<>>
  /\ todo' = [todo EXCEPT ![c] = <<>>]
  /\ UNCHANGED <<made, call, connected, wire, tuner, history>>

\* The first commands on the way still arrive.
ConnectionLost ==
  /\ connected
  /\ connected' = FALSE
  /\ wire' \in Prefixes(wire)
  /\ UNCHANGED <<made, call, todo, tuner, history>>

\* Whether a call is one that sets the gain.
IsGain(b) == b.op = "SetTunerGain"

\* The server awaits one command before it reads the next.  An error is logged, and
\* the connection goes on.  (Of calls that do not set the gain only that they were
\* made is of interest here, so that nothing depends on their results.)
HandleCommand ==
  /\ wire # <<>>
  /\ wire' = Tail(wire)
  /\ LET calls == Apply(Decode(Head(wire)))
     IN  /\ applied' = applied \o calls
         /\ IF calls # <<>> /\ IsGain(calls[1])
            THEN \E result \in SetTunerGain(calls[1].of, tuner) :
                   /\ tuner' = result.tuner
                   /\ failed' = IF result.ok THEN failed ELSE failed \cup {Len(applied')}
            ELSE UNCHANGED <<tuner, failed>>
  /\ UNCHANGED <<made, call, todo, connected, completed>>

CallsNext ==
  \/ \E c \in Clones :
       \/ \E b \in UserCalls : StartCall(c, b)
       \/ SendCommand(c)
       \/ GiveUp(c)
  \/ ConnectionLost
  \/ HandleCommand

CallsSpec == CallsInit /\ [][CallsNext]_callsVars

----------------------------------------------------------------------------
(* Safety *)

\* Every variable has its type.
CallsTypeOK ==
  /\ made \in 0 .. MaxCalls
  /\ call \in [Clones -> UserCalls \cup {NoCall}]
  /\ todo \in [Clones -> Seq(Commands)]
  /\ connected \in BOOLEAN
  /\ wire \in Seq((1 .. Len(Opcodes)) \X U32)
  /\ tuner \in [mode : Modes, gain : Range(TunerGains) \cup {NoGain}]
  /\ completed \in Seq(UserCalls)
  /\ applied \in Seq(Calls)
  /\ failed \subseteq {n \in 1 .. Len(applied) : IsGain(applied[n])}

\* An RtlTcpClient can be used in the place of the RtlSdr behind the server: the
\* calls made there, successful or not, are those made on the client, with the same
\* arguments, in the order in which they were completed.  A call is done wholly or
\* not at all, also when it was given up between its two commands, or those of
\* another clone came between them.  The exception is the choice of a sampling
\* mode, which the server ignores.
AppliedAsCalled ==
  /\ IsPrefix(applied, completed)
  /\ connected /\ wire = <<>> => applied = completed

\* Whether x is what the tuner should be set to for a manual gain: for an index, the
\* gain that has it; for a value, a supported gain, and one at the least distance if
\* the differences fit into an i32 and can be made positive.  (If they do not, the
\* code may choose any of the supported gains.)
AbsDiff(x, y) == IF x < y THEN y - x ELSE x - y
Fits(value) ==
  \A i \in 1 .. Len(TunerGains) : TunerGains[i] - value \in I32 \ {-(Word \div 2)}
Chosen(gain, x) ==
  /\ x \in Range(TunerGains)
  /\ gain.kind = "ManualIndex" => x = TunerGains[gain.value + 1]
  /\ gain.kind = "ManualValue" /\ Fits(gain.value) =>
       \A i \in 1 .. Len(TunerGains) :
         AbsDiff(x, gain.value) <= AbsDiff(TunerGains[i], gain.value)

\* Call n set the gain, and no later one has succeeded in that.
LastSuccess(n) ==
  /\ IsGain(applied[n]) /\ n \notin failed
  /\ \A i \in n + 1 .. Len(applied) : IsGain(applied[i]) => i \in failed

ManualFailedAfter(n) ==
  \E i \in failed : i > n /\ applied[i].of.kind # "Auto"

\* The gain asked for by the last call that succeeded is that of the device, in the
\* right mode, whatever calls have failed since: by its index, or the nearest to its
\* value.  At worst a later manual gain has failed half way.  Then the mode is manual
\* and the device reports no gain at all; it never has the gain of a failed call.
GainIsNearest ==
  \A n \in 1 .. Len(applied) :
    LET gain == applied[n].of
    IN  LastSuccess(n) =>
          \/ gain.kind = "Auto" /\ tuner.mode = "Auto"
          \/ gain.kind # "Auto" /\ tuner.mode = "Manual" /\ Chosen(gain, tuner.gain)
          \/ ManualFailedAfter(n) /\ tuner = [mode |-> "Manual", gain |-> NoGain]

=============================================================================
