-------------------------- MODULE RtlTcpConnection --------------------------
(***************************************************************************)
(* A client of rtl_tcp/client.rs that connects to a server of              *)
(* rtl_tcp/server.rs, up to the moment at which connect() returns.         *)
(***************************************************************************)
EXTENDS RtlTcpServer

CONSTANT HeaderLength   \* HEADER_LENGTH

VARIABLE connect        \* the call of connect()

connectionVars == <<serverVars, connect>>

\* A byte of MAGIC or of the DongleInfo; no byte of a sample is one.
HeaderByte == 0

ConnectionInit == ServerInit /\ connect = "reading"

\* read_dongle_info: read_exact has read the header, which must be one.
ReadDongleInfo ==
  /\ connect = "reading"
  /\ Len(wire) >= HeaderLength
  /\ connect' = IF \A i \in 1 .. HeaderLength : wire[i] = HeaderByte
                THEN "ok" ELSE "invalid_magic"
  /\ UNCHANGED serverVars

\* read_exact fails, because the server has closed the connection before.
ReadExactFails ==
  /\ connect = "reading"
  /\ Len(wire) < HeaderLength
  /\ state \in Ended
  /\ connect' = "io_error"
  /\ UNCHANGED serverVars

\* The client sends no command before connect() has returned.
ConnectionNext ==
  \/ ReadDongleInfo
  \/ ReadExactFails
  \/ ServerNext /\ (connect = "ok" \/ UNCHANGED input) /\ UNCHANGED connect

ConnectionSpec == ConnectionInit /\ [][ConnectionNext]_connectionVars

----------------------------------------------------------------------------
(* What the comments of the code say and the code does not do. *)

\* Comment on MAGIC: this value is sent by the server to identify the protocol.  So
\* a client never finds anything else where it expects the header.
ServerSendsMagic == connect # "invalid_magic"

=============================================================================
