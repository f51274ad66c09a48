----------------------------- MODULE MCPesStream -----------------------------
(***************************************************************************)
(* An instance of PesStream for TLC.                                       *)
(***************************************************************************)
EXTENDS PesStream

ConformingPackets == {p \in PacketType : p.pusi => p.payload = "header"}
=============================================================================
