----------------------------- MODULE MCPesFilter -----------------------------
(***************************************************************************)
(* Instances of PesFilter for TLC: every packet the type allows, and the   *)
(* packets of a conforming multiplex, of which any may be lost.            *)
(***************************************************************************)
EXTENDS PesFilter

AnyPackets == PacketType

ConformingPackets == {p \in PacketType : p.pusi => p.payload = "header"}
=============================================================================
