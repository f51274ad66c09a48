------------------------------ MODULE PacketLayout ------------------------------
(***************************************************************************)
(* Where the parts of a transport stream packet are (packet.rs): the bits  *)
(* of adaptation_field_control and the adaptation field's length byte      *)
(* divide its 188 bytes.  None of them is protected by a checksum.  A part *)
(* is the set of the offsets of its bytes.                                 *)
(***************************************************************************)
EXTENDS Integers, FiniteSets

VARIABLE packet  (* the header: has it the sync byte, the control bits,     *)
                 (* the byte that follows it, and was it damaged?           *)

SIZE == 188
PACKET_HEADER_SIZE == 4
ADAPTATION_FIELD_OFFSET == PACKET_HEADER_SIZE + 1

Header(has_af, has_payload, length) ==
  [sync |-> TRUE, has_af |-> has_af, has_payload |-> has_payload,
   length |-> length, damaged |-> FALSE]

(* Result<Option<_>, _>; the "panic" is that of a slice out of bounds, or  *)
(* of AdaptationField::new() of an empty one.                              *)
Part(from, to) ==
  IF from <= to /\ to <= SIZE THEN [status |-> "some", bytes |-> from..(to - 1)]
  ELSE [status |-> "panic", bytes |-> {}]
NoPart == [status |-> "none", bytes |-> {}]
PacketError(why) == [status |-> why, bytes |-> {}]

-------------------------------------------------------------------------------
(* try_new(), before which the demultiplexer looks at nothing.             *)
TryNew(p) == IF p.sync THEN "ok" ELSE "InvalidSyncByte"

MkAf(len) ==
  IF len = 0 THEN PacketError("panic")
  ELSE Part(ADAPTATION_FIELD_OFFSET, ADAPTATION_FIELD_OFFSET + len)

(* adaptation_field()                                                      *)
AdaptationFieldOf(p) ==
  IF ~p.has_af THEN NoPart
  ELSE IF \/ p.has_payload /\ (p.length > 182 \/ p.length = 0)
          \/ ~p.has_payload /\ p.length # SIZE - ADAPTATION_FIELD_OFFSET
  THEN PacketError("InvalidAdaptationFieldLength")
  ELSE MkAf(p.length)

(* Mutant: the length byte itself is not counted.                          *)
LengthByteForgotten(p) ==
  IF p.has_af THEN PACKET_HEADER_SIZE + p.length ELSE PACKET_HEADER_SIZE

ContentOffset(p) ==
  IF p.has_af THEN ADAPTATION_FIELD_OFFSET + p.length ELSE PACKET_HEADER_SIZE

(* payload() and mk_payload()                                              *)
PayloadOf(p) ==
  IF ~p.has_payload \/ ContentOffset(p) = SIZE THEN NoPart
  ELSE IF ContentOffset(p) > SIZE THEN PacketError("PayloadOutOfBounds")
  ELSE Part(ContentOffset(p), SIZE)

-------------------------------------------------------------------------------
(* What ISO/IEC 13818-1 lets a multiplexer write: an adaptation field      *)
(* fills what a payload leaves of the packet.                              *)
WrittenPackets ==
  {Header(FALSE, TRUE, length) : length \in 0..255}
    \cup {Header(TRUE, TRUE, length) : length \in 0..182}
    \cup {Header(TRUE, FALSE, SIZE - ADAPTATION_FIELD_OFFSET)}

PacketInit == packet \in WrittenPackets

DamagePacket ==
  /\ ~packet.damaged
  /\ \/ packet' = [packet EXCEPT !.damaged = TRUE, !.sync = FALSE]
     \/ \E has_af, has_payload \in BOOLEAN :
          packet' = [packet EXCEPT !.damaged = TRUE, !.has_af = has_af,
                                   !.has_payload = has_payload]
     \/ \E length \in 0..255 :
          packet' = [packet EXCEPT !.damaged = TRUE, !.length = length]

PacketSpec == PacketInit /\ [][DamagePacket]_packet

-------------------------------------------------------------------------------
(* A packet is divided without a gap: header, length byte, adaptation      *)
(* field and payload are all of it.  Whatever a damaged header says, the   *)
(* parts do not overlap, a payload is never empty, and no accessor leaves  *)
(* the packet; where the header makes no sense the application is told, or *)
(* gets nothing.  (A length of 0, one byte of stuffing, is reported as an  *)
(* error by adaptation_field(), which leaves nothing unread.)              *)
PacketIsDivided ==
  LET af == AdaptationFieldOf(packet)
      payload == PayloadOf(packet)
  IN /\ "panic" \notin {af.status, payload.status}
     /\ af.bytes \cap payload.bytes = {}
     /\ payload.status = "some" => payload.bytes # {}
     /\ af.status = "some" /\ payload.status = "some" =>
          (ADAPTATION_FIELD_OFFSET..(SIZE - 1)) = af.bytes \cup payload.bytes
     /\ ~packet.damaged =>
          /\ TryNew(packet) = "ok"
          /\ ContentOffset(packet) + Cardinality(payload.bytes) = SIZE
          /\ packet.has_af => af.bytes = ADAPTATION_FIELD_OFFSET..(ContentOffset(packet) - 1)
=================================================================================
