------------------------------ MODULE PesStream ------------------------------
(***************************************************************************)
(* A PesPacketFilter at the end of a lossy path.  A conforming multiplexer *)
(* cuts PES packets into transport stream packets, the path to the parser  *)
(* loses some of them, adaptation-field-only packets appear in between,    *)
(* and a packet may be sent twice in a row.  An application joins the      *)
(* pieces it is given back together.                                       *)
(*                                                                         *)
(* The packets that carry a payload are numbered 1, 2, ... in the order    *)
(* they are sent; a PES packet is the interval of numbers from one unit    *)
(* start up to, and not including, the next.                               *)
(***************************************************************************)
EXTENDS PesFilter

CONSTANTS
  MaxPackets,  (* bound on the number of packets sent                      *)
  MaxBurst     (* longest run of packets lost in a row                     *)

(* A four-bit counter cannot show that a multiple of CCMod packets is      *)
(* missing: bursts are assumed to be shorter than that.                    *)
ASSUME BoundsAssumption ==
  /\ MaxPackets \in Nat
  /\ MaxBurst \in 0 .. CCMod - 1

VARIABLES
  sent,    (* number of the last packet sent                               *)
  starts,  (* numbers of the packets that start a PES packet               *)
  lost,    (* packets lost since the filter last consumed one              *)
  hurt,    (* numbers of the packets that did not arrive exactly once      *)
  held,    (* the pieces of the PES packet the application is receiving    *)
  whole    (* the PES packets it was told are finished, as sets of pieces  *)

pathVars == <<sent, starts, lost, hurt>>
appVars == <<held, whole>>
streamVars == <<vars, pathVars, appVars>>

TSPacket(k, pusi) ==
  [cc |-> k % CCMod, pusi |-> pusi, hasPayload |-> TRUE,
   payload |-> IF pusi THEN "header" ELSE "data"]

EmptyPacket ==
  [cc |-> sent % CCMod, pusi |-> FALSE, hasPayload |-> FALSE, payload |-> "none"]

(* The application's part in a consume() of packet k.                      *)
Reassemble(k) ==
  /\ whole' = IF calls'[2] = "end_packet" THEN whole \union {held} ELSE whole
  /\ held' = CASE calls'[3] = "begin_packet" -> {k}
               [] calls'[3] = "continue_packet" -> held \union {k}
               [] OTHER -> held

Receive(k, p) == Consume(p) /\ Deliver /\ Reassemble(k)

-----------------------------------------------------------------------------

StreamInit ==
  /\ Init
  /\ sent = 0
  /\ starts = {}
  /\ lost = 0
  /\ hurt = {}
  /\ held = {}
  /\ whole = {}

Emit(pusi) ==
  /\ sent < MaxPackets
  /\ sent' = sent + 1
  /\ starts' = IF pusi THEN starts \union {sent + 1} ELSE starts

Arrive(pusi) ==
  /\ Emit(pusi)
  /\ Receive(sent + 1, TSPacket(sent + 1, pusi))
  /\ lost' = 0
  /\ UNCHANGED hurt

Lose(pusi) ==
  /\ Emit(pusi)
  /\ lost < MaxBurst
  /\ lost' = lost + 1
  /\ hurt' = hurt \union {sent + 1}
  /\ UNCHANGED <<vars, appVars>>

(* The last packet once more: its second copy, or, when the first was lost *)
(* and nothing has arrived since, the only one.                            *)
Repeat ==
  /\ sent > 0
  /\ Receive(sent, TSPacket(sent, sent \in starts))
  /\ lost' = 0
  /\ hurt' = CASE lost > 0 -> hurt \ {sent}
               [] lost = 0 /\ sent \notin starts -> hurt \union {sent}
               [] OTHER -> hurt
  /\ UNCHANGED <<sent, starts>>

(* A packet with no payload carries the counter of the one before it.      *)
ArriveEmpty ==
  /\ Receive(sent, EmptyPacket)
  /\ lost' = 0
  /\ UNCHANGED <<sent, starts, hurt>>

StreamNext ==
  \/ \E pusi \in BOOLEAN : Arrive(pusi) \/ Lose(pusi)
  \/ Repeat
  \/ ArriveEmpty

StreamSpec == StreamInit /\ [][StreamNext]_streamVars

-----------------------------------------------------------------------------

StreamTypeOK ==
  /\ TypeOK
  /\ sent \in 0 .. MaxPackets
  /\ starts \subseteq 1 .. sent
  /\ lost \in 0 .. MaxBurst
  /\ hurt \subseteq 1 .. sent
  /\ held \subseteq 1 .. sent
  /\ whole \subseteq SUBSET (1 .. sent)

(* The first pieces of a PES packet: from its start up to b, none missing. *)
IsPrefix(s, b) == \E a \in starts : s = a .. b /\ starts \intersect s = {a}

IsPesPacket(s) == \E b \in 1 .. sent : IsPrefix(s, b) /\ b + 1 \in starts

(* What the application holds of an open PES packet is a prefix of one     *)
(* that was sent: no piece is missing from it, and pieces of two PES       *)
(* packets are never joined.                                               *)
HeldIsPrefix == consumer.open => \E b \in 1 .. sent : IsPrefix(held, b)

(* No piece is handed over a second time to go on with: a packet that is   *)
(* repeated in the middle of a PES packet is not taken for the next one.   *)
NoPieceTwice ==
  [][calls'[3] = "continue_packet" => sent' \notin held]_streamVars

(* end_packet() is only ever called for a PES packet received completely,  *)
(* its last piece included, however packets were lost or repeated.         *)
EndedAreWhole == \A s \in whole : IsPesPacket(s)

(* Damage is contained: a PES packet whose own packets, and the start of   *)
(* the next one, arrived exactly once is delivered, whatever happened to   *)
(* the stream before it.                                                   *)
UnhurtAreDelivered ==
  \A a, b \in 1 .. sent :
    IsPesPacket(a .. b) /\ a .. (b + 1) \intersect hurt = {} => a .. b \in whole
=============================================================================
