------------------------------ MODULE PesFilter ------------------------------
(***************************************************************************)
(* PesPacketFilter (pes.rs): the packet filter that turns the transport    *)
(* stream packets of one PID into call-backs on an application's           *)
(* ElementaryStreamConsumer.                                               *)
(*                                                                         *)
(* One call of consume() is one step.  consume() has three places where it *)
(* makes at most one call-back each, always in the same order: when a gap  *)
(* is seen, when the packet starts a unit, and for the packet's payload.   *)
(* `calls' holds what the last consume() did at each of the three places.  *)
(* `consumer' is what an application that only remembers the call-backs it *)
(* has received knows about its stream.                                    *)
(***************************************************************************)
EXTENDS Integers

CONSTANTS
  CCMod,     (* number of continuity counter values (16 in the code)       *)
  None,      (* ccounter before the first packet: Option::None             *)
  Packets    (* the packets that the environment may present               *)

VARIABLES
  state,     (* PesState                                                   *)
  ccounter,  (* continuity counter of the last packet consumed, or None    *)
  calls,     (* the last consume(): <<on a gap, on a unit start, payload>> *)
  consumer   (* history of the call-backs, as the application sees it      *)

filterVars == <<state, ccounter, calls>>
vars == <<filterVars, consumer>>

CC == 0 .. CCMod - 1

PesState == {"Begin", "Started", "IgnoreRest"}

(* What Packet::payload() yields: Ok(None), Err, or Ok(Some(bytes)), where *)
(* the bytes of "header" are accepted by PesHeader::from_bytes() and those *)
(* of "data" are not.  Without the payload bit it can only be Ok(None);    *)
(* with it the adaptation field may still fill the packet or overrun it.   *)
PacketType ==
  {p \in [cc         : CC,
          pusi       : BOOLEAN,
          hasPayload : BOOLEAN,
          payload    : {"none", "malformed", "header", "data"}] :
     p.hasPayload \/ p.payload = "none"}

ASSUME CCModAssumption == CCMod \in Nat /\ CCMod > 1
ASSUME NoneAssumption == None \notin CC
ASSUME PacketsAssumption == Packets \subseteq PacketType

-----------------------------------------------------------------------------

(* ContinuityCounter::follows() *)
Follows(cc, other) == cc = (other + 1) % CCMod

(* Mutants: the counter expected to advance on every packet, not compared  *)
(* for packets with a payload, or allowed to stand still on those.         *)
AlwaysAdvances(p) == ccounter = None \/ Follows(p.cc, ccounter)
PayloadUnchecked(p) == ccounter = None \/ p.hasPayload \/ p.cc = ccounter
RepeatAccepted(p) == ccounter = None \/ Follows(p.cc, ccounter) \/ p.cc = ccounter

(* The counter advances only on packets that carry a payload. *)
IsContinuous(p) ==
  \/ ccounter = None
  \/ p.hasPayload /\ Follows(p.cc, ccounter)
  \/ ~p.hasPayload /\ p.cc = ccounter

(* Mutants: a gap that makes the filter start afresh, and one that it      *)
(* reports but goes on after.                                              *)
GapRestarts(p) == IF IsContinuous(p) THEN state ELSE "Begin"
GapIgnored(p) == state

StateAfterGapCheck(p) == IF IsContinuous(p) THEN state ELSE "IgnoreRest"

(* Mutant: a gap before a packet without payload is not reported.          *)
PayloadGapCall(p) ==
  IF IsContinuous(p) \/ ~p.hasPayload THEN "-" ELSE "continuity_error"

GapCall(p) == IF IsContinuous(p) THEN "-" ELSE "continuity_error"

UnitCall(p) ==
  IF ~p.pusi THEN "-"
  ELSE CASE StateAfterGapCheck(p) = "Started" -> "end_packet"
         [] StateAfterGapCheck(p) = "Begin" -> "start_stream"
         [] OTHER -> "-"

StartPayloadCall(p) ==
  CASE p.payload = "header" -> "begin_packet"
    [] p.payload = "data" -> "PesHeaderParseError"
    [] p.payload = "malformed" -> "MalformedPayload"
    [] p.payload = "none" -> "-"

ContinuePayloadCall(p) ==
  CASE StateAfterGapCheck(p) = "Begin" -> "MissingPayloadStartIndicator"
    [] StateAfterGapCheck(p) = "IgnoreRest" -> "-"
    [] OTHER -> CASE p.payload = "malformed" -> "MalformedPayload"
                  [] p.payload = "none" -> "-"
                  [] OTHER -> "continue_packet"

PayloadCall(p) == IF p.pusi THEN StartPayloadCall(p) ELSE ContinuePayloadCall(p)

(* Mutant: remembering the counter expected next, which does not wrap.     *)
ConsumeExpecting(p) ==
  /\ calls' = <<GapCall(p), UnitCall(p), PayloadCall(p)>>
  /\ ccounter' = p.cc + 1
  /\ state' = IF p.pusi THEN "Started" ELSE StateAfterGapCheck(p)

(* Everything consume() does with packet p. *)
Consume(p) ==
  /\ calls' = <<GapCall(p), UnitCall(p), PayloadCall(p)>>
  /\ ccounter' = p.cc
  /\ state' = IF p.pusi THEN "Started" ELSE StateAfterGapCheck(p)

-----------------------------------------------------------------------------

(* The application's side: whether start_stream() was called, whether      *)
(* begin_packet() was ever called, and whether a PES packet is being       *)
(* received: begun, and neither ended nor cut off by a gap.                *)
Consumer == [started : BOOLEAN, begun : BOOLEAN, open : BOOLEAN]

React(c, call) ==
  CASE call = "start_stream" -> [c EXCEPT !.started = TRUE]
    [] call = "begin_packet" -> [c EXCEPT !.begun = TRUE, !.open = TRUE]
    [] call = "end_packet" -> [c EXCEPT !.open = FALSE]
    [] call = "continuity_error" -> [c EXCEPT !.open = FALSE]
    [] OTHER -> c

(* The application when the i-th call-back of the step is made, i \in 1..3. *)
Before(i) ==
  CASE i = 1 -> consumer
    [] i = 2 -> React(consumer, calls'[1])
    [] i = 3 -> React(React(consumer, calls'[1]), calls'[2])

Deliver == consumer' = React(Before(3), calls'[3])

Init ==
  /\ state = "Begin"
  /\ ccounter = None
  /\ calls = <<"-", "-", "-">>
  /\ consumer = [started |-> FALSE, begun |-> FALSE, open |-> FALSE]

UnitStart == \E p \in Packets : p.pusi /\ Consume(p) /\ Deliver
UnitContinue == \E p \in Packets : ~p.pusi /\ Consume(p) /\ Deliver

Next == UnitStart \/ UnitContinue

Spec == Init /\ [][Next]_vars

-----------------------------------------------------------------------------

Calls == {"-", "continuity_error", "start_stream", "begin_packet",
          "continue_packet", "end_packet", "PesHeaderParseError",
          "MalformedPayload", "MissingPayloadStartIndicator"}

(* The variables have the types of the fields they model. *)
TypeOK ==
  /\ state \in PesState
  /\ ccounter \in CC \union {None}
  /\ calls \in Calls \X Calls \X Calls
  /\ consumer \in Consumer

(* For packets of any content: whatever sequence of gaps, missing payloads *)
(* and unparseable headers the filter has been through, the application is *)
(* told of the start of the stream at most once and not once data has been *)
(* delivered, and a PES packet begins only when the last one is finished,  *)
(* by end_packet() or by the report of the gap that cut it off.            *)
StartsInOrder ==
  [][\A i \in 1 .. 3 :
       /\ calls'[i] = "start_stream" =>
            ~Before(i).started /\ ~Before(i).begun
       /\ calls'[i] = "begin_packet" => ~Before(i).open]_vars

(* An application is never left with an open PES packet by a filter that   *)
(* has given up on it: while the filter drops data (IgnoreRest) the        *)
(* application has been told.                                              *)
OpenIsTracked == consumer.open => state = "Started"

(* Every unit start is a PES header: what a conforming multiplex sends.    *)
Conforming(P) == \A p \in P : p.pusi => p.payload = "header"

(* For conforming packets, however many are lost: data and the end of a    *)
(* packet are reported only to an application that has that packet open.   *)
(* In particular nothing is reported between a gap and the next header.    *)
DataWithinPacket ==
  [][\A i \in 1 .. 3 :
       calls'[i] \in {"continue_packet", "end_packet"} => Before(i).open]_vars

-----------------------------------------------------------------------------
(* What the comments of ElementaryStreamConsumer say (pes.rs).             *)

(* "start_stream: called before the first call to begin_packet()".         *)
StartStreamBeforeBegin ==
  [][\A i \in 1 .. 3 : calls'[i] = "begin_packet" => Before(i).started]_vars
=============================================================================
