--------------------------- MODULE PesStreamProofs ----------------------------
(***************************************************************************)
(* Proofs about PesFilter, for every modulus of the continuity counter and *)
(* every set of packets, and about PesStream: no sequence of losses and    *)
(* repetitions, however long, makes the application join pieces that do    *)
(* not belong together, as long as no burst reaches CCMod packets.         *)
(***************************************************************************)
EXTENDS PesStream, TLAPS

-------------------------------------------------------------------------------
(* PesFilter.                                                              *)

(* A call-back keeps the type of the application's record, and changes     *)
(* only the fields it is about.                                            *)
LEMMA ReactType == \A c \in Consumer : \A call : React(c, call) \in Consumer
BY DEF React, Consumer

LEMMA ReactFacts ==
  \A c \in Consumer : \A call :
    /\ React(c, call).started <=> c.started \/ call = "start_stream"
    /\ React(c, call).begun <=> c.begun \/ call = "begin_packet"
    /\ React(c, call).open <=>
         \/ call = "begin_packet"
         \/ c.open /\ call \notin {"end_packet", "continuity_error"}
BY DEF React, Consumer

(* The application before the second and the third call-back of a step is  *)
(* the one that has seen the earlier ones.                                 *)
LEMMA BeforeFacts ==
  /\ Before(1) = consumer
  /\ Before(2) = React(Before(1), calls'[1])
  /\ Before(3) = React(Before(2), calls'[2])
BY DEF Before

-----------------------------------------------------------------------------

(* A consume() keeps the types.                                            *)
LEMMA ConsumeType ==
  ASSUME TypeOK, NEW p \in PacketType, Consume(p), Deliver PROVE TypeOK'
<1>1. state' \in PesState /\ ccounter' \in CC \union {None}
  BY DEF Consume, StateAfterGapCheck, TypeOK, PesState, PacketType
<1>2. calls' \in Calls \X Calls \X Calls
  <2>1. GapCall(p) \in Calls /\ UnitCall(p) \in Calls
    BY DEF GapCall, UnitCall, Calls
  <2>2. PayloadCall(p) \in Calls
    BY DEF PayloadCall, StartPayloadCall, ContinuePayloadCall, PacketType, Calls
  <2> QED BY <2>1, <2>2 DEF Consume
<1>3. consumer' \in Consumer
  BY BeforeFacts, ReactType DEF Deliver, TypeOK
<1> QED BY <1>1, <1>2, <1>3 DEF TypeOK

LEMMA InitType == Init => TypeOK
BY DEF Init, TypeOK, PesState, Calls, Consumer

(* The filter's state is of its type in every reachable state.             *)
THEOREM TypeCorrect == Spec => []TypeOK
<1>1. TypeOK /\ [Next]_vars => TypeOK'
  <2> SUFFICES ASSUME TypeOK, [Next]_vars PROVE TypeOK'
    OBVIOUS
  <2>1. CASE UNCHANGED vars
    BY <2>1 DEF vars, filterVars, TypeOK
  <2> QED BY <2>1, PacketsAssumption, ConsumeType DEF Next, UnitStart, UnitContinue
<1> QED BY InitType, <1>1, PTL DEF Spec

-----------------------------------------------------------------------------

(* What ties the filter's state to what the application knows.             *)
Tracking ==
  /\ OpenIsTracked
  /\ consumer.started \/ consumer.begun => state # "Begin"

IInv == TypeOK /\ Tracking

(* After the gap check of a consume(), the filter's state tells as much    *)
(* about the application as it did before it.                              *)
LEMMA GapCheck ==
  ASSUME IInv, NEW p \in PacketType, Consume(p)
  PROVE  /\ StateAfterGapCheck(p) \in PesState
         /\ Before(2) \in Consumer
         /\ Before(2).open => StateAfterGapCheck(p) = "Started"
         /\ Before(2).started \/ Before(2).begun =>
              StateAfterGapCheck(p) # "Begin"
         /\ calls'[1] \in {"-", "continuity_error"}
<1>1. consumer \in Consumer /\ state \in PesState
  BY DEF IInv, TypeOK
<1>2. CASE IsContinuous(p)
  <2>1. calls'[1] = "-" /\ StateAfterGapCheck(p) = state
    BY <1>2 DEF Consume, GapCall, StateAfterGapCheck
  <2>2. Before(2) = consumer
    BY <2>1, BeforeFacts DEF React
  <2> QED BY <1>1, <2>1, <2>2 DEF IInv, Tracking, OpenIsTracked
<1>3. CASE ~IsContinuous(p)
  <2>1. calls'[1] = "continuity_error" /\ StateAfterGapCheck(p) = "IgnoreRest"
    BY <1>3 DEF Consume, GapCall, StateAfterGapCheck
  <2>2. Before(2) \in Consumer /\ ~Before(2).open
    BY <1>1, <2>1, BeforeFacts, ReactType, ReactFacts
  <2> QED BY <2>1, <2>2 DEF PesState
<1> QED BY <1>2, <1>3

(* The same after the call-back for the start of a unit, by which time no  *)
(* PES packet is open.                                                     *)
LEMMA UnitCheck ==
  ASSUME IInv, NEW p \in PacketType, Consume(p)
  PROVE  /\ Before(3) \in Consumer
         /\ p.pusi => ~Before(3).open
         /\ ~p.pusi => Before(3) = Before(2)
         /\ calls'[2] \in {"-", "end_packet", "start_stream"}
         /\ calls'[2] = "start_stream" => StateAfterGapCheck(p) = "Begin"
         /\ calls'[2] = "end_packet" => StateAfterGapCheck(p) = "Started"
<1>1. calls'[2] = UnitCall(p)
  BY DEF Consume
<1>2. CASE p.pusi
  <2>1. /\ calls'[2] \in {"-", "end_packet", "start_stream"}
        /\ calls'[2] = "start_stream" <=> StateAfterGapCheck(p) = "Begin"
        /\ calls'[2] = "end_packet" <=> StateAfterGapCheck(p) = "Started"
    BY <1>1, <1>2 DEF UnitCall
  <2>2. Before(3) \in Consumer /\ ~Before(3).open
    BY <2>1, GapCheck, BeforeFacts, ReactType, ReactFacts
  <2> QED BY <1>2, <2>1, <2>2
<1>3. CASE ~p.pusi
  <2>1. calls'[2] = "-"
    BY <1>1, <1>3 DEF UnitCall
  <2>2. Before(3) = Before(2)
    BY <2>1, BeforeFacts DEF React
  <2> QED BY <1>3, <2>1, <2>2, GapCheck
<1>4. p.pusi \in BOOLEAN
  BY DEF PacketType
<1> QED BY <1>2, <1>3, <1>4

(* The payload's call-back is made for the filter's new state.             *)
LEMMA PayloadCheck ==
  ASSUME IInv, NEW p \in PacketType, Consume(p)
  PROVE  /\ calls'[3] \notin {"start_stream", "continuity_error", "end_packet"}
         /\ calls'[3] = "begin_packet" => p.pusi
         /\ calls'[3] = "continue_packet" =>
              ~p.pusi /\ StateAfterGapCheck(p) = "Started"
         /\ p.payload = "header" /\ p.pusi => calls'[3] = "begin_packet"
<1>1. calls'[3] = PayloadCall(p)
  BY DEF Consume
<1>2. CASE p.pusi
  BY <1>1, <1>2 DEF PayloadCall, StartPayloadCall, PacketType
<1>3. CASE ~p.pusi
  BY <1>1, <1>3, GapCheck DEF PayloadCall, ContinuePayloadCall, PacketType, PesState
<1> QED BY <1>2, <1>3

LEMMA InitIInv == Init => IInv
BY DEF Init, IInv, Tracking, OpenIsTracked, TypeOK, PesState, Calls, Consumer

LEMMA ConsumeIInv ==
  ASSUME IInv, NEW p \in PacketType, Consume(p), Deliver PROVE IInv'
<1>1. consumer' = React(Before(3), calls'[3]) /\ Before(3) \in Consumer
  BY UnitCheck DEF Deliver
<1>2. CASE p.pusi
  <2>1. state' = "Started"
    BY <1>2 DEF Consume
  <2> QED BY <2>1, ConsumeType DEF IInv, Tracking, OpenIsTracked
<1>3. CASE ~p.pusi
  <2>1. state' = StateAfterGapCheck(p) /\ Before(3) = Before(2)
    BY <1>3, UnitCheck DEF Consume
  <2>2. /\ consumer'.open <=> Before(3).open
        /\ consumer'.started <=> Before(3).started
        /\ consumer'.begun <=> Before(3).begun
    <3>1. calls'[3] \notin {"start_stream", "continuity_error", "end_packet", "begin_packet"}
      BY <1>3, PayloadCheck
    <3> QED BY <1>1, <3>1, ReactFacts
  <2> QED BY <2>1, <2>2, GapCheck, ConsumeType DEF IInv, Tracking, OpenIsTracked
<1> QED BY <1>2, <1>3

LEMMA IInvInvariant == Spec => []IInv
<1>1. IInv /\ [Next]_vars => IInv'
  <2> SUFFICES ASSUME IInv, [Next]_vars PROVE IInv'
    OBVIOUS
  <2>1. CASE UNCHANGED vars
    BY <2>1 DEF vars, filterVars, IInv, TypeOK, Tracking, OpenIsTracked
  <2> QED BY <2>1, PacketsAssumption, ConsumeIInv DEF Next, UnitStart, UnitContinue
<1> QED BY InitIInv, <1>1, PTL DEF Spec

(* No application is left with an open PES packet by a filter that has     *)
(* stopped delivering it.                                                  *)
THEOREM OpenTracked == Spec => []OpenIsTracked
<1>1. IInv => OpenIsTracked
  BY DEF IInv, Tracking
<1> QED BY IInvInvariant, <1>1, PTL

(* start_stream() comes at most once and before any data, and no PES       *)
(* packet begins before the previous one is over, whatever the packets.    *)
THEOREM StartsOrdered == Spec => StartsInOrder
<1>1. ASSUME IInv, [Next]_vars
      PROVE  [\A i \in 1 .. 3 :
                /\ calls'[i] = "start_stream" =>
                     ~Before(i).started /\ ~Before(i).begun
                /\ calls'[i] = "begin_packet" => ~Before(i).open]_vars
  <2>1. ASSUME NEW p \in Packets, Consume(p), Deliver, NEW i \in 1 .. 3
        PROVE  /\ calls'[i] = "start_stream" =>
                    ~Before(i).started /\ ~Before(i).begun
               /\ calls'[i] = "begin_packet" => ~Before(i).open
    <3> p \in PacketType
      BY PacketsAssumption
    <3>1. CASE i = 1
      BY <1>1, <2>1, <3>1, GapCheck
    <3>2. CASE i = 2
      BY <1>1, <2>1, <3>2, GapCheck, UnitCheck
    <3>3. CASE i = 3
      BY <1>1, <2>1, <3>3, PayloadCheck, UnitCheck
    <3> QED BY <3>1, <3>2, <3>3
  <2>2. CASE UNCHANGED vars
    BY <2>2
  <2> QED BY <1>1, <2>1, <2>2 DEF Next, UnitStart, UnitContinue
<1> QED BY <1>1, IInvInvariant, PTL DEF Spec, StartsInOrder

-----------------------------------------------------------------------------

(* With conforming packets the filter's Started and the application's open *)
(* packet are the same thing, which is what the last property needs.       *)
StartedIsOpen == state = "Started" => consumer.open

LEMMA ConsumeConforming ==
  ASSUME IInv, StartedIsOpen, NEW p \in PacketType,
         p.pusi => p.payload = "header", Consume(p), Deliver
  PROVE  StartedIsOpen'
<1>1. consumer' = React(Before(3), calls'[3]) /\ Before(3) \in Consumer
  BY UnitCheck DEF Deliver
<1>2. CASE p.pusi
  <2>1. calls'[3] = "begin_packet"
    BY <1>2, PayloadCheck
  <2> QED BY <1>1, <2>1, ReactFacts DEF StartedIsOpen
<1>3. ASSUME ~p.pusi, state' = "Started" PROVE consumer'.open
  <2>1. StateAfterGapCheck(p) = "Started"
    BY <1>3 DEF Consume
  <2>2. IsContinuous(p) /\ state = "Started"
    BY <2>1 DEF StateAfterGapCheck
  <2>3. consumer.open /\ Before(2) = consumer
    BY <2>2, BeforeFacts DEF StartedIsOpen, Consume, GapCall, React
  <2>4. Before(3).open
    BY <1>3, <2>3, UnitCheck
  <2>5. calls'[3] \notin {"continuity_error", "end_packet"}
    BY PayloadCheck
  <2> QED BY <1>1, <2>4, <2>5, ReactFacts
<1> QED BY <1>2, <1>3 DEF StartedIsOpen

LEMMA StartedIsOpenInvariant ==
  ASSUME Conforming(Packets) PROVE Spec => []StartedIsOpen
<1>1. Init => StartedIsOpen
  BY DEF Init, StartedIsOpen
<1>2. IInv /\ StartedIsOpen /\ [Next]_vars => StartedIsOpen'
  <2> SUFFICES ASSUME IInv, StartedIsOpen, [Next]_vars PROVE StartedIsOpen'
    OBVIOUS
  <2>1. CASE UNCHANGED vars
    BY <2>1 DEF vars, filterVars, StartedIsOpen
  <2> QED BY <2>1, PacketsAssumption, ConsumeConforming
          DEF Next, UnitStart, UnitContinue, Conforming
<1> QED BY <1>1, <1>2, IInvInvariant, PTL DEF Spec

(* For a conforming multiplex, whatever is lost of it, data and ends are   *)
(* reported only within an open PES packet.                                *)
THEOREM DataOnlyWithinPacket ==
  ASSUME Conforming(Packets) PROVE Spec => DataWithinPacket
<1>1. ASSUME IInv, StartedIsOpen, [Next]_vars
      PROVE  [\A i \in 1 .. 3 :
                calls'[i] \in {"continue_packet", "end_packet"} =>
                  Before(i).open]_vars
  <2>1. ASSUME NEW p \in Packets, Consume(p), Deliver, NEW i \in 1 .. 3,
               calls'[i] \in {"continue_packet", "end_packet"}
        PROVE  Before(i).open
    <3> p \in PacketType
      BY PacketsAssumption
    <3>1. i \in {2, 3}
      BY <1>1, <2>1, GapCheck
    <3>2. StateAfterGapCheck(p) = "Started"
      BY <1>1, <2>1, <3>1, UnitCheck, PayloadCheck
    <3>3. IsContinuous(p) /\ state = "Started"
      BY <3>2 DEF StateAfterGapCheck
    <3>4. Before(2) = consumer /\ consumer.open
      BY <1>1, <2>1, <3>3, BeforeFacts DEF StartedIsOpen, Consume, GapCall, React
    <3>5. CASE i = 2
      BY <3>4, <3>5
    <3>6. CASE i = 3
      <4>1. ~p.pusi
        BY <1>1, <2>1, <3>6, PayloadCheck
      <4> QED BY <1>1, <2>1, <3>4, <3>6, <4>1, UnitCheck
    <3> QED BY <3>1, <3>5, <3>6
  <2>2. CASE UNCHANGED vars
    BY <2>2
  <2> QED BY <1>1, <2>1, <2>2 DEF Next, UnitStart, UnitContinue
<1> QED BY <1>1, IInvInvariant, StartedIsOpenInvariant, PTL DEF Spec, DataWithinPacket

-------------------------------------------------------------------------------
(* PesStream.                                                              *)

(* Arithmetic modulo CCMod.                                                *)

LEMMA ModRange == \A a \in Int : a % CCMod \in CC
BY CCModAssumption DEF CC

LEMMA ModSplit ==
  ASSUME NEW a \in Int PROVE \E q \in Int : a = q * CCMod + (a % CCMod)
<1>1. a \div CCMod \in Int /\ a = (a \div CCMod) * CCMod + (a % CCMod)
  BY CCModAssumption, SMTT(60)
<1> QED BY <1>1

LEMMA ModRemainder ==
  ASSUME NEW q \in Int, NEW r \in CC PROVE (q * CCMod + r) % CCMod = r
BY CCModAssumption, SMTT(60) DEF CC

LEMMA MulMonotone ==
  ASSUME NEW x \in Int, NEW y \in Int, x < y
  PROVE  y * CCMod >= x * CCMod + CCMod /\ x * CCMod \in Int /\ y * CCMod \in Int
BY CCModAssumption

(* Numbers with the same counter value, less than CCMod apart, are equal.  *)
LEMMA ModInjective ==
  ASSUME NEW a \in Int, NEW b \in Int, a <= b, b - a < CCMod,
         a % CCMod = b % CCMod
  PROVE  a = b
<1>1. PICK p \in Int : a = p * CCMod + (a % CCMod)
  BY ModSplit
<1>2. PICK q \in Int : b = q * CCMod + (b % CCMod)
  BY ModSplit
<1>3. a % CCMod \in Int
  BY CCModAssumption
<1>4. CASE p < q
  BY <1>1, <1>2, <1>3, <1>4, MulMonotone, CCModAssumption
<1>5. CASE q < p
  BY <1>1, <1>2, <1>3, <1>5, MulMonotone, CCModAssumption
<1>6. CASE p = q
  BY <1>1, <1>2, <1>6
<1> QED BY <1>4, <1>5, <1>6

(* Incrementing the counter is incrementing the number it counts.          *)
LEMMA ModIncrement ==
  ASSUME NEW a \in Int PROVE ((a % CCMod) + 1) % CCMod = (a + 1) % CCMod
<1>1. PICK q \in Int : a = q * CCMod + (a % CCMod)
  BY ModSplit
<1>2. a % CCMod \in CC /\ a % CCMod \in Int
  BY ModRange, CCModAssumption
<1>3. CASE (a % CCMod) + 1 < CCMod
  <2>1. (a % CCMod) + 1 \in CC
    BY <1>2, <1>3, CCModAssumption DEF CC
  <2>2. a + 1 = q * CCMod + ((a % CCMod) + 1)
    BY <1>1, <1>2, CCModAssumption
  <2>3. (a + 1) % CCMod = (a % CCMod) + 1
    BY <2>1, <2>2, ModRemainder
  <2>4. ((a % CCMod) + 1) % CCMod = (a % CCMod) + 1
    BY <2>1, CCModAssumption DEF CC
  <2> QED BY <2>3, <2>4
<1>4. CASE (a % CCMod) + 1 = CCMod
  <2>1. a + 1 = (q + 1) * CCMod + 0 /\ 0 \in CC
    BY <1>1, <1>2, <1>4, CCModAssumption DEF CC
  <2>2. (a + 1) % CCMod = 0
    BY <2>1, ModRemainder
  <2>3. CCMod % CCMod = 0
    BY CCModAssumption
  <2> QED BY <1>4, <2>2, <2>3
<1> QED BY <1>2, <1>3, <1>4, CCModAssumption DEF CC

-----------------------------------------------------------------------------

(* What ties the filter's counter to the path, and the application's       *)
(* pieces to what the filter consumed last, which is packet sent - lost.   *)
LastConsumed == sent - lost

CounterTracks ==
  /\ lost <= sent
  /\ ccounter # None => ccounter = LastConsumed % CCMod
  /\ ccounter = None => state # "Started"

HeldRun ==
  consumer.open =>
    \E a \in starts : held = a .. LastConsumed /\ starts \intersect held = {a}

StreamInv ==
  /\ StreamTypeOK
  /\ IInv
  /\ StartedIsOpen
  /\ CounterTracks
  /\ HeldRun
  /\ EndedAreWhole

LEMMA StreamInitInv == StreamInit => StreamInv
<1> SUFFICES ASSUME StreamInit PROVE StreamInv
  OBVIOUS
<1>1. IInv /\ StartedIsOpen /\ ~consumer.open /\ state = "Begin"
  BY InitIInv DEF StreamInit, Init, StartedIsOpen
<1>2. StreamTypeOK
  BY <1>1, BoundsAssumption DEF StreamInit, StreamTypeOK, IInv
<1>3. CounterTracks /\ HeldRun /\ EndedAreWhole
  BY <1>1 DEF StreamInit, Init, CounterTracks, HeldRun, EndedAreWhole
<1> QED BY <1>1, <1>2, <1>3 DEF StreamInv

(* The packets of the path are well typed and conforming.                  *)
LEMMA PathPackets ==
  ASSUME NEW k \in Int, NEW pusi \in BOOLEAN
  PROVE  /\ TSPacket(k, pusi) \in PacketType
         /\ TSPacket(k, pusi).pusi = pusi
         /\ TSPacket(k, pusi).hasPayload
         /\ TSPacket(k, pusi).cc = k % CCMod
         /\ TSPacket(k, pusi).payload = IF pusi THEN "header" ELSE "data"
BY ModRange DEF TSPacket, PacketType

(* What a consume() of a conforming packet reports, and when.              *)
LEMMA Effects ==
  ASSUME IInv, StartedIsOpen, NEW p \in PacketType,
         p.pusi => p.payload = "header", Consume(p), Deliver
  PROVE  /\ calls'[2] = "end_packet" => p.pusi /\ IsContinuous(p) /\ state = "Started"
         /\ calls'[3] = "begin_packet" <=> p.pusi
         /\ calls'[3] = "continue_packet" => ~p.pusi /\ IsContinuous(p) /\ state = "Started"
         /\ ~p.pusi /\ consumer'.open =>
              /\ IsContinuous(p) /\ state = "Started"
              /\ p.payload = "data" => calls'[3] = "continue_packet"
              /\ p.payload = "none" => calls'[3] = "-"
<1>1. StateAfterGapCheck(p) = "Started" => IsContinuous(p) /\ state = "Started"
  BY DEF StateAfterGapCheck
<1>2. calls'[2] = "end_packet" => p.pusi /\ IsContinuous(p) /\ state = "Started"
  BY <1>1, UnitCheck DEF Consume, UnitCall
<1>3. /\ calls'[3] = "begin_packet" <=> p.pusi
      /\ calls'[3] = "continue_packet" => ~p.pusi /\ IsContinuous(p) /\ state = "Started"
  BY <1>1, PayloadCheck
<1>4. ASSUME ~p.pusi, consumer'.open
      PROVE  /\ IsContinuous(p) /\ state = "Started"
             /\ p.payload = "data" => calls'[3] = "continue_packet"
             /\ p.payload = "none" => calls'[3] = "-"
  <2>1. state' = "Started"
    BY <1>4, ConsumeIInv DEF IInv, Tracking, OpenIsTracked
  <2>2. StateAfterGapCheck(p) = "Started"
    BY <1>4, <2>1 DEF Consume
  <2>3. calls'[3] = ContinuePayloadCall(p)
    BY <1>4 DEF Consume, PayloadCall
  <2> QED BY <1>1, <2>2, <2>3 DEF ContinuePayloadCall
<1> QED BY <1>2, <1>3, <1>4

-----------------------------------------------------------------------------

(* A payload packet that looks continuous is the next one: no burst is     *)
(* long enough to bring the counter round.                                 *)
LEMMA ContinuousIsNext ==
  ASSUME StreamInv, NEW k \in {sent, sent + 1}, NEW pusi \in BOOLEAN,
         IsContinuous(TSPacket(k, pusi)), state = "Started"
  PROVE  k = LastConsumed + 1
<1>1. sent \in Nat /\ lost \in Nat /\ lost <= sent /\ lost < CCMod
  BY BoundsAssumption, CCModAssumption DEF StreamInv, StreamTypeOK, CounterTracks
<1>2. ccounter = LastConsumed % CCMod /\ ccounter # None
  BY DEF StreamInv, CounterTracks
<1>3. k \in Int /\ LastConsumed \in Int /\ LastConsumed + 1 \in Int
  BY <1>1 DEF LastConsumed
<1>4. k % CCMod = (LastConsumed + 1) % CCMod
  BY <1>2, <1>3, PathPackets, ModIncrement DEF IsContinuous, Follows
<1>5. CASE LastConsumed + 1 <= k
  <2>1. k - (LastConsumed + 1) < CCMod
    BY <1>1, CCModAssumption DEF LastConsumed
  <2> QED BY <1>3, <1>4, <1>5, <2>1, ModInjective
<1>6. CASE k <= LastConsumed + 1
  <2>1. (LastConsumed + 1) - k < CCMod
    BY <1>1, CCModAssumption DEF LastConsumed
  <2> QED BY <1>3, <1>4, <1>6, <2>1, ModInjective
<1> QED BY <1>3, <1>5, <1>6

(* Sending packets does not change which sets are PES packets.             *)
LEMMA PesPacketStays ==
  ASSUME StreamTypeOK, sent' \in {sent, sent + 1},
         starts \subseteq starts', starts' \subseteq starts \union {sent + 1},
         sent' = sent => starts' = starts,
         NEW s, IsPesPacket(s)
  PROVE  IsPesPacket(s)'
<1>1. PICK b \in 1 .. sent, a \in starts :
        s = a .. b /\ starts \intersect s = {a} /\ b + 1 \in starts
  BY DEF IsPesPacket, IsPrefix
<1>2. sent \in Nat /\ a \in Int /\ b \in Int
  BY <1>1, BoundsAssumption DEF StreamTypeOK
<1>3. starts' \intersect s = {a}
  BY <1>1, <1>2
<1>4. b \in 1 .. sent' /\ b + 1 \in starts' /\ a \in starts'
  BY <1>1, <1>2
<1> QED BY <1>1, <1>3, <1>4 DEF IsPesPacket, IsPrefix

(* The arrival of a payload packet, sent for the first time or again.      *)
LEMMA ReceivePayload ==
  ASSUME StreamInv, NEW k \in {sent, sent + 1}, NEW pusi \in BOOLEAN,
         Receive(k, TSPacket(k, pusi)),
         k >= 1, k <= MaxPackets, sent' = k, lost' = 0,
         starts' = IF pusi THEN starts \union {k} ELSE starts,
         k = sent => (pusi <=> k \in starts)
  PROVE  /\ (IInv /\ StartedIsOpen /\ CounterTracks /\ HeldRun /\ EndedAreWhole)'
         /\ held' \subseteq 1 .. sent' /\ whole' \subseteq SUBSET (1 .. sent')
<1> DEFINE p == TSPacket(k, pusi)
<1>1. /\ p \in PacketType /\ p.pusi = pusi /\ p.hasPayload /\ p.cc = k % CCMod
      /\ p.payload = IF pusi THEN "header" ELSE "data"
      /\ sent \in Nat /\ lost \in Nat /\ lost <= sent /\ k \in Nat
      /\ starts \subseteq 1 .. sent
  BY PathPackets, BoundsAssumption DEF StreamInv, StreamTypeOK, CounterTracks
<1>2. Consume(p) /\ Deliver /\ Reassemble(k)
  BY DEF Receive
<1> HIDE DEF p
<1>0. k \in starts => pusi
  BY <1>1
<1>3. (IInv /\ StartedIsOpen)'
  BY <1>1, <1>2, ConsumeIInv, ConsumeConforming DEF StreamInv
<1>4. (k = LastConsumed + 1) \/ ~(IsContinuous(p) /\ state = "Started")
  BY ContinuousIsNext DEF p
<1>5. /\ calls'[2] = "end_packet" => pusi /\ k = LastConsumed + 1 /\ consumer.open
      /\ calls'[3] = "begin_packet" <=> pusi
      /\ calls'[3] = "continue_packet" => ~pusi /\ k = LastConsumed + 1 /\ consumer.open
      /\ ~pusi /\ consumer'.open => calls'[3] = "continue_packet"
  BY <1>1, <1>2, <1>4, Effects DEF StreamInv, StartedIsOpen
<1>6. CounterTracks'
  <2>1. ccounter' = k % CCMod /\ ccounter' # None
    BY <1>1, <1>2, ModRange, NoneAssumption DEF Consume
  <2>2. LastConsumed' = k
    BY <1>1 DEF LastConsumed
  <2> QED BY <1>1, <2>1, <2>2 DEF CounterTracks
<1>7. consumer.open /\ k = LastConsumed + 1 =>
        \E a \in starts : /\ held = a .. (k - 1) /\ starts \intersect held = {a}
                          /\ a >= 1 /\ a <= k - 1
  <2> SUFFICES ASSUME consumer.open, k = LastConsumed + 1
               PROVE  \E a \in starts : /\ held = a .. (k - 1) /\ starts \intersect held = {a}
                                        /\ a >= 1 /\ a <= k - 1
    OBVIOUS
  <2>1. PICK a \in starts : held = a .. LastConsumed /\ starts \intersect held = {a}
    BY DEF StreamInv, HeldRun
  <2>2. LastConsumed = k - 1 /\ LastConsumed \in Int /\ a \in 1 .. sent
    BY <1>1, <2>1 DEF LastConsumed
  <2>3. a \in held
    BY <2>1
  <2> QED BY <2>1, <2>2, <2>3
<1>8. HeldRun' /\ held' \subseteq 1 .. sent'
  <2>1. LastConsumed' = k
    BY <1>1 DEF LastConsumed
  <2>2. CASE pusi
    <3>1. held' = {k} /\ k \in starts'
      BY <1>2, <1>5, <2>2 DEF Reassemble
    <3>2. held' = k .. k /\ starts' \intersect held' = {k}
      BY <1>1, <3>1
    <3> QED BY <1>1, <2>1, <3>1, <3>2 DEF HeldRun
  <2>3. CASE ~pusi /\ calls'[3] = "continue_packet"
    <3>1. PICK a \in starts : /\ held = a .. (k - 1) /\ starts \intersect held = {a}
                              /\ a >= 1 /\ a <= k - 1
      BY <1>5, <1>7, <2>3
    <3>2. held' = held \union {k} /\ starts' = starts /\ k \notin starts
      BY <1>0, <1>2, <2>3 DEF Reassemble
    <3>3. held' = a .. k /\ starts' \intersect held' = {a}
      BY <1>1, <3>1, <3>2
    <3> QED BY <1>1, <2>1, <3>1, <3>2, <3>3 DEF HeldRun
  <2>4. CASE ~pusi /\ calls'[3] # "continue_packet"
    <3>1. ~consumer'.open /\ held' = held
      BY <1>2, <1>5, <2>4 DEF Reassemble
    <3>2. held \subseteq 1 .. sent
      BY DEF StreamInv, StreamTypeOK
    <3> QED BY <1>1, <3>1, <3>2 DEF HeldRun
  <2> QED BY <2>2, <2>3, <2>4
<1>9. EndedAreWhole' /\ whole' \subseteq SUBSET (1 .. sent')
  <2>1. ASSUME NEW s \in whole PROVE IsPesPacket(s)' /\ s \subseteq 1 .. sent'
    <3>1. IsPesPacket(s)
      BY <2>1 DEF StreamInv, EndedAreWhole
    <3>2. s \subseteq 1 .. sent
      BY <2>1 DEF StreamInv, StreamTypeOK
    <3>3. sent' = sent => starts' = starts
      BY <1>1
    <3>4. StreamTypeOK
      BY DEF StreamInv
    <3>5. starts \subseteq starts' /\ starts' \subseteq starts \union {sent + 1}
      BY <1>1, <3>3
    <3>6. IsPesPacket(s)'
      <4>1. sent' \in {sent, sent + 1}
        OBVIOUS
      <4> QED BY <3>1, <3>3, <3>4, <3>5, <4>1, PesPacketStays
    <3> QED BY <1>1, <3>2, <3>6
  <2>2. CASE calls'[2] = "end_packet"
    <3>1. PICK a \in starts : /\ held = a .. (k - 1) /\ starts \intersect held = {a}
                              /\ a >= 1 /\ a <= k - 1
      BY <1>5, <1>7, <2>2
    <3>2. k \in starts' /\ starts' = starts \union {k}
      BY <1>5, <2>2
    <3>3. starts' \intersect held = {a} /\ a \in starts'
      BY <1>1, <3>1, <3>2
    <3>4. k - 1 \in 1 .. sent' /\ (k - 1) + 1 \in starts'
      BY <1>1, <3>1, <3>2
    <3>5. ASSUME NEW s, s = held PROVE IsPesPacket(s)' /\ s \subseteq 1 .. sent'
      <4>1. \E b \in 1 .. sent' :
              /\ \E c \in starts' : s = c .. b /\ starts' \intersect s = {c}
              /\ b + 1 \in starts'
        BY <3>1, <3>3, <3>4, <3>5
      <4> QED BY <1>1, <3>1, <3>5, <4>1 DEF IsPesPacket, IsPrefix
    <3>6. \A s \in whole' : s \in whole \/ s = held
      BY <1>2, <2>2 DEF Reassemble
    <3> QED BY <2>1, <3>5, <3>6 DEF EndedAreWhole
  <2>3. CASE calls'[2] # "end_packet"
    BY <1>2, <2>1, <2>3 DEF EndedAreWhole, Reassemble
  <2> QED BY <2>2, <2>3
<1> QED BY <1>3, <1>6, <1>8, <1>9

(* The arrival of a packet without a payload.                              *)
LEMMA ReceiveEmpty ==
  ASSUME StreamInv, ArriveEmpty
  PROVE  (IInv /\ StartedIsOpen /\ CounterTracks /\ HeldRun /\ EndedAreWhole)'
         /\ held' = held /\ whole' = whole
<1> DEFINE p == EmptyPacket
<1>1. /\ p \in PacketType /\ ~p.pusi /\ ~p.hasPayload /\ p.cc = sent % CCMod
      /\ p.payload = "none"
      /\ sent \in Nat /\ lost \in Nat /\ lost <= sent /\ lost < CCMod
  <2>1. sent \in Nat /\ lost \in Nat /\ lost <= sent /\ lost < CCMod
    BY BoundsAssumption, CCModAssumption DEF StreamInv, StreamTypeOK, CounterTracks
  <2>2. sent % CCMod \in CC
    BY <2>1, ModRange
  <2> QED BY <2>1, <2>2 DEF EmptyPacket, PacketType
<1>2. Consume(p) /\ Deliver /\ Reassemble(sent)
  BY DEF Receive, ArriveEmpty
<1>3. sent' = sent /\ starts' = starts /\ lost' = 0
  BY DEF ArriveEmpty
<1> HIDE DEF p
<1>4. (IInv /\ StartedIsOpen)'
  BY <1>1, <1>2, ConsumeIInv, ConsumeConforming DEF StreamInv
<1>5. /\ calls'[2] # "end_packet" /\ calls'[3] \notin {"begin_packet", "continue_packet"}
      /\ consumer'.open => IsContinuous(p) /\ state = "Started"
  <2>1. /\ calls'[2] # "end_packet" /\ calls'[3] # "begin_packet"
        /\ consumer'.open => IsContinuous(p) /\ state = "Started"
    BY <1>1, <1>2, Effects DEF StreamInv
  <2>2. calls'[3] = ContinuePayloadCall(p)
    BY <1>1, <1>2 DEF Consume, PayloadCall
  <2> QED BY <1>1, <2>1, <2>2 DEF ContinuePayloadCall
<1>6. held' = held /\ whole' = whole
  BY <1>2, <1>5 DEF Reassemble
<1>7. CounterTracks'
  <2>1. ccounter' = sent % CCMod /\ ccounter' # None
    BY <1>1, <1>2, ModRange, NoneAssumption DEF Consume
  <2>2. LastConsumed' = sent
    BY <1>1, <1>3 DEF LastConsumed
  <2> QED BY <1>1, <1>3, <2>1, <2>2 DEF CounterTracks
<1>8. HeldRun'
  <2> SUFFICES ASSUME consumer'.open PROVE HeldRun'
    BY DEF HeldRun
  <2>1. ccounter = LastConsumed % CCMod /\ sent % CCMod = ccounter /\ consumer.open
    BY <1>1, <1>5 DEF StreamInv, CounterTracks, IsContinuous, StartedIsOpen
  <2>2. sent = LastConsumed
    BY <1>1, <2>1, ModInjective DEF LastConsumed
  <2>3. LastConsumed' = LastConsumed
    BY <1>1, <1>3, <2>2 DEF LastConsumed
  <2> QED BY <1>3, <1>6, <2>1, <2>3 DEF StreamInv, HeldRun
<1>9. EndedAreWhole'
  BY <1>3, <1>6 DEF StreamInv, EndedAreWhole, IsPesPacket, IsPrefix
<1> QED BY <1>4, <1>6, <1>7, <1>8, <1>9

(* The loss of a packet, which the filter and the application do not see.  *)
LEMMA LosePacket ==
  ASSUME StreamInv, NEW pusi \in BOOLEAN, Lose(pusi)
  PROVE  (IInv /\ StartedIsOpen /\ CounterTracks /\ HeldRun /\ EndedAreWhole)'
         /\ held' = held /\ whole' = whole
<1>1. /\ sent \in Nat /\ lost \in Nat /\ lost <= sent /\ starts \subseteq 1 .. sent
      /\ sent' = sent + 1 /\ lost' = lost + 1
      /\ starts \subseteq starts' /\ starts' \subseteq starts \union {sent + 1}
  BY BoundsAssumption DEF StreamInv, StreamTypeOK, CounterTracks, Lose, Emit
<1>2. UNCHANGED <<vars, appVars>>
  BY DEF Lose
<1>3. LastConsumed' = LastConsumed /\ LastConsumed <= sent /\ LastConsumed \in Int
  BY <1>1 DEF LastConsumed
<1>4. (IInv /\ StartedIsOpen)'
  BY <1>2 DEF StreamInv, vars, filterVars, IInv, TypeOK, Tracking, OpenIsTracked, StartedIsOpen
<1>5. CounterTracks'
  BY <1>1, <1>2, <1>3 DEF StreamInv, CounterTracks, vars, filterVars
<1>6. HeldRun'
  <2> SUFFICES ASSUME consumer.open PROVE HeldRun'
    BY <1>2 DEF HeldRun, vars
  <2>1. PICK a \in starts : held = a .. LastConsumed /\ starts \intersect held = {a}
    BY DEF StreamInv, HeldRun
  <2>2. a \in Int /\ starts' \intersect held = {a} /\ a \in starts'
    BY <1>1, <1>3, <2>1
  <2> QED BY <1>2, <1>3, <2>1, <2>2 DEF HeldRun, appVars
<1>7. EndedAreWhole'
  <2>1. ASSUME NEW s \in whole PROVE IsPesPacket(s)'
    BY <1>1, <2>1, PesPacketStays DEF StreamInv, EndedAreWhole
  <2> QED BY <1>2, <2>1 DEF EndedAreWhole, appVars
<1> QED BY <1>2, <1>4, <1>5, <1>6, <1>7 DEF appVars

LEMMA StreamStep == StreamInv /\ [StreamNext]_streamVars => StreamInv'
<1> SUFFICES ASSUME StreamInv, [StreamNext]_streamVars PROVE StreamInv'
  OBVIOUS
<1>1. /\ sent \in 0 .. MaxPackets /\ sent \in Nat /\ starts \subseteq 1 .. sent
      /\ hurt \subseteq 1 .. sent /\ held \subseteq 1 .. sent
      /\ whole \subseteq SUBSET (1 .. sent) /\ lost \in 0 .. MaxBurst
      /\ MaxBurst \in Nat
  BY BoundsAssumption, CCModAssumption DEF StreamInv, StreamTypeOK
<1>2. ASSUME NEW pusi \in BOOLEAN, Arrive(pusi) PROVE StreamInv'
  <2>1. /\ Receive(sent + 1, TSPacket(sent + 1, pusi)) /\ sent + 1 <= MaxPackets
        /\ sent' = sent + 1 /\ lost' = 0 /\ hurt' = hurt
        /\ starts' = IF pusi THEN starts \union {sent + 1} ELSE starts
    BY <1>1, <1>2, BoundsAssumption DEF Arrive, Emit
  <2>2. sent + 1 >= 1 /\ sent + 1 # sent
    BY <1>1
  <2>3. /\ (IInv /\ StartedIsOpen /\ CounterTracks /\ HeldRun /\ EndedAreWhole)'
        /\ held' \subseteq 1 .. sent' /\ whole' \subseteq SUBSET (1 .. sent')
    BY <2>1, <2>2, ReceivePayload
  <2> QED BY <1>1, <2>1, <2>3 DEF StreamInv, StreamTypeOK, IInv
<1>3. ASSUME NEW pusi \in BOOLEAN, Lose(pusi) PROVE StreamInv'
  <2>1. /\ (IInv /\ StartedIsOpen /\ CounterTracks /\ HeldRun /\ EndedAreWhole)'
        /\ held' = held /\ whole' = whole
    BY <1>3, LosePacket
  <2>2. /\ sent' = sent + 1 /\ sent < MaxPackets /\ lost' = lost + 1 /\ lost < MaxBurst
        /\ starts' \subseteq starts \union {sent + 1} /\ hurt' = hurt \union {sent + 1}
    BY <1>3 DEF Lose, Emit
  <2>3. /\ sent' \in 0 .. MaxPackets /\ starts' \subseteq 1 .. sent'
        /\ lost' \in 0 .. MaxBurst /\ hurt' \subseteq 1 .. sent'
    BY <1>1, <2>2, BoundsAssumption
  <2>4. held' \subseteq 1 .. sent' /\ whole' \subseteq SUBSET (1 .. sent')
    BY <1>1, <2>1, <2>2
  <2> QED BY <2>1, <2>3, <2>4 DEF StreamInv, StreamTypeOK, IInv
<1>4. ASSUME Repeat PROVE StreamInv'
  <2> DEFINE pusi == sent \in starts
  <2>1. /\ Receive(sent, TSPacket(sent, pusi)) /\ sent > 0 /\ sent' = sent
        /\ lost' = 0 /\ starts' = starts /\ hurt' \subseteq hurt \union {sent}
    BY <1>1, <1>4 DEF Repeat
  <2>2. starts' = IF pusi THEN starts \union {sent} ELSE starts
    BY <2>1
  <2>3. sent >= 1 /\ sent <= MaxPackets /\ pusi \in BOOLEAN
    BY <1>1, <2>1, BoundsAssumption
  <2>4. /\ (IInv /\ StartedIsOpen /\ CounterTracks /\ HeldRun /\ EndedAreWhole)'
        /\ held' \subseteq 1 .. sent' /\ whole' \subseteq SUBSET (1 .. sent')
    BY <2>1, <2>2, <2>3, ReceivePayload
  <2>5. hurt' \subseteq 1 .. sent' /\ lost' \in 0 .. MaxBurst
    BY <1>1, <2>1, <2>3
  <2> QED BY <1>1, <2>1, <2>4, <2>5 DEF StreamInv, StreamTypeOK, IInv
<1>5. ASSUME ArriveEmpty PROVE StreamInv'
  <2>1. /\ (IInv /\ StartedIsOpen /\ CounterTracks /\ HeldRun /\ EndedAreWhole)'
        /\ held' = held /\ whole' = whole
    BY <1>5, ReceiveEmpty
  <2>2. sent' = sent /\ starts' = starts /\ lost' = 0 /\ hurt' = hurt
    BY <1>5 DEF ArriveEmpty
  <2> QED BY <1>1, <2>1, <2>2 DEF StreamInv, StreamTypeOK, IInv
<1>6. CASE UNCHANGED streamVars
  BY <1>6 DEF streamVars, vars, filterVars, pathVars, appVars, StreamInv,
    StreamTypeOK, IInv, TypeOK, Tracking, OpenIsTracked, StartedIsOpen,
    CounterTracks, LastConsumed, HeldRun, EndedAreWhole, IsPesPacket, IsPrefix
<1> QED BY <1>2, <1>3, <1>4, <1>5, <1>6 DEF StreamNext

LEMMA StreamInvInvariant == StreamSpec => []StreamInv
BY StreamInitInv, StreamStep, PTL DEF StreamSpec

(* The path, the filter and the application stay within their types.       *)
THEOREM StreamTypeCorrect == StreamSpec => []StreamTypeOK
<1>1. StreamInv => StreamTypeOK
  BY DEF StreamInv
<1> QED BY StreamInvInvariant, <1>1, PTL

(* A piece that is continued with is not held yet.                         *)
LEMMA PieceIsNew ==
  ASSUME StreamInv, NEW k \in {sent, sent + 1}, NEW pusi \in BOOLEAN,
         Receive(k, TSPacket(k, pusi)), calls'[3] = "continue_packet"
  PROVE  k \notin held
<1> DEFINE p == TSPacket(k, pusi)
<1>1. /\ sent \in Nat /\ lost \in Nat /\ starts \subseteq 1 .. sent
      /\ k \in Int /\ LastConsumed \in Int
  BY BoundsAssumption DEF StreamInv, StreamTypeOK, LastConsumed
<1>2. p \in PacketType /\ (p.pusi => p.payload = "header")
  BY <1>1, PathPackets
<1>3. Consume(p) /\ Deliver
  BY DEF Receive
<1>4. IsContinuous(p) /\ state = "Started"
  <2> HIDE DEF p
  <2>1. QED BY <1>2, <1>3, Effects DEF StreamInv
<1>5. k = LastConsumed + 1
  BY <1>4, ContinuousIsNext
<1>6. PICK a \in starts : held = a .. LastConsumed
  BY <1>4 DEF StreamInv, StartedIsOpen, HeldRun
<1>7. QED BY <1>1, <1>5, <1>6

(* No packet is handed to the application twice as a continuation.         *)
THEOREM NoneTwice == StreamSpec => NoPieceTwice
<1> DEFINE New == calls'[3] = "continue_packet" => sent' \notin held
<1>1. StreamInv /\ [StreamNext]_streamVars => [New]_streamVars
  <2> SUFFICES ASSUME StreamInv, StreamNext, calls'[3] = "continue_packet"
               PROVE  sent' \notin held
    OBVIOUS
  <2>1. sent \in Nat /\ held \subseteq 1 .. sent
    BY BoundsAssumption DEF StreamInv, StreamTypeOK
  <2>2. ASSUME NEW pusi \in BOOLEAN, Arrive(pusi) PROVE sent' \notin held
    <3>1. Receive(sent + 1, TSPacket(sent + 1, pusi)) /\ sent' = sent + 1
      BY <2>2 DEF Arrive, Emit
    <3>2. QED BY <2>1, <3>1
  <2>3. ASSUME NEW pusi \in BOOLEAN, Lose(pusi) PROVE sent' \notin held
    BY <2>1, <2>3 DEF Lose, Emit
  <2>4. ASSUME Repeat PROVE sent' \notin held
    <3> DEFINE pusi == sent \in starts
    <3>1. Receive(sent, TSPacket(sent, pusi)) /\ sent' = sent /\ pusi \in BOOLEAN
      BY <2>4 DEF Repeat
    <3>2. sent \notin held
      <4> HIDE DEF pusi
      <4>1. QED BY <3>1, PieceIsNew
    <3>3. QED BY <3>1, <3>2
  <2>5. ASSUME ArriveEmpty PROVE FALSE
    <3>1. calls'[3] \in {"-", "MissingPayloadStartIndicator"}
      BY <2>5 DEF ArriveEmpty, Receive, Consume, PayloadCall, ContinuePayloadCall, EmptyPacket
    <3>2. QED BY <3>1
  <2>6. QED BY <2>2, <2>3, <2>4, <2>5 DEF StreamNext
<1>2. QED BY StreamInvInvariant, <1>1, PTL DEF StreamSpec, NoPieceTwice

(* The pieces held of an open PES packet are the first pieces of one that  *)
(* was sent, whatever was lost or repeated.                                *)
THEOREM NoSplice == StreamSpec => []HeldIsPrefix
<1>1. StreamInv => HeldIsPrefix
  <2> SUFFICES ASSUME StreamInv, consumer.open
               PROVE  \E b \in 1 .. sent : IsPrefix(held, b)
    BY DEF HeldIsPrefix
  <2>1. PICK a \in starts : held = a .. LastConsumed /\ starts \intersect held = {a}
    BY DEF StreamInv, HeldRun
  <2>2. sent \in Nat /\ lost \in Nat /\ starts \subseteq 1 .. sent
    BY BoundsAssumption DEF StreamInv, StreamTypeOK
  <2>3. a \in held /\ LastConsumed \in 1 .. sent
    BY <2>1, <2>2 DEF LastConsumed
  <2> QED BY <2>1, <2>3 DEF IsPrefix
<1> QED BY StreamInvInvariant, <1>1, PTL

(* end_packet() is called only for PES packets received completely.        *)
THEOREM OnlyWholeEnd == StreamSpec => []EndedAreWhole
<1>1. StreamInv => EndedAreWhole
  BY DEF StreamInv
<1> QED BY StreamInvInvariant, <1>1, PTL

-----------------------------------------------------------------------------
(* Damage is contained.  Losses since the last consumed packet are marked, *)
(* and pieces that were not hurt are held from the start of their PES      *)
(* packet on, ready to be ended by the next one's.                         *)

LostAreHurt == LastConsumed + 1 .. sent \subseteq hurt

UnhurtFrom(a, b) == starts \intersect (a .. b) = {a} /\ a .. b \intersect hurt = {}

UnhurtIsHeld ==
  \A a \in starts :
    a <= LastConsumed /\ UnhurtFrom(a, LastConsumed) =>
      consumer.open /\ held = a .. LastConsumed

UnhurtAreWhole ==
  \A a \in starts, b \in 1 .. sent :
    /\ a <= b /\ b + 1 \in starts
    /\ starts \intersect (a .. b) = {a} /\ a .. b + 1 \intersect hurt = {}
    => a .. b \in whole

UnhurtInv == LostAreHurt /\ UnhurtIsHeld /\ UnhurtAreWhole

(* The next packet is continuous, and is handed over to an application     *)
(* that has the PES packet open: the start of another ends it first.       *)
LEMMA NextIsContinued ==
  ASSUME StreamInv, consumer.open, NEW k \in Nat, k = LastConsumed + 1,
         NEW pusi \in BOOLEAN, Consume(TSPacket(k, pusi)), Deliver
  PROVE  /\ pusi => calls'[2] = "end_packet"
         /\ ~pusi => /\ calls'[2] # "end_packet" /\ calls'[3] = "continue_packet"
                     /\ consumer'.open
<1> DEFINE p == TSPacket(k, pusi)
<1>1. /\ p \in PacketType /\ p.pusi = pusi /\ p.hasPayload /\ p.cc = k % CCMod
      /\ p.payload = IF pusi THEN "header" ELSE "data"
  BY PathPackets
<1>2. state = "Started" /\ IInv /\ consumer \in Consumer
  BY DEF StreamInv, StreamTypeOK, TypeOK, IInv, Tracking, OpenIsTracked
<1>3. ccounter = LastConsumed % CCMod /\ LastConsumed \in Int
  <2>1. sent \in Nat /\ lost \in Nat
    BY BoundsAssumption DEF StreamInv, StreamTypeOK
  <2>2. QED BY <1>2, <2>1 DEF StreamInv, CounterTracks, LastConsumed
<1>4. IsContinuous(p)
  <2>1. p.cc = (ccounter + 1) % CCMod
    BY <1>1, <1>3, ModIncrement
  <2>2. QED BY <1>1, <2>1 DEF IsContinuous, Follows
<1>5. /\ calls' = <<GapCall(p), UnitCall(p), PayloadCall(p)>>
      /\ consumer' = React(Before(3), calls'[3])
  BY DEF Consume, Deliver
<1> HIDE DEF p
<1>6. GapCall(p) = "-" /\ StateAfterGapCheck(p) = "Started"
  BY <1>2, <1>4 DEF GapCall, StateAfterGapCheck
<1>7. CASE pusi
  BY <1>1, <1>5, <1>6, <1>7 DEF UnitCall
<1>8. CASE ~pusi
  <2>1. UnitCall(p) = "-" /\ PayloadCall(p) = "continue_packet"
    BY <1>1, <1>6, <1>8 DEF UnitCall, PayloadCall, ContinuePayloadCall
  <2>2. Before(3) = consumer
    BY <1>5, <1>6, <2>1, BeforeFacts DEF React
  <2>3. QED BY <1>2, <1>5, <1>8, <2>1, <2>2, ReactFacts
<1>9. QED BY <1>7, <1>8

(* A packet that holds a whole start of a PES packet begins it.            *)
LEMMA StartIsBegun ==
  ASSUME StreamInv, NEW k \in Nat, Receive(k, TSPacket(k, TRUE))
  PROVE  consumer'.open /\ held' = k .. k
<1> DEFINE p == TSPacket(k, TRUE)
<1>1. p \in PacketType /\ p.pusi /\ p.payload = "header"
  <2>1. k % CCMod \in CC
    BY ModRange
  <2>2. QED BY <2>1 DEF TSPacket, PacketType
<1>2. Consume(p) /\ Deliver /\ Reassemble(k)
  BY DEF Receive
<1> HIDE DEF p
<1>3. IInv
  BY DEF StreamInv
<1>4. calls'[3] = "begin_packet" /\ Before(3) \in Consumer
  BY <1>1, <1>2, <1>3, PayloadCheck, UnitCheck
<1>5. consumer'.open
  BY <1>2, <1>4, ReactFacts DEF Deliver
<1>6. held' = {k}
  BY <1>2, <1>4 DEF Reassemble
<1>7. QED BY <1>5, <1>6

(* Of a run of unhurt packets up to the last one sent none is missing.     *)
LEMMA UnhurtHasArrived ==
  ASSUME StreamTypeOK, lost <= sent, LostAreHurt, NEW a \in starts,
         a .. sent \intersect hurt = {}
  PROVE  lost = 0 /\ LastConsumed = sent
<1>1. sent \in Nat /\ lost \in Nat /\ a \in 1 .. sent
  BY BoundsAssumption DEF StreamTypeOK
<1>2. CASE lost > 0
  <2>1. sent \in LastConsumed + 1 .. sent
    BY <1>1, <1>2 DEF LastConsumed
  <2>2. sent \in a .. sent
    BY <1>1
  <2>3. QED BY <2>1, <2>2 DEF LostAreHurt
<1>3. QED BY <1>1, <1>2 DEF LastConsumed

(* A packet arrives for the first time: the pieces before it, if none of   *)
(* them was hurt, are held, and are ended or gone on with.                 *)
LEMMA ArriveUnhurt ==
  ASSUME StreamInv, UnhurtInv, NEW pusi \in BOOLEAN, Arrive(pusi)
  PROVE  UnhurtInv'
<1> DEFINE k == sent + 1
<1>1. /\ StreamTypeOK /\ sent \in Nat /\ lost \in Nat /\ lost <= sent
      /\ starts \subseteq 1 .. sent /\ hurt \subseteq 1 .. sent /\ k \in Nat
  BY BoundsAssumption DEF StreamInv, StreamTypeOK, CounterTracks
<1>2. /\ Receive(k, TSPacket(k, pusi)) /\ sent' = k /\ lost' = 0 /\ hurt' = hurt
      /\ starts' = IF pusi THEN starts \union {k} ELSE starts
  BY DEF Arrive, Emit
<1>3. Consume(TSPacket(k, pusi)) /\ Deliver /\ Reassemble(k)
  BY <1>2 DEF Receive
<1>4. LastConsumed' = k
  BY <1>1, <1>2 DEF LastConsumed
<1>5. LostAreHurt'
  BY <1>1, <1>2, <1>4 DEF LostAreHurt
(* The run before the packet, if it is unhurt.                             *)
<1>6. ASSUME NEW a \in starts, starts \intersect (a .. sent) = {a},
             a .. sent \intersect hurt = {}
      PROVE  /\ consumer.open /\ held = a .. sent
             /\ pusi => calls'[2] = "end_packet"
             /\ ~pusi => /\ calls'[2] # "end_packet" /\ calls'[3] = "continue_packet"
                         /\ consumer'.open
  <2>1. LastConsumed = sent /\ a <= sent
    BY <1>1, <1>6, UnhurtHasArrived DEF UnhurtInv
  <2>2. consumer.open /\ held = a .. sent
    BY <1>6, <2>1 DEF UnhurtInv, UnhurtIsHeld, UnhurtFrom
  <2>3. k = LastConsumed + 1
    BY <2>1
  <2> HIDE DEF k
  <2>4. QED BY <1>1, <1>3, <2>2, <2>3, NextIsContinued
<1>7. UnhurtIsHeld'
  <2> SUFFICES ASSUME NEW a \in starts', a <= k,
                      starts' \intersect (a .. k) = {a}, a .. k \intersect hurt = {}
               PROVE  consumer'.open /\ held' = a .. k
    BY <1>2, <1>4 DEF UnhurtIsHeld, UnhurtFrom
  <2>1. CASE pusi
    <3>1. a = k
      BY <1>1, <1>2, <2>1
    <3>2. QED BY <1>1, <1>2, <2>1, <3>1, StartIsBegun
  <2>2. CASE ~pusi
    <3>1. a \in starts /\ a \in 1 .. sent /\ starts \intersect (a .. sent) = {a}
      BY <1>1, <1>2, <2>2
    <3>2. a .. sent \intersect hurt = {}
      BY <1>1, <3>1
    <3>3. consumer'.open /\ calls'[3] = "continue_packet" /\ held = a .. sent
      BY <1>6, <2>2, <3>1, <3>2
    <3>4. held' = (a .. sent) \union {k}
      BY <1>3, <3>3 DEF Reassemble
    <3>5. QED BY <1>1, <3>1, <3>3, <3>4
  <2>3. QED BY <2>1, <2>2
<1>8. UnhurtAreWhole'
  <2> SUFFICES ASSUME NEW a \in starts', NEW b \in 1 .. k, a <= b, b + 1 \in starts',
                      starts' \intersect (a .. b) = {a},
                      a .. b + 1 \intersect hurt = {}
               PROVE  a .. b \in whole'
    BY <1>2 DEF UnhurtAreWhole
  <2>1. a \in Nat /\ b \in Nat /\ a \in starts /\ b \in 1 .. sent
    BY <1>1, <1>2
  <2>2. starts \intersect (a .. b) = {a}
    BY <1>2, <2>1
  <2>3. CASE b + 1 \in starts
    <3>1. a .. b \in whole
      BY <2>1, <2>2, <2>3 DEF UnhurtInv, UnhurtAreWhole
    <3>2. QED BY <1>3, <3>1 DEF Reassemble
  <2>4. CASE b + 1 \notin starts
    <3>1. pusi /\ b = sent
      BY <1>1, <1>2, <2>1, <2>4
    <3>2. a .. sent \intersect hurt = {}
      BY <1>1, <2>1, <3>1
    <3>3. calls'[2] = "end_packet" /\ held = a .. sent
      BY <1>6, <2>1, <2>2, <3>1, <3>2
    <3>4. QED BY <1>3, <3>1, <3>3 DEF Reassemble
  <2>5. QED BY <2>3, <2>4
<1>9. QED BY <1>5, <1>7, <1>8 DEF UnhurtInv

(* A packet is lost: it is hurt, and no run that holds it is unhurt.       *)
LEMMA LoseUnhurt ==
  ASSUME StreamInv, UnhurtInv, NEW pusi \in BOOLEAN, Lose(pusi)
  PROVE  UnhurtInv'
<1>1. /\ sent \in Nat /\ lost \in Nat /\ lost <= sent /\ starts \subseteq 1 .. sent
      /\ hurt \subseteq 1 .. sent
  BY BoundsAssumption DEF StreamInv, StreamTypeOK, CounterTracks
<1>2. /\ sent' = sent + 1 /\ lost' = lost + 1 /\ hurt' = hurt \union {sent + 1}
      /\ starts' = IF pusi THEN starts \union {sent + 1} ELSE starts
      /\ consumer' = consumer /\ held' = held /\ whole' = whole
  BY DEF Lose, Emit, vars, appVars
<1>3. LastConsumed' = LastConsumed /\ LastConsumed \in Int /\ LastConsumed <= sent
  BY <1>1, <1>2 DEF LastConsumed
<1>4. LostAreHurt'
  BY <1>1, <1>2, <1>3 DEF UnhurtInv, LostAreHurt
<1>5. UnhurtIsHeld'
  <2> SUFFICES ASSUME NEW a \in starts', a <= LastConsumed,
                      starts' \intersect (a .. LastConsumed) = {a},
                      a .. LastConsumed \intersect hurt' = {}
               PROVE  consumer.open /\ held = a .. LastConsumed
    BY <1>2, <1>3 DEF UnhurtIsHeld, UnhurtFrom
  <2>1. a \in starts /\ starts \intersect (a .. LastConsumed) = {a}
    BY <1>1, <1>2, <1>3
  <2>2. a .. LastConsumed \intersect hurt = {}
    BY <1>2
  <2>3. QED BY <2>1, <2>2 DEF UnhurtInv, UnhurtIsHeld, UnhurtFrom
<1>6. UnhurtAreWhole'
  <2> SUFFICES ASSUME NEW a \in starts', NEW b \in 1 .. sent + 1, a <= b, b + 1 \in starts',
                      starts' \intersect (a .. b) = {a},
                      a .. b + 1 \intersect hurt' = {}
               PROVE  a .. b \in whole
    BY <1>2 DEF UnhurtAreWhole
  <2>1. a \in Nat /\ b \in Nat /\ a \in starts /\ b \in 1 .. sent
    BY <1>1, <1>2
  <2>2. b + 1 \in a .. b + 1 /\ b + 1 # sent + 1
    BY <1>2, <2>1
  <2>3. b + 1 \in starts /\ starts \intersect (a .. b) = {a}
    BY <1>2, <2>1, <2>2
  <2>4. a .. b + 1 \intersect hurt = {}
    BY <1>2
  <2>5. QED BY <2>1, <2>3, <2>4 DEF UnhurtInv, UnhurtAreWhole
<1>7. QED BY <1>4, <1>5, <1>6 DEF UnhurtInv

(* The last packet once more.  If it only now arrives it is unhurt, and    *)
(* all before it that is unhurt is held; a second copy hurts the PES       *)
(* packet that it is in the middle of.                                     *)
LEMMA RepeatUnhurt ==
  ASSUME StreamInv, UnhurtInv, Repeat
  PROVE  UnhurtInv'
<1> DEFINE pusi == sent \in starts
<1>1. /\ StreamTypeOK /\ sent \in Nat /\ lost \in Nat /\ lost <= sent
      /\ starts \subseteq 1 .. sent /\ hurt \subseteq 1 .. sent
  BY BoundsAssumption DEF StreamInv, StreamTypeOK, CounterTracks
<1>2. /\ Receive(sent, TSPacket(sent, pusi)) /\ sent' = sent /\ lost' = 0
      /\ starts' = starts /\ sent > 0 /\ pusi \in BOOLEAN
      /\ hurt' = CASE lost > 0 -> hurt \ {sent}
                   [] lost = 0 /\ sent \notin starts -> hurt \union {sent}
                   [] OTHER -> hurt
  BY DEF Repeat
<1>3. Consume(TSPacket(sent, pusi)) /\ Deliver /\ Reassemble(sent)
  BY <1>2 DEF Receive
<1>4. /\ lost > 0 => hurt' = hurt \ {sent}
      /\ lost = 0 /\ ~pusi => hurt' = hurt \union {sent}
      /\ lost = 0 /\ pusi => hurt' = hurt
  BY <1>1, <1>2
<1>5. LastConsumed' = sent
  BY <1>1, <1>2 DEF LastConsumed
<1>6. LostAreHurt'
  BY <1>1, <1>2, <1>5 DEF LostAreHurt
(* The run before the packet, if it is unhurt and the packet was lost.     *)
<1>7. ASSUME NEW a \in starts, a < sent, lost > 0,
             starts \intersect (a .. sent - 1) = {a},
             a .. sent - 1 \intersect hurt = {}
      PROVE  /\ consumer.open /\ held = a .. sent - 1
             /\ pusi => calls'[2] = "end_packet"
             /\ ~pusi => /\ calls'[2] # "end_packet" /\ calls'[3] = "continue_packet"
                         /\ consumer'.open
  <2>1. sent - 1 \in a .. sent - 1
    BY <1>1, <1>7
  <2>2. ~(lost > 1)
    <3>1. ASSUME lost > 1 PROVE FALSE
      <4>1. sent - 1 \in LastConsumed + 1 .. sent
        BY <1>1, <1>2, <3>1 DEF LastConsumed
      <4>2. QED BY <1>7, <2>1, <4>1 DEF UnhurtInv, LostAreHurt
    <3>2. QED BY <3>1
  <2>3. LastConsumed = sent - 1 /\ a <= LastConsumed
    BY <1>1, <1>7, <2>2 DEF LastConsumed
  <2>4. consumer.open /\ held = a .. sent - 1
    BY <1>7, <2>3 DEF UnhurtInv, UnhurtIsHeld, UnhurtFrom
  <2>5. sent = LastConsumed + 1
    BY <1>1, <2>3
  <2> HIDE DEF pusi
  <2>6. QED BY <1>1, <1>2, <1>3, <2>4, <2>5, NextIsContinued
<1>8. UnhurtIsHeld'
  <2> SUFFICES ASSUME NEW a \in starts, a <= sent,
                      starts \intersect (a .. sent) = {a}, a .. sent \intersect hurt' = {}
               PROVE  consumer'.open /\ held' = a .. sent
    BY <1>2, <1>5 DEF UnhurtIsHeld, UnhurtFrom
  <2>1. CASE pusi
    <3>1. a = sent
      BY <1>1, <2>1
    <3>2. Receive(sent, TSPacket(sent, TRUE))
      BY <1>2, <2>1
    <3>3. QED BY <1>1, <3>1, <3>2, StartIsBegun
  <2>2. CASE ~pusi
    <3>1. a < sent /\ a \in Nat
      BY <1>1, <2>2
    <3>2. lost > 0
      BY <1>1, <1>4, <2>2
    <3>3. starts \intersect (a .. sent - 1) = {a} /\ a .. sent - 1 \intersect hurt = {}
      BY <1>1, <1>4, <3>1, <3>2
    <3>4. consumer'.open /\ calls'[3] = "continue_packet" /\ held = a .. sent - 1
      BY <1>7, <2>2, <3>1, <3>2, <3>3
    <3>5. held' = (a .. sent - 1) \union {sent}
      BY <1>3, <3>4 DEF Reassemble
    <3>6. QED BY <1>1, <3>1, <3>4, <3>5
  <2>3. QED BY <2>1, <2>2
<1>9. UnhurtAreWhole'
  <2> SUFFICES ASSUME NEW a \in starts, NEW b \in 1 .. sent, a <= b, b + 1 \in starts,
                      starts \intersect (a .. b) = {a},
                      a .. b + 1 \intersect hurt' = {}
               PROVE  a .. b \in whole'
    BY <1>2 DEF UnhurtAreWhole
  <2>1. a \in Nat /\ b \in Nat /\ b + 1 \in 1 .. sent
    BY <1>1
  <2>2. CASE a .. b + 1 \intersect hurt = {}
    <3>1. a .. b \in whole
      BY <2>2 DEF UnhurtInv, UnhurtAreWhole
    <3>2. QED BY <1>3, <3>1 DEF Reassemble
  <2>3. CASE a .. b + 1 \intersect hurt # {}
    <3>1. lost > 0 /\ b + 1 = sent
      BY <1>1, <1>4, <2>1, <2>3
    <3>2. pusi /\ a < sent /\ b = sent - 1
      BY <2>1, <3>1
    <3>3. a .. sent - 1 \intersect hurt = {}
      BY <1>1, <1>4, <2>1, <3>1, <3>2
    <3>4. calls'[2] = "end_packet" /\ held = a .. b
      BY <1>7, <3>1, <3>2, <3>3
    <3>5. QED BY <1>3, <3>4 DEF Reassemble
  <2>4. QED BY <2>2, <2>3
<1>10. QED BY <1>6, <1>8, <1>9 DEF UnhurtInv

(* A packet without a payload leaves what is held, if none before it is    *)
(* missing.                                                                *)
LEMMA EmptyUnhurt ==
  ASSUME StreamInv, UnhurtInv, ArriveEmpty
  PROVE  UnhurtInv'
<1> DEFINE p == EmptyPacket
<1>1. /\ StreamTypeOK /\ sent \in Nat /\ lost \in Nat /\ lost <= sent
      /\ starts \subseteq 1 .. sent /\ IInv /\ consumer \in Consumer
  BY BoundsAssumption DEF StreamInv, StreamTypeOK, TypeOK, CounterTracks
<1>2. sent' = sent /\ starts' = starts /\ lost' = 0 /\ hurt' = hurt /\ Consume(p) /\ Deliver
  BY DEF ArriveEmpty, Receive
<1>3. held' = held /\ whole' = whole
  BY ReceiveEmpty
<1>4. LastConsumed' = sent
  BY <1>1, <1>2 DEF LastConsumed
<1>5. LostAreHurt'
  BY <1>1, <1>2, <1>4 DEF LostAreHurt
<1>6. UnhurtIsHeld'
  <2> SUFFICES ASSUME NEW a \in starts, a <= sent,
                      starts \intersect (a .. sent) = {a}, a .. sent \intersect hurt = {}
               PROVE  consumer'.open /\ held = a .. sent
    BY <1>2, <1>3, <1>4 DEF UnhurtIsHeld, UnhurtFrom
  <2>1. LastConsumed = sent
    BY <1>1, UnhurtHasArrived DEF UnhurtInv
  <2>2. consumer.open /\ held = a .. sent
    BY <2>1 DEF UnhurtInv, UnhurtIsHeld, UnhurtFrom
  <2>3. state = "Started"
    BY <1>1, <2>2 DEF IInv, Tracking, OpenIsTracked
  <2>4. ccounter = sent % CCMod
    BY <2>1, <2>3 DEF StreamInv, CounterTracks
  <2>5. ~p.pusi /\ ~p.hasPayload /\ p.cc = sent % CCMod /\ p.payload = "none"
    BY DEF EmptyPacket
  <2> HIDE DEF p
  <2>6. IsContinuous(p)
    BY <2>4, <2>5 DEF IsContinuous
  <2>7. GapCall(p) = "-" /\ UnitCall(p) = "-" /\ StateAfterGapCheck(p) = "Started"
    BY <2>3, <2>5, <2>6 DEF GapCall, UnitCall, StateAfterGapCheck
  <2>8. PayloadCall(p) = "-"
    BY <2>5, <2>7 DEF PayloadCall, ContinuePayloadCall
  <2>9. calls'[1] = "-" /\ calls'[2] = "-" /\ calls'[3] = "-"
    BY <1>2, <2>7, <2>8 DEF Consume
  <2>10. Before(3) = consumer
    BY <2>9, BeforeFacts DEF React
  <2>11. consumer' = consumer
    BY <1>2, <2>9, <2>10 DEF Deliver, React
  <2>12. QED BY <2>2, <2>11
<1>7. UnhurtAreWhole'
  BY <1>2, <1>3 DEF UnhurtInv, UnhurtAreWhole
<1>8. QED BY <1>5, <1>6, <1>7 DEF UnhurtInv

LEMMA UnhurtInvariant == StreamSpec => []UnhurtInv
<1>1. StreamInit => UnhurtInv
  <2> SUFFICES ASSUME StreamInit PROVE UnhurtInv
    OBVIOUS
  <2>1. sent = 0 /\ lost = 0 /\ starts = {}
    BY DEF StreamInit
  <2>2. LastConsumed + 1 .. sent = {}
    BY <2>1 DEF LastConsumed
  <2>3. QED BY <2>1, <2>2 DEF UnhurtInv, LostAreHurt, UnhurtIsHeld, UnhurtAreWhole
<1>2. StreamInv /\ UnhurtInv /\ [StreamNext]_streamVars => UnhurtInv'
  <2> SUFFICES ASSUME StreamInv, UnhurtInv, [StreamNext]_streamVars PROVE UnhurtInv'
    OBVIOUS
  <2>1. CASE UNCHANGED streamVars
    BY <2>1 DEF streamVars, vars, pathVars, appVars, UnhurtInv, LostAreHurt,
         LastConsumed, UnhurtIsHeld, UnhurtFrom, UnhurtAreWhole
  <2>2. QED BY <2>1, ArriveUnhurt, LoseUnhurt, RepeatUnhurt, EmptyUnhurt DEF StreamNext
<1>3. QED BY StreamInvInvariant, <1>1, <1>2, PTL DEF StreamSpec

(* A PES packet whose packets, and the start of the next, arrived exactly  *)
(* once is delivered, whatever happened to the stream before it.           *)
THEOREM DamageIsContained == StreamSpec => []UnhurtAreDelivered
<1>1. StreamInv /\ UnhurtInv => UnhurtAreDelivered
  <2> SUFFICES ASSUME StreamInv, UnhurtInv, NEW a \in 1 .. sent, NEW b \in 1 .. sent,
                      IsPesPacket(a .. b), a .. b + 1 \intersect hurt = {}
               PROVE  a .. b \in whole
    BY DEF UnhurtAreDelivered
  <2>1. PICK d \in 1 .. sent, c \in starts :
          a .. b = c .. d /\ starts \intersect (a .. b) = {c} /\ d + 1 \in starts
    BY DEF IsPesPacket, IsPrefix
  <2>2. sent \in Nat /\ starts \subseteq 1 .. sent
    BY BoundsAssumption DEF StreamInv, StreamTypeOK
  <2>3. a <= b
    <3>1. c \in a .. b
      BY <2>1
    <3>2. QED BY <2>2, <3>1
  <2>4. c = a /\ d = b
    <3>1. a \in c .. d /\ b \in c .. d /\ c \in a .. b
      BY <2>1, <2>2, <2>3
    <3>2. d \in a .. b
      BY <2>1, <2>2, <3>1
    <3>3. QED BY <2>2, <3>1, <3>2
  <2>5. QED BY <2>1, <2>3, <2>4 DEF UnhurtInv, UnhurtAreWhole
<1>2. QED BY StreamInvInvariant, UnhurtInvariant, <1>1, PTL
===============================================================================
