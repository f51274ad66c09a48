----------------------------- MODULE ReadersProofs -----------------------------
(***************************************************************************)
(* Proofs about the readers of packets, sections, timestamps and tables,   *)
(* for every value that their headers may give, every range of the clock   *)
(* and every list of entries.                                              *)
(***************************************************************************)
EXTENDS PacketLayout, SectionPipeline, Timestamps, EntryIterators,
        SequenceTheorems, FiniteSetTheorems, WellFoundedInduction, TLAPS

-------------------------------------------------------------------------------
(* PacketLayout.                                                           *)

(* The header's control bits and the byte after it may be anything once    *)
(* it is damaged.                                                          *)
PacketInv ==
  /\ packet.sync \in BOOLEAN /\ packet.has_af \in BOOLEAN
  /\ packet.has_payload \in BOOLEAN /\ packet.damaged \in BOOLEAN
  /\ packet.length \in Nat
  /\ packet = [sync |-> packet.sync, has_af |-> packet.has_af,
               has_payload |-> packet.has_payload, length |-> packet.length,
               damaged |-> packet.damaged]
  /\ ~packet.damaged => packet \in WrittenPackets

LEMMA WrittenIs ==
  ASSUME NEW p \in WrittenPackets
  PROVE  /\ p.sync = TRUE /\ p.damaged = FALSE /\ p.length \in Nat
         /\ p = Header(p.has_af, p.has_payload, p.length)
         /\ \/ p.has_af = FALSE /\ p.has_payload = TRUE
            \/ p.has_af = TRUE /\ p.has_payload = TRUE /\ p.length <= 182
            \/ p.has_af = TRUE /\ p.has_payload = FALSE /\ p.length = 183
<1>1. ASSUME NEW a, NEW b, NEW n, p = Header(a, b, n)
      PROVE  /\ p.sync = TRUE /\ p.damaged = FALSE /\ p.has_af = a /\ p.has_payload = b
             /\ p.length = n /\ p = Header(p.has_af, p.has_payload, p.length)
  <2>1. /\ p.sync = TRUE /\ p.damaged = FALSE /\ p.has_af = a /\ p.has_payload = b
        /\ p.length = n
    BY <1>1, Zenon DEF Header
  <2>2. QED BY <1>1, <2>1, Zenon
<1>2. \/ \E n \in 0..255 : p = Header(FALSE, TRUE, n)
      \/ \E n \in 0..182 : p = Header(TRUE, TRUE, n)
      \/ p = Header(TRUE, FALSE, SIZE - ADAPTATION_FIELD_OFFSET)
  BY Zenon DEF WrittenPackets
<1>3. CASE \E n \in 0..255 : p = Header(FALSE, TRUE, n)
  <2>1. PICK n \in 0..255 : p = Header(FALSE, TRUE, n)
    BY <1>3
  <2>2. n \in Nat
    OBVIOUS
  <2>3. /\ p.sync = TRUE /\ p.damaged = FALSE /\ p.length = n
        /\ p = Header(p.has_af, p.has_payload, p.length)
        /\ p.has_af = FALSE /\ p.has_payload = TRUE
    BY <1>1, <2>1, Zenon
  <2>4. QED BY <1>1, <2>1, <2>2, <2>3
<1>4. CASE \E n \in 0..182 : p = Header(TRUE, TRUE, n)
  <2>1. PICK n \in 0..182 : p = Header(TRUE, TRUE, n)
    BY <1>4
  <2>2. n \in Nat /\ n <= 182
    OBVIOUS
  <2>3. /\ p.sync = TRUE /\ p.damaged = FALSE /\ p.length = n
        /\ p = Header(p.has_af, p.has_payload, p.length)
        /\ p.has_af = TRUE /\ p.has_payload = TRUE
    BY <1>1, <2>1, Zenon
  <2>4. QED BY <1>1, <2>1, <2>2, <2>3
<1>5. CASE p = Header(TRUE, FALSE, SIZE - ADAPTATION_FIELD_OFFSET)
  <2>1. SIZE - ADAPTATION_FIELD_OFFSET = 183
    BY DEF SIZE, ADAPTATION_FIELD_OFFSET, PACKET_HEADER_SIZE
  <2>2. PICK n : n = 183 /\ p = Header(TRUE, FALSE, n)
    BY <1>5, <2>1
  <2>3. p = Header(TRUE, FALSE, n)
    BY <2>2
  <2>4. /\ p.sync = TRUE /\ p.damaged = FALSE /\ p.length = n
        /\ p = Header(p.has_af, p.has_payload, p.length)
        /\ p.has_af = TRUE /\ p.has_payload = FALSE
    BY <1>1, <2>3, Zenon
  <2>5. p.length \in Nat /\ p.length = 183
    <3>1. p.length = n
      BY <2>4, Zenon
    <3>2. n \in Nat /\ n = 183
      <4>1. n = 183
        BY <2>2, Zenon
      <4>2. QED BY <4>1
    <3>3. QED BY <3>1, <3>2
  <2>6. QED BY <2>4, <2>5, Zenon
<1>6. QED BY <1>2, <1>3, <1>4, <1>5

LEMMA PacketInitInv == PacketInit => PacketInv
<1>1. SUFFICES ASSUME PacketInit PROVE PacketInv
  OBVIOUS
<1>2. packet \in WrittenPackets
  BY <1>1 DEF PacketInit
<1>3. /\ packet.sync = TRUE /\ packet.damaged = FALSE /\ packet.length \in Nat
      /\ packet.has_af \in BOOLEAN /\ packet.has_payload \in BOOLEAN
      /\ packet = Header(packet.has_af, packet.has_payload, packet.length)
  BY <1>2, WrittenIs
<1>4. packet = [sync |-> packet.sync, has_af |-> packet.has_af,
                has_payload |-> packet.has_payload, length |-> packet.length,
                damaged |-> packet.damaged]
  BY <1>3 DEF Header
<1>5. QED BY <1>2, <1>3, <1>4 DEF PacketInv

LEMMA DamageKeepsInv == PacketInv /\ DamagePacket => PacketInv'
<1>1. SUFFICES ASSUME PacketInv, DamagePacket PROVE PacketInv'
  OBVIOUS
<1>2. \A n \in 0..255 : n \in Nat
  OBVIOUS
<1> DEFINE Made(s, a, b, n) ==
             packet' = [sync |-> s, has_af |-> a, has_payload |-> b, length |-> n,
                        damaged |-> TRUE]
<1>3. \E s, a, b \in BOOLEAN, n \in Nat : Made(s, a, b, n)
  <2>1. CASE packet' = [packet EXCEPT !.damaged = TRUE, !.sync = FALSE]
    <3>1. Made(FALSE, packet.has_af, packet.has_payload, packet.length)
      BY <1>1, <2>1 DEF PacketInv
    <3>2. QED BY <1>1, <3>1 DEF PacketInv
  <2>2. ASSUME NEW has_af \in BOOLEAN, NEW has_payload \in BOOLEAN,
               packet' = [packet EXCEPT !.damaged = TRUE, !.has_af = has_af,
                                        !.has_payload = has_payload]
        PROVE  \E s, a, b \in BOOLEAN, n \in Nat : Made(s, a, b, n)
    <3>1. Made(packet.sync, has_af, has_payload, packet.length)
      BY <1>1, <2>2 DEF PacketInv
    <3>2. QED BY <1>1, <3>1 DEF PacketInv
  <2>3. ASSUME NEW length \in 0..255,
               packet' = [packet EXCEPT !.damaged = TRUE, !.length = length]
        PROVE  \E s, a, b \in BOOLEAN, n \in Nat : Made(s, a, b, n)
    <3>1. Made(packet.sync, packet.has_af, packet.has_payload, length)
      BY <1>1, <2>3 DEF PacketInv
    <3>2. QED BY <1>1, <1>2, <3>1 DEF PacketInv
  <2>4. QED BY <1>1, <2>1, <2>2, <2>3 DEF DamagePacket
<1>4. PICK s, a, b \in BOOLEAN, n \in Nat : Made(s, a, b, n)
  BY <1>3
<1>5. QED BY <1>4 DEF PacketInv

(* A part that starts in the packet.                                       *)
LEMMA PartIs ==
  ASSUME NEW from \in Nat, NEW to \in Nat, from <= to, to <= 188
  PROVE  Part(from, to).status = "some" /\ Part(from, to).bytes = from..(to - 1)
BY DEF Part, SIZE

LEMMA NoPartIs ==
  /\ NoPart.status = "none" /\ NoPart.bytes = {}
  /\ \A why : PacketError(why).status = why /\ PacketError(why).bytes = {}
BY DEF NoPart, PacketError

LEMMA FieldIs ==
  ASSUME PacketInv
  PROVE  LET af == AdaptationFieldOf(packet) IN
         \/ af.status \in {"none", "InvalidAdaptationFieldLength"} /\ af.bytes = {}
         \/ /\ af.status = "some" /\ packet.has_af /\ packet.length <= 183
            /\ packet.length >= 1
            /\ af.bytes = 5..(packet.length + 4)
<1> DEFINE af == AdaptationFieldOf(packet)
           n == packet.length
<1>0. n \in Nat
  BY DEF PacketInv
<1>1. CASE ~packet.has_af
  BY <1>1, NoPartIs DEF AdaptationFieldOf
<1>2. CASE packet.has_af /\ (\/ packet.has_payload /\ (n > 182 \/ n = 0)
                             \/ ~packet.has_payload /\ n # 183)
  <2>1. af = PacketError("InvalidAdaptationFieldLength")
    BY <1>2 DEF AdaptationFieldOf, SIZE, ADAPTATION_FIELD_OFFSET, PACKET_HEADER_SIZE
  <2>2. QED BY <2>1, NoPartIs
<1>3. CASE packet.has_af /\ ~(\/ packet.has_payload /\ (n > 182 \/ n = 0)
                              \/ ~packet.has_payload /\ n # 183)
  <2>1. n <= 183 /\ n >= 1
    BY <1>0, <1>3
  <2>2. af = Part(5, 5 + n)
    BY <1>3, <2>1
       DEF AdaptationFieldOf, MkAf, SIZE, ADAPTATION_FIELD_OFFSET, PACKET_HEADER_SIZE
  <2> HIDE DEF n, af
  <2>3. 5 + n \in Nat /\ 5 <= 5 + n /\ 5 + n <= 188 /\ (5 + n) - 1 = n + 4
    BY <1>0, <2>1
  <2>4. Part(5, 5 + n).status = "some" /\ Part(5, 5 + n).bytes = 5..((5 + n) - 1)
    <3> DEFINE to == 5 + n
    <3>1. to \in Nat /\ 5 <= to /\ to <= 188
      BY <2>3
    <3> HIDE DEF to
    <3>2. Part(5, to).status = "some" /\ Part(5, to).bytes = 5..(to - 1)
      BY <3>1, PartIs
    <3>3. QED BY <3>2 DEF to
  <2>5. af.status = "some" /\ af.bytes = 5..(n + 4)
    BY <2>2, <2>3, <2>4
  <2>6. QED BY <1>3, <2>1, <2>5 DEF n, af
<1>4. QED BY <1>1, <1>2, <1>3

LEMMA OffsetIs ==
  ASSUME PacketInv
  PROVE  /\ ContentOffset(packet) \in Nat
         /\ packet.has_af => ContentOffset(packet) = packet.length + 5
         /\ ~packet.has_af => ContentOffset(packet) = 4
BY DEF PacketInv, ContentOffset, ADAPTATION_FIELD_OFFSET, PACKET_HEADER_SIZE

LEMMA PayloadIs ==
  ASSUME PacketInv
  PROVE  LET payload == PayloadOf(packet)
             c == ContentOffset(packet)
         IN \/ /\ payload.status = "none" /\ payload.bytes = {}
               /\ ~packet.has_payload \/ c = 188
            \/ payload.status = "PayloadOutOfBounds" /\ payload.bytes = {} /\ c > 188
            \/ payload.status = "some" /\ c < 188 /\ payload.bytes = c..187
<1> DEFINE payload == PayloadOf(packet)
           c == ContentOffset(packet)
<1>0. c \in Nat
  BY OffsetIs
<1> HIDE DEF c
<1>1. CASE ~packet.has_payload \/ c = 188
  BY <1>1, NoPartIs DEF PayloadOf, SIZE, c
<1>2. CASE packet.has_payload /\ c > 188
  <2>1. payload = PacketError("PayloadOutOfBounds")
    BY <1>0, <1>2 DEF PayloadOf, SIZE, c
  <2>2. QED BY <1>2, <2>1, NoPartIs DEF c
<1>3. CASE packet.has_payload /\ c < 188
  <2>1. payload = Part(c, 188)
    BY <1>0, <1>3 DEF PayloadOf, SIZE, c
  <2>2. payload.status = "some" /\ payload.bytes = c..187
    BY <1>0, <1>3, <2>1, PartIs
  <2>3. QED BY <1>3, <2>2 DEF c
<1>4. QED BY <1>0, <1>1, <1>2, <1>3 DEF c

LEMMA DividedByInv == PacketInv => PacketIsDivided
<1> SUFFICES ASSUME PacketInv PROVE PacketIsDivided
  OBVIOUS
<1> DEFINE af == AdaptationFieldOf(packet)
           payload == PayloadOf(packet)
           c == ContentOffset(packet)
           n == packet.length
<1>1. /\ n \in Nat /\ c \in Nat
      /\ packet.has_af => c = n + 5
  BY OffsetIs DEF PacketInv
<1>2. \/ af.status \in {"none", "InvalidAdaptationFieldLength"} /\ af.bytes = {}
      \/ af.status = "some" /\ packet.has_af /\ n <= 183 /\ n >= 1 /\ af.bytes = 5..(n + 4)
  BY FieldIs
<1>3. \/ payload.status = "none" /\ payload.bytes = {} /\ (~packet.has_payload \/ c = 188)
      \/ payload.status = "PayloadOutOfBounds" /\ payload.bytes = {} /\ c > 188
      \/ payload.status = "some" /\ c < 188 /\ payload.bytes = c..187
  BY PayloadIs
<1>4. ASSUME ~packet.damaged
      PROVE  /\ TryNew(packet) = "ok"
             /\ c + Cardinality(payload.bytes) = 188
             /\ packet.has_af => af.bytes = 5..(c - 1)
  <2>1. packet \in WrittenPackets
    BY <1>4 DEF PacketInv
  <2>2. /\ packet.sync = TRUE
        /\ \/ packet.has_af = FALSE /\ packet.has_payload = TRUE
           \/ packet.has_af = TRUE /\ packet.has_payload = TRUE /\ n <= 182
           \/ packet.has_af = TRUE /\ packet.has_payload = FALSE /\ n = 183
    BY <2>1, WrittenIs
  <2>3. c <= 188 /\ (~packet.has_payload => c = 188)
    <3>1. ~packet.has_af => c = 4
      BY OffsetIs
    <3> HIDE DEF c, n
    <3>2. QED BY <1>1, <2>2, <3>1
  <2>4. TryNew(packet) = "ok"
    BY <2>2 DEF TryNew
  <2>5. c + Cardinality(payload.bytes) = 188
    <3> HIDE DEF c, payload
    <3>1. CASE payload.bytes = {} /\ c = 188
      BY <3>1, FS_EmptySet
    <3>2. CASE c < 188 /\ payload.bytes = c..187
      <4>1. Cardinality(c..187) = 187 - c + 1
        BY <1>1, <3>2, FS_Interval
      <4>2. QED BY <1>1, <3>2, <4>1
    <3>3. QED BY <1>1, <1>3, <2>3, <3>1, <3>2
  <2>6. ASSUME packet.has_af
        PROVE  af.bytes = 5..(c - 1)
    <3>1. c = n + 5
      BY <1>1, <2>6
    <3> HIDE DEF c, n, af
    <3>2. CASE af.bytes = 5..(n + 4)
      <4>1. c - 1 = n + 4
        BY <1>1, <3>1
      <4>2. QED BY <3>2, <4>1
    <3>3. CASE af.bytes # 5..(n + 4)
      <4>1. af.bytes = {} /\ af.status \in {"none", "InvalidAdaptationFieldLength"}
        BY <1>2, <3>3
      <4>2. n = 0
        <5>1. SUFFICES ASSUME n # 0 PROVE af.status = "some"
          BY <4>1
        <5>2. ~(\/ packet.has_payload /\ (n > 182 \/ n = 0)
                \/ ~packet.has_payload /\ n # 183)
          <6>1. CASE packet.has_payload
            <7>1. n <= 182
              BY <2>2, <2>6, <6>1 DEF n
            <7> HIDE DEF n
            <7>2. QED BY <1>1, <5>1, <6>1, <7>1
          <6>2. CASE ~packet.has_payload
            BY <2>2, <2>6, <6>2
          <6>3. QED BY <6>1, <6>2
        <5>3. af = Part(5, 5 + n)
          BY <2>6, <5>1, <5>2
             DEF af, n, AdaptationFieldOf, MkAf, SIZE, ADAPTATION_FIELD_OFFSET,
                 PACKET_HEADER_SIZE
        <5>4. 5 + n \in Nat /\ 5 <= 5 + n /\ 5 + n <= 188
          BY <1>1, <2>3, <3>1
        <5>5. QED BY <5>3, <5>4, PartIs
      <4>3. c - 1 = 4
        BY <3>1, <4>2
      <4>4. 5..4 = {}
        OBVIOUS
      <4>5. QED BY <4>1, <4>3, <4>4
    <3>4. QED BY <3>2, <3>3
  <2>7. QED BY <2>4, <2>5, <2>6
<1>5. "panic" \notin {af.status, payload.status}
  BY <1>2, <1>3
<1>6. af.bytes \cap payload.bytes = {}
  <2> HIDE DEF af, payload, c, n
  <2>1. CASE af.bytes = {} \/ payload.bytes = {}
    BY <2>1
  <2>2. CASE packet.has_af /\ af.bytes = 5..(n + 4) /\ payload.bytes = c..187
    BY <1>1, <2>2
  <2>3. QED BY <1>2, <1>3, <2>1, <2>2
<1>7. payload.status = "some" => payload.bytes # {}
  <2> HIDE DEF payload, c
  <2>1. SUFFICES ASSUME payload.status = "some" PROVE c \in payload.bytes
    OBVIOUS
  <2>2. c < 188 /\ payload.bytes = c..187
    BY <1>3, <2>1
  <2>3. QED BY <1>1, <2>2
<1>8. af.status = "some" /\ payload.status = "some" =>
        5..187 = af.bytes \cup payload.bytes
  <2> HIDE DEF af, payload, c, n
  <2>1. SUFFICES ASSUME af.status = "some", payload.status = "some"
                 PROVE  5..187 = af.bytes \cup payload.bytes
    OBVIOUS
  <2>2. /\ n <= 183 /\ n >= 1 /\ af.bytes = 5..(n + 4) /\ c < 188 /\ payload.bytes = c..187
        /\ c = n + 5
    BY <1>1, <1>2, <1>3, <2>1
  <2>3. \A i \in Int : (i \in 5..(n + 4) \/ i \in c..187) <=> i \in 5..187
    BY <1>1, <2>2
  <2>4. \A i : i \in 5..(n + 4) \/ i \in c..187 \/ i \in 5..187 => i \in Int
    OBVIOUS
  <2>5. QED BY <2>2, <2>3, <2>4
<1>9. ADAPTATION_FIELD_OFFSET = 5 /\ SIZE = 188 /\ SIZE - 1 = 187
  BY DEF ADAPTATION_FIELD_OFFSET, PACKET_HEADER_SIZE, SIZE
<1> HIDE DEF af, payload, c
<1>10. QED
  BY <1>4, <1>5, <1>6, <1>7, <1>8, <1>9, Zenon DEF PacketIsDivided, af, payload, c

(* Whatever the bits and the length byte of a header say, the accessors of *)
(* Packet stay within its 188 bytes and its parts do not overlap; those of *)
(* a packet that was written as it should be are all of it.                *)
THEOREM IsDivided == PacketSpec => []PacketIsDivided
<1>1. PacketInv /\ UNCHANGED packet => PacketInv'
  BY DEF PacketInv
<1>2. PacketInv /\ [DamagePacket]_packet => PacketInv'
  BY <1>1, DamageKeepsInv
<1>3. QED BY PacketInitInv, <1>2, DividedByInv, PTL DEF PacketSpec
-------------------------------------------------------------------------------
(* Timestamps.                                                             *)

(* The clock shows the kept timestamp plus what has elapsed, brought back  *)
(* into its range.                                                         *)
ClockInv ==
  /\ since \in Timestamp
  /\ current \in Timestamp
  /\ elapsed \in Distances
  /\ \/ laps = 0 /\ current = since + elapsed
     \/ laps = 1 /\ current = since + elapsed - (MAX + 1)
     \/ laps = -1 /\ current = since + elapsed + (MAX + 1)

(* MAX \div 2 is one less than half the range.                             *)
LEMMA Halves ==
  /\ HalfRange \in Nat \ {0}
  /\ MAX \in Nat
  /\ MAX + 1 = 2 * HalfRange
  /\ MAX \div 2 = HalfRange - 1
BY MaxAssumption, SMTT(30) DEF MaxAssumption, HalfRange

LEMMA ClockInitInv == ClockInit => ClockInv
BY Halves DEF ClockInit, ClockInv, Timestamp, Distances

LEMMA ClockNextInv == ClockInv /\ [ClockNext]_clockVars => ClockInv'
<1> SUFFICES ASSUME ClockInv, [ClockNext]_clockVars PROVE ClockInv'
  OBVIOUS
<1>1. CASE Keep
  BY <1>1, Halves DEF Keep, ClockInv, Timestamp, Distances
<1>2. ASSUME NEW ticks \in Distances, Tick(ticks) PROVE ClockInv'
  \* Less than a whole range from the kept timestamp, the clock can be one
  \* lap ahead or one behind, and not two.
  <2>1. CASE laps = 0
    BY <1>2, <2>1, Halves DEF Tick, ClockInv, Timestamp, Distances
  <2>2. CASE laps = 1
    BY <1>2, <2>2, Halves DEF Tick, ClockInv, Timestamp, Distances
  <2>3. CASE laps = -1
    BY <1>2, <2>3, Halves DEF Tick, ClockInv, Timestamp, Distances
  <2>4. QED BY <2>1, <2>2, <2>3 DEF ClockInv
<1>3. CASE UNCHANGED clockVars
  BY <1>3 DEF clockVars, ClockInv
<1>4. QED BY <1>1, <1>2, <1>3 DEF ClockNext

LEMMA ClockInvWrap == ClockInv => WrapIsSeen
BY Halves DEF ClockInv, WrapIsSeen, LikelyWrappedSince, Timestamp, Distances

(* likely_wrapped_since() misses no wrap-around of the clock and imagines  *)
(* none, if it is asked about timestamps within half the range.            *)
THEOREM WrapSeen == ClockSpec => []WrapIsSeen
BY ClockInitInv, ClockNextInv, ClockInvWrap, PTL DEF ClockSpec

-------------------------------------------------------------------------------
(* SectionPipeline.                                                        *)

-------------------------------------------------------------------------------
(* What each check has established for those that come after it.           *)

PassedHeader ==
  stage \in {"crc", "processor"} =>
    section.kind # "compact" /\ section.syntax = TRUE

PassedCrc ==
  stage = "processor" => section.intact = TRUE /\ DataLen >= LeastForCrc

OneTrueError ==
  /\ stage # "refused" => errors = << >>
  /\ stage = "refused" => \E error : errors = <<error>> /\ ErrorIsTrue(error)

PipelineInv ==
  /\ section \in Sections
  /\ stage \in {"header", "crc", "processor", "refused", "handed on"}
  /\ PassedHeader /\ PassedCrc /\ OneTrueError /\ OnlyTheTableIsRead

(* The offsets, in terms of the two numbers that the header gives.         *)
Offsets(n, info) ==
  /\ section.length = n /\ section.info = info
  /\ DataLen = n + 3 /\ BodyStart = 8 /\ BodyEnd = n - 1
  /\ DescriptorEnd(section.info) = info + 4

LEMMA HeaderIsNumbers ==
  ASSUME section \in Sections
  PROVE  \E n, info \in Nat : Offsets(n, info)
<1> DEFINE n == section.length
           info == section.info
<1>1. n \in SectionLengths /\ info \in InfoLengths
  BY DEF Sections
<1> HIDE DEF n, info
<1>2. n \in Nat /\ info \in Nat
  <2>1. Lengths12 \subseteq Nat
    BY DEF Lengths12
  <2>2. QED BY <1>1, <2>1, LengthAssumption
<1>3. DataLen = COMMON_SIZE + n /\ DescriptorEnd(section.info) = PMT_HEADER + info
  BY DEF DataLen, DescriptorEnd, n, info
<1>4. BodyStart = COMMON_SIZE + SYNTAX_SIZE /\ BodyEnd = DataLen - CRC_SIZE
  BY DEF BodyStart, BodyEnd
<1>5. DataLen = n + 3 /\ DescriptorEnd(section.info) = info + 4
  BY <1>2, <1>3 DEF COMMON_SIZE, PMT_HEADER
<1>6. BodyStart = 8 /\ BodyEnd = n - 1
  BY <1>2, <1>4, <1>5 DEF COMMON_SIZE, SYNTAX_SIZE, CRC_SIZE
<1>7. Offsets(n, info)
  BY <1>5, <1>6 DEF Offsets, n, info
<1>8. QED BY <1>2, <1>7

LEMMA TooLargeIsTrue ==
  ASSUME NEW what \in {"PsiSectionTooLarge", "SectionTooLarge"}, NEW bound,
         section.length > bound
  PROVE  ErrorIsTrue(Error(what, section.length, bound))
BY DEF ErrorIsTrue, Error

LEMMA TooShortIsTrue ==
  ASSUME NEW what \in {"SectionDataTooShort", "SectionTooSmallForCrc", "PmtParseError"},
         NEW actual, NEW bound, actual < bound, actual <= DataLen
  PROVE  ErrorIsTrue(Error(what, actual, bound))
BY DEF ErrorIsTrue, Error

LEMMA OtherwiseIsTrue ==
  ASSUME NEW what \in {"UnexpectedSectionSyntaxIndicator", "CrcCheckFailed", "InvalidTableId"},
         NEW actual, NEW bound, actual # bound
  PROVE  ErrorIsTrue(Error(what, actual, bound))
BY DEF ErrorIsTrue, Error

(* A check that refuses: all there is to show is that the error is true.   *)
LEMMA RefuseKeepsInv ==
  ASSUME PipelineInv, stage # "refused", NEW error, Refuse(error), ErrorIsTrue(error)
  PROVE  PipelineInv'
<1>1. /\ stage' = "refused" /\ section' = section /\ errors' = << >> \o <<error>>
  BY DEF Refuse, Outcome, PipelineInv, OneTrueError
<1>2. errors' = <<error>>
  <2>1. <<error>> \in Seq({error})
    OBVIOUS
  <2>2. QED BY <1>1, <2>1, ConcatEmptySeq
<1>3. ErrorIsTrue(error)'
  BY <1>1 DEF ErrorIsTrue, DataLen
<1>4. OneTrueError'
  BY <1>1, <1>2, <1>3 DEF OneTrueError, ErrorIsTrue, DataLen
<1>5. QED
  BY <1>1, <1>4 DEF PipelineInv, PassedHeader, PassedCrc, OnlyTheTableIsRead

(* A check that passes, or hands on.                                       *)
LEMMA NoErrorKeepsErrors ==
  ASSUME PipelineInv, stage # "refused", NEW next, next # "refused", Outcome(next, << >>)
  PROVE  section' = section /\ stage' = next /\ OneTrueError'
<1>1. section' = section /\ stage' = next /\ errors' = << >> \o << >>
  BY DEF Outcome, PipelineInv, OneTrueError
<1>2. << >> \o << >> = << >>
  <2>1. << >> \in Seq({})
    OBVIOUS
  <2>2. QED BY <2>1, ConcatEmptySeq
<1>3. QED BY <1>1, <1>2 DEF OneTrueError

-------------------------------------------------------------------------------
(* The checks, one after the other.                                        *)

LEMMA HeaderRefusedKeepsInv ==
  ASSUME PipelineInv, HeaderRefused
  PROVE  PipelineInv'
<1>a. stage # "refused"
  BY DEF HeaderRefused
<1>b. PICK n, info \in Nat : Offsets(n, info)
  BY HeaderIsNumbers DEF PipelineInv
<1>1. CASE Refuse(Error("UnexpectedSectionSyntaxIndicator", 1, 0))
  BY <1>a, <1>1, OtherwiseIsTrue, RefuseKeepsInv
<1>2. CASE section.length > SECTION_LIMIT
           /\ Refuse(Error("PsiSectionTooLarge", section.length, SECTION_LIMIT))
  BY <1>a, <1>2, TooLargeIsTrue, RefuseKeepsInv
<1>3. CASE /\ section.length < SYNTAX_SIZE
           /\ Refuse(Error("SectionDataTooShort", COMMON_SIZE + section.length,
                           COMMON_SIZE + SYNTAX_SIZE))
  <2>1. /\ COMMON_SIZE + section.length < COMMON_SIZE + SYNTAX_SIZE
        /\ COMMON_SIZE + section.length <= DataLen
    <3>1. section.length = n /\ DataLen = n + 3 /\ n < SYNTAX_SIZE
      BY <1>b, <1>3 DEF Offsets
    <3>2. COMMON_SIZE + n < COMMON_SIZE + SYNTAX_SIZE /\ COMMON_SIZE + n <= n + 3
      BY <3>1 DEF COMMON_SIZE, SYNTAX_SIZE
    <3>3. QED BY <3>1, <3>2
  <2>2. QED BY <1>a, <1>3, <2>1, TooShortIsTrue, RefuseKeepsInv
<1>4. QED BY <1>1, <1>2, <1>3 DEF HeaderRefused

LEMMA HeaderValidKeepsInv ==
  ASSUME PipelineInv, HeaderValid
  PROVE  PipelineInv'
<1>a. stage # "refused"
  BY DEF HeaderValid
<1>1. CASE section.kind = "compact" /\ HandOn(0, DataLen)
  <2>1. section' = section /\ stage' = "handed on" /\ OneTrueError'
    BY <1>a, <1>1, NoErrorKeepsErrors DEF HandOn
  <2>2. QED
    BY <1>1, <2>1 DEF PipelineInv, PassedHeader, PassedCrc, OnlyTheTableIsRead
<1>2. CASE section.kind # "compact" /\ Pass("crc")
  <2>1. section' = section /\ stage' = "crc" /\ OneTrueError'
    BY <1>a, <1>2, NoErrorKeepsErrors DEF Pass
  <2>2. section.syntax = TRUE
    BY <1>2 DEF HeaderValid, SyntaxFits, PipelineInv, Sections
  <2>3. QED
    BY <1>2, <2>1, <2>2 DEF PipelineInv, PassedHeader, PassedCrc, OnlyTheTableIsRead
<1>3. QED BY <1>1, <1>2 DEF HeaderValid

LEMMA CheckCrcKeepsInv ==
  ASSUME PipelineInv, CheckCrc
  PROVE  PipelineInv'
<1>a. stage = "crc" /\ section.kind # "compact" /\ section.syntax = TRUE
  BY DEF CheckCrc, PipelineInv, PassedHeader
<1>b. DataLen <= DataLen
  <2>1. PICK n, info \in Nat : Offsets(n, info)
    BY HeaderIsNumbers DEF PipelineInv
  <2>2. DataLen = n + 3
    BY <2>1 DEF Offsets
  <2>3. QED BY <2>2
<1>1. CASE DataLen < LeastForCrc /\ Refuse(Error("SectionTooSmallForCrc", DataLen, LeastForCrc))
  BY <1>a, <1>b, <1>1, TooShortIsTrue, RefuseKeepsInv
<1>2. CASE Refuse(Error("CrcCheckFailed", 0, 1))
  BY <1>a, <1>2, OtherwiseIsTrue, RefuseKeepsInv
<1>3. CASE DataLen >= LeastForCrc /\ section.intact /\ Pass("processor")
  <2>1. section' = section /\ stage' = "processor" /\ OneTrueError'
    BY <1>a, <1>3, NoErrorKeepsErrors DEF Pass
  <2>2. DataLen' = DataLen /\ section.intact = TRUE
    BY <1>3, <2>1 DEF DataLen, PipelineInv, Sections
  <2>3. PassedCrc'
    BY <1>3, <2>1, <2>2 DEF PassedCrc, LeastForCrc
  <2>4. QED
    BY <1>a, <2>1, <2>3 DEF PipelineInv, PassedHeader, OnlyTheTableIsRead
<1>4. QED BY <1>a, <1>1, <1>2, <1>3 DEF CheckCrc

(* What the processors may rely on.                                        *)
LEMMA AtProcessor ==
  ASSUME PipelineInv, stage = "processor"
  PROVE  ~CannotSlice /\ \E n, info \in Nat : n >= 9 /\ Offsets(n, info)
<1>1. section \in Sections /\ DataLen >= LeastForCrc
  BY DEF PipelineInv, PassedCrc
<1>2. PICK n, info \in Nat : Offsets(n, info)
  BY <1>1, HeaderIsNumbers
<1>3. DataLen = n + 3 /\ BodyStart = 8 /\ BodyEnd = n - 1
  BY <1>2 DEF Offsets
<1>4. n >= 9
  BY <1>1, <1>3 DEF LeastForCrc, COMMON_SIZE, SYNTAX_SIZE, CRC_SIZE
<1>5. ~CannotSlice
  BY <1>3, <1>4 DEF CannotSlice
<1>6. QED BY <1>2, <1>4, <1>5

LEMMA TooLargeKeepsInv ==
  ASSUME PipelineInv, stage = "processor", TooLarge, RefuseTooLarge
  PROVE  PipelineInv'
BY TooLargeIsTrue, RefuseKeepsInv DEF TooLarge, RefuseTooLarge

LEMMA WrongIdKeepsInv ==
  ASSUME PipelineInv, stage = "processor", WrongId, RefuseId
  PROVE  PipelineInv'
BY OtherwiseIsTrue, RefuseKeepsInv DEF WrongId, RefuseId

LEMMA HandOnKeepsInv ==
  ASSUME PipelineInv, stage = "processor", ~TooLarge, ~WrongId,
         NEW from \in Int, HandOn(from, BodyEnd),
         from >= 8, section.kind = "pmt" => from >= 12, from <= BodyEnd
  PROVE  PipelineInv'
<1>a. PICK n, info \in Nat : n >= 9 /\ Offsets(n, info)
  BY AtProcessor
<1>1. section' = section /\ stage' = "handed on" /\ OneTrueError'
  BY NoErrorKeepsErrors DEF HandOn
<1>2. body'.from = from /\ body'.to = BodyEnd
  BY DEF HandOn
<1>3. DataLen' = DataLen
  BY <1>1 DEF DataLen
<1>4. ~(n > SECTION_LENGTH_LIMIT) /\ DataLen = n + 3 /\ BodyEnd = n - 1
  BY <1>a DEF TooLarge, Offsets
<1>5. section.intact /\ section.table_id = TableId[section.kind]
  BY DEF WrongId, PipelineInv, PassedCrc
<1>6. DataLen <= 1024 /\ BodyEnd = DataLen - CRC_SIZE
  BY <1>4 DEF CRC_SIZE, SECTION_LENGTH_LIMIT
<1>7. COMMON_SIZE + SYNTAX_SIZE + (IF section.kind = "pmt" THEN PMT_HEADER ELSE 0) <= from
  BY DEF COMMON_SIZE, SYNTAX_SIZE, PMT_HEADER
<1>8. OnlyTheTableIsRead'
  <2>1. section'.intact /\ section'.table_id = TableId[section'.kind]
    BY <1>1, <1>5
  <2>2. COMMON_SIZE + SYNTAX_SIZE + (IF section'.kind = "pmt" THEN PMT_HEADER ELSE 0)
          <= body'.from
    BY <1>1, <1>2, <1>7
  <2>3. DataLen' <= 1024 /\ body'.from <= body'.to /\ body'.to = DataLen' - CRC_SIZE
    BY <1>2, <1>3, <1>6
  <2> HIDE DEF DataLen
  <2>4. QED BY <2>1, <2>2, <2>3, Zenon DEF OnlyTheTableIsRead
<1>9. QED BY <1>1, <1>8 DEF PipelineInv, PassedHeader, PassedCrc

LEMMA PatKeepsInv ==
  ASSUME PipelineInv, PatSection \/ TsdtSection
  PROVE  PipelineInv'
<1>a. stage = "processor" /\ section.kind # "pmt"
  BY DEF PatSection, TsdtSection
<1>b. ~CannotSlice
  BY <1>a, AtProcessor
<1>c. PICK n, info \in Nat : n >= 9 /\ Offsets(n, info)
  BY <1>a, AtProcessor
<1>d. BodyStart = 8 /\ BodyEnd = n - 1
  BY <1>c DEF Offsets
<1>1. CASE TooLarge /\ RefuseTooLarge
  BY <1>a, <1>1, TooLargeKeepsInv
<1>2. CASE WrongId /\ RefuseId
  BY <1>a, <1>2, WrongIdKeepsInv
<1>3. CASE ~TooLarge /\ ~WrongId /\ HandOn(BodyStart, BodyEnd)
  <2>1. BodyStart \in Int /\ BodyStart >= 8 /\ BodyStart <= BodyEnd
    BY <1>c, <1>d
  <2>2. QED BY <1>a, <1>3, <2>1, HandOnKeepsInv
<1>4. QED BY <1>a, <1>b, <1>1, <1>2, <1>3 DEF PatSection, TsdtSection

LEMMA PmtKeepsInv ==
  ASSUME PipelineInv, PmtSection
  PROVE  PipelineInv'
<1> DEFINE size == BodyEnd - BodyStart
           start == DescriptorEnd(section.info)
<1>a. stage = "processor" /\ section.kind = "pmt"
  BY DEF PmtSection
<1>b. ~CannotSlice
  BY <1>a, AtProcessor
<1>c. PICK n, info \in Nat : n >= 9 /\ Offsets(n, info)
  BY <1>a, AtProcessor
<1>d. /\ size <= DataLen /\ size \in Nat /\ start \in Nat /\ start >= 4
      /\ BodyStart = 8 /\ BodyStart + size = BodyEnd
  <2>1. BodyStart = 8 /\ BodyEnd = n - 1 /\ DataLen = n + 3 /\ start = info + 4
    BY <1>c DEF Offsets
  <2> HIDE DEF start
  <2>2. QED BY <1>c, <2>1
<1>1. CASE TooLarge /\ RefuseTooLarge
  BY <1>a, <1>1, TooLargeKeepsInv
<1>2. CASE size < PMT_HEADER /\ Refuse(Error("PmtParseError", size, PMT_HEADER))
  <2> HIDE DEF size
  <2>1. ErrorIsTrue(Error("PmtParseError", size, PMT_HEADER))
    BY <1>d, <1>2, TooShortIsTrue
  <2>2. QED BY <1>a, <1>2, <2>1, RefuseKeepsInv
<1>3. CASE size < start /\ Refuse(Error("PmtParseError", size, start))
  <2> HIDE DEF size, start
  <2>1. ErrorIsTrue(Error("PmtParseError", size, start))
    BY <1>d, <1>3, TooShortIsTrue
  <2>2. QED BY <1>a, <1>3, <2>1, RefuseKeepsInv
<1>4. CASE WrongId /\ RefuseId
  BY <1>a, <1>4, WrongIdKeepsInv
<1>5. CASE ~TooLarge /\ size >= start /\ ~WrongId /\ HandOn(BodyStart + start, BodyEnd)
  <2> HIDE DEF size, start
  <2>1. BodyStart + start \in Int /\ BodyStart + start <= BodyEnd /\ BodyStart + start >= 12
        /\ BodyStart + start >= 8
    BY <1>d, <1>5
  <2> DEFINE from == BodyStart + start
  <2> HIDE DEF from
  <2>2. from \in Int /\ from <= BodyEnd /\ from >= 12 /\ from >= 8 /\ HandOn(from, BodyEnd)
    BY <1>5, <2>1 DEF from
  <2>3. QED BY <1>a, <1>5, <2>2, HandOnKeepsInv
<1>6. QED BY <1>a, <1>b, <1>1, <1>2, <1>3, <1>4, <1>5 DEF PmtSection

LEMMA PipelineInvariant == PipelineSpec => []PipelineInv
<1>1. PipelineInit => PipelineInv
  BY DEF PipelineInit, PipelineInv, PassedHeader, PassedCrc, OneTrueError, OnlyTheTableIsRead
<1>2. PipelineInv /\ [PipelineNext]_pipelineVars => PipelineInv'
  <2> SUFFICES ASSUME PipelineInv, [PipelineNext]_pipelineVars
               PROVE  PipelineInv'
    OBVIOUS
  <2>1. CASE PipelineNext
    BY <2>1, HeaderRefusedKeepsInv, HeaderValidKeepsInv, CheckCrcKeepsInv, PatKeepsInv,
       PmtKeepsInv DEF PipelineNext
  <2>2. CASE UNCHANGED pipelineVars
    <3>1. section' = section /\ stage' = stage /\ errors' = errors /\ body' = body
      BY <2>2 DEF pipelineVars
    <3>2. OnlyTheTableIsRead'
      <4>1. DataLen' = DataLen
        BY <3>1 DEF DataLen
      <4>2. ASSUME stage = "handed on", section.kind # "compact"
            PROVE  /\ section'.intact /\ section'.table_id = TableId[section'.kind]
                   /\ DataLen' <= 1024
                   /\ COMMON_SIZE + SYNTAX_SIZE
                        + (IF section'.kind = "pmt" THEN PMT_HEADER ELSE 0) <= body'.from
                   /\ body'.from <= body'.to
                   /\ body'.to = DataLen' - CRC_SIZE
        <5>1. /\ section.intact /\ section.table_id = TableId[section.kind]
              /\ DataLen <= 1024
              /\ COMMON_SIZE + SYNTAX_SIZE
                   + (IF section.kind = "pmt" THEN PMT_HEADER ELSE 0) <= body.from
              /\ body.from <= body.to
              /\ body.to = DataLen - CRC_SIZE
          BY <4>2, Zenon DEF PipelineInv, OnlyTheTableIsRead
        <5>2. QED BY <3>1, <4>1, <5>1, Zenon
      <4> HIDE DEF DataLen
      <4>3. QED BY <3>1, <4>2, Zenon DEF OnlyTheTableIsRead
    <3>3. PassedCrc'
      BY <3>1 DEF PipelineInv, PassedCrc, DataLen, LeastForCrc
    <3>4. OneTrueError'
      BY <3>1, Zenon DEF PipelineInv, OneTrueError, ErrorIsTrue, DataLen
    <3>5. QED BY <3>1, <3>2, <3>3, <3>4 DEF PipelineInv, PassedHeader
  <2>3. QED BY <2>1, <2>2
<1>3. QED BY <1>1, <1>2, PTL DEF PipelineSpec

-------------------------------------------------------------------------------
(* What is handed to the code that reads a table's entries is the table    *)
(* and nothing else, whatever section_length and program_info_length say   *)
(* (section() of the processors, PmtSection::streams()).                   *)
THEOREM OnlyTableIsRead == PipelineSpec => []OnlyTheTableIsRead
<1>1. PipelineInv => OnlyTheTableIsRead
  BY DEF PipelineInv
<1>2. QED BY <1>1, PipelineInvariant, PTL

(* No check on the way panics or slices out of bounds, and a section that  *)
(* is refused is so with one error, whose numbers are right (DemuxError).  *)
THEOREM JudgedTruly == PipelineSpec => []TrulyJudged
<1>1. PipelineInv => TrulyJudged
  <2> SUFFICES ASSUME PipelineInv
               PROVE  TrulyJudged
    OBVIOUS
  <2>1. CASE stage = "refused"
    <3>1. PICK error : errors = <<error>> /\ ErrorIsTrue(error)
      BY <2>1 DEF PipelineInv, OneTrueError
    <3>2. Len(errors) = 1 /\ DOMAIN errors = {1} /\ errors[1] = error
      BY <3>1
    <3>3. QED BY <2>1, <3>1, <3>2 DEF TrulyJudged
  <2>2. CASE stage # "refused"
    <3>1. errors = << >> /\ stage # "panic"
      BY <2>2 DEF PipelineInv, OneTrueError
    <3>2. Len(errors) = 0 /\ DOMAIN errors = {}
      BY <3>1
    <3>3. QED BY <2>2, <3>1, <3>2 DEF TrulyJudged
  <2>3. QED BY <2>1, <2>2
<1>2. QED BY <1>1, PipelineInvariant, PTL

-------------------------------------------------------------------------------
(* EntryIterators.                                                         *)

(* A set of numbers that holds 0, and with each number the next, holds all *)
(* of them: its complement would have a least member.                      *)
LEMMA AllNumbers ==
  ASSUME NEW T, 0 \in T, \A n \in Nat : n \in T => n + 1 \in T
  PROVE  \A n \in Nat : n \in T
<1> SUFFICES ASSUME NEW i \in Nat, i \notin T PROVE FALSE
  OBVIOUS
<1> DEFINE M == Nat \ T
           R0 == OpToRel(<, Nat)
<1>1. M \subseteq Nat /\ M # {}
  OBVIOUS
<1>2. \E m \in M : \A k \in M : ~(<<k, m>> \in R0)
  <2>1. IsWellFoundedOn(R0, Nat)
    BY NatLessThanWellFounded
  <2> HIDE DEF M, R0
  <2>2. QED BY <1>1, <2>1, WFMin
<1>3. PICK m \in M : \A k \in M : ~(<<k, m>> \in R0)
  BY <1>2
<1>4. m \in Nat /\ m \notin T /\ m # 0
  OBVIOUS
<1>5. m - 1 \in Nat /\ m - 1 < m /\ (m - 1) + 1 = m
  BY <1>4
<1>6. m - 1 \in M
  BY <1>4, <1>5
<1>7. <<m - 1, m>> \in R0
  BY <1>4, <1>5 DEF OpToRel
<1>8. QED BY <1>3, <1>6, <1>7

-------------------------------------------------------------------------------
(* FlattenSeq is defined by recursion over the sequences.                  *)

Flattens(f, s, n) ==
  f = [i \in 1..n |-> IF i = 1 THEN s[i] ELSE f[i - 1] \o s[i]]

FlatFunction(s) == CHOOSE f : Flattens(f, s, Len(s))

LEMMA FlattenExists ==
  ASSUME NEW s
  PROVE  \A n \in Nat : \E f : Flattens(f, s, n)
<1> DEFINE T == {n \in Nat : \E f : Flattens(f, s, n)}
<1>1. 0 \in T
  <2> DEFINE f == [i \in 1..0 |-> s[i]]
  <2>1. f = [i \in 1..0 |-> IF i = 1 THEN s[i] ELSE f[i - 1] \o s[i]]
    OBVIOUS
  <2>2. QED BY <2>1 DEF Flattens
<1>2. ASSUME NEW n \in Nat, n \in T PROVE n + 1 \in T
  <2>1. PICK f : Flattens(f, s, n)
    BY <1>2
  <2> DEFINE g == [i \in 1..(n + 1) |-> IF i = 1 THEN s[i] ELSE f[i - 1] \o s[i]]
  <2>2. ASSUME NEW i \in 1..(n + 1), i # 1 PROVE g[i - 1] = f[i - 1]
    <3>1. i - 1 \in 1..n /\ i - 1 \in 1..(n + 1)
      BY <2>2
    <3>2. f[i - 1] = IF i - 1 = 1 THEN s[i - 1] ELSE f[(i - 1) - 1] \o s[i - 1]
      BY <2>1, <3>1 DEF Flattens
    <3>3. g[i - 1] = IF i - 1 = 1 THEN s[i - 1] ELSE f[(i - 1) - 1] \o s[i - 1]
      BY <3>1
    <3>4. QED BY <3>2, <3>3
  <2>3. g = [i \in 1..(n + 1) |-> IF i = 1 THEN s[i] ELSE g[i - 1] \o s[i]]
    BY <2>2
  <2>4. \E h : Flattens(h, s, n + 1)
    BY <2>3 DEF Flattens
  <2>5. QED BY <2>4
<1> HIDE DEF T
<1>3. \A n \in Nat : n \in T
  BY <1>1, <1>2, AllNumbers
<1>4. QED BY <1>3 DEF T

LEMMA FlattenIs ==
  ASSUME NEW s, Len(s) \in Nat
  PROVE  /\ Flattens(FlatFunction(s), s, Len(s))
         /\ Len(s) # 0 => FlattenSeq(s) = FlatFunction(s)[Len(s)]
         /\ Len(s) = 0 => FlattenSeq(s) = s
<1>1. Flattens(FlatFunction(s), s, Len(s))
  BY FlattenExists DEF FlatFunction
<1>2. QED BY <1>1 DEF FlattenSeq, FlatFunction, Flattens

(* One sequence more.                                                      *)
LEMMA FlattenStep ==
  ASSUME NEW s, NEW t, NEW n \in Nat, n # 0, Len(t) = n, Len(s) = n + 1,
         \A i \in 1..n : t[i] = s[i]
  PROVE  FlattenSeq(s) = FlattenSeq(t) \o s[n + 1]
<1> DEFINE f == FlatFunction(s)
           g == FlatFunction(t)
           T == {k \in Nat : k \in 1..n => g[k] = f[k]}
<1>1. Flattens(f, s, n + 1) /\ Flattens(g, t, n)
  BY FlattenIs
<1>2. FlattenSeq(s) = f[n + 1] /\ FlattenSeq(t) = g[n]
  BY FlattenIs
<1> HIDE DEF f, g
<1>3. 0 \in T
  OBVIOUS
<1>4. ASSUME NEW k \in Nat, k \in T PROVE k + 1 \in T
  <2> SUFFICES ASSUME k + 1 \in 1..n PROVE g[k + 1] = f[k + 1]
    OBVIOUS
  <2>1. /\ g[k + 1] = IF k + 1 = 1 THEN t[k + 1] ELSE g[(k + 1) - 1] \o t[k + 1]
        /\ f[k + 1] = IF k + 1 = 1 THEN s[k + 1] ELSE f[(k + 1) - 1] \o s[k + 1]
    <3>1. k + 1 \in 1..(n + 1)
      OBVIOUS
    <3>2. QED BY <1>1, <3>1 DEF Flattens
  <2>2. t[k + 1] = s[k + 1]
    OBVIOUS
  <2>3. k + 1 # 1 => (k + 1) - 1 = k /\ k \in 1..n
    OBVIOUS
  <2>4. QED BY <1>4, <2>1, <2>2, <2>3
<1> HIDE DEF T
<1>5. \A k \in Nat : k \in T
  BY <1>3, <1>4, AllNumbers
<1>6. g[n] = f[n]
  BY <1>5 DEF T
<1>7. f[n + 1] = f[n] \o s[n + 1]
  <2>1. n + 1 \in 1..(n + 1) /\ n + 1 # 1 /\ (n + 1) - 1 = n
    OBVIOUS
  <2>2. f[n + 1] = IF n + 1 = 1 THEN s[n + 1] ELSE f[(n + 1) - 1] \o s[n + 1]
    BY <1>1, <2>1 DEF Flattens
  <2>3. QED BY <2>1, <2>2
<1>8. QED BY <1>2, <1>6, <1>7

LEMMA FlattenOne ==
  ASSUME NEW s, Len(s) = 1
  PROVE  FlattenSeq(s) = s[1]
<1>1. Len(s) \in Nat /\ Len(s) # 0
  OBVIOUS
<1>2. Flattens(FlatFunction(s), s, Len(s)) /\ FlattenSeq(s) = FlatFunction(s)[Len(s)]
  BY <1>1, FlattenIs
<1>3. Flattens(FlatFunction(s), s, 1) /\ FlattenSeq(s) = FlatFunction(s)[1]
  BY <1>2
<1>4. QED BY <1>3 DEF Flattens

-------------------------------------------------------------------------------
(* A table as it is written.                                               *)

Kinds == {"programs", "languages", "streams", "descriptors"}
Owners == Nat \cup {"PMT header", "program_info_length", "program_info"}
EntryBytes == [of : Owners, nr : Nat, flags : SUBSET (0..255), len : Nat, ok : BOOLEAN]

NthEntry(t, k) == WrittenEntry(t.kind, k, t.entries[k])
EntryLen(t, k) == EntryHeaderSize(t.kind) + t.entries[k].len
End(t, n) == Len(EntriesUpTo(t, n))

LEMMA TableIs ==
  ASSUME NEW t \in Tables
  PROVE  /\ t.kind \in Kinds /\ t.info \in Nat /\ Len(t.entries) \in Nat
         /\ \A k \in 1..Len(t.entries) :
              /\ t.entries[k].len \in Nat /\ t.entries[k].tag \in 0..255
              /\ t.kind \in {"programs", "languages"} => t.entries[k].len = 0
         /\ EntryHeaderSize(t.kind) \in Nat /\ EntryHeaderSize(t.kind) >= 2
<1>1. /\ t.kind \in Kinds /\ t.info \in Nat /\ t.entries \in Seq([len : Nat, tag : 0..255])
      /\ t.kind \in {"programs", "languages"} =>
            \A n \in 1..Len(t.entries) : t.entries[n].len = 0
  BY EntriesAssumption DEF Kinds
<1>2. EntryHeaderSize(t.kind) \in Nat /\ EntryHeaderSize(t.kind) >= 2
  BY <1>1 DEF Kinds, EntryHeaderSize
<1>3. Len(t.entries) \in Nat
  BY <1>1, LenProperties
<1>4. \A k \in 1..Len(t.entries) : t.entries[k] \in [len : Nat, tag : 0..255]
  BY <1>1, ElementOfSeq
<1>5. \A k \in 1..Len(t.entries) : t.entries[k].len \in Nat /\ t.entries[k].tag \in 0..255
  BY <1>4
<1>6. QED BY <1>1, <1>2, <1>3, <1>5

LEMMA EntryIs ==
  ASSUME NEW t \in Tables, NEW k \in 1..Len(t.entries)
  PROVE  /\ NthEntry(t, k) \in Seq(EntryBytes)
         /\ Len(NthEntry(t, k)) = EntryLen(t, k) /\ EntryLen(t, k) \in Nat
         /\ EntryLen(t, k) >= EntryHeaderSize(t.kind)
         /\ \A b \in 1..EntryLen(t, k) :
              /\ NthEntry(t, k)[b].flags = {t.entries[k].tag}
              /\ NthEntry(t, k)[b].len =
                   IF HasLength(t.kind) /\ b = EntryHeaderSize(t.kind)
                   THEN t.entries[k].len ELSE 0
<1> DEFINE n == EntryLen(t, k)
           size == EntryHeaderSize(t.kind)
           length(b) == IF HasLength(t.kind) /\ b = size THEN t.entries[k].len ELSE 0
           byte(b) == NewByte(k, b, {t.entries[k].tag}, length(b))
           e == [b \in 1..n |-> byte(b)]
<1>1. /\ size \in Nat /\ t.entries[k].len \in Nat /\ t.entries[k].tag \in 0..255 /\ k \in Nat
  <2>1. /\ size \in Nat /\ Len(t.entries) \in Nat
        /\ \A i \in 1..Len(t.entries) : t.entries[i].len \in Nat /\ t.entries[i].tag \in 0..255
    BY TableIs
  <2> HIDE DEF size
  <2>2. QED BY <2>1
<1>2. n \in Nat /\ n >= size
  BY <1>1 DEF EntryLen
<1>3. NthEntry(t, k) = e
  BY DEF NthEntry, WrittenEntry, EntryLen
<1> HIDE DEF n
<1>4. \A b \in 1..n : length(b) \in Nat
  BY <1>1
<1>5. \A b \in 1..n : /\ byte(b).flags = {t.entries[k].tag} /\ byte(b).len = length(b)
                      /\ byte(b).of = k /\ byte(b).nr = b
  BY DEF NewByte
<1>6. \A b \in 1..n : byte(b) \in EntryBytes
  <2>1. k \in Owners /\ {t.entries[k].tag} \in SUBSET (0..255)
    BY <1>1 DEF Owners
  <2>2. \A b \in 1..n : b \in Nat
    BY <1>2
  <2> HIDE DEF length
  <2>3. QED BY <1>4, <2>1, <2>2 DEF NewByte, EntryBytes
<1> HIDE DEF byte, length
<1>7. e \in [1..n -> EntryBytes]
  BY <1>6
<1>8. e \in Seq(EntryBytes) /\ Len(e) = n
  <2> HIDE DEF e
  <2>1. e \in Seq(EntryBytes)
    BY <1>2, <1>7, SeqDef
  <2>2. QED BY <1>2, <1>7, <2>1, LenProperties
<1>9. \A b \in 1..n : e[b] = byte(b)
  OBVIOUS
<1> HIDE DEF e
<1>10. \A b \in 1..n : e[b].flags = {t.entries[k].tag} /\ e[b].len = length(b)
  BY <1>5, <1>9
<1>11. QED BY <1>2, <1>3, <1>8, <1>10 DEF n, length

LEMMA UpToIs ==
  ASSUME NEW t \in Tables
  PROVE  /\ EntriesUpTo(t, 0) = << >>
         /\ \A n \in Nat : n \in 0..Len(t.entries) => EntriesUpTo(t, n) \in Seq(EntryBytes)
         /\ \A n \in Nat : n + 1 \in 1..Len(t.entries) =>
              EntriesUpTo(t, n + 1) = EntriesUpTo(t, n) \o NthEntry(t, n + 1)
<1> DEFINE N == Len(t.entries)
           s(n) == [k \in 1..n |-> NthEntry(t, k)]
<1>0. N \in Nat
  BY TableIs
<1>1. \A n : EntriesUpTo(t, n) = FlattenSeq(s(n))
  BY DEF EntriesUpTo, NthEntry
<1>2. \A k \in 1..N : NthEntry(t, k) \in Seq(EntryBytes)
  BY EntryIs
<1> HIDE DEF N
<1>3. ASSUME NEW n \in 0..N PROVE Len(s(n)) = n /\ \A i \in 1..n : s(n)[i] = NthEntry(t, i)
  <2>1. n \in Nat /\ s(n) \in [1..n -> Seq(EntryBytes)]
    BY <1>0, <1>2
  <2>2. \A i \in 1..n : s(n)[i] = NthEntry(t, i)
    OBVIOUS
  <2> HIDE DEF s
  <2>3. s(n) \in Seq(Seq(EntryBytes))
    BY <2>1, SeqDef
  <2>4. Len(s(n)) = n
    BY <2>1, <2>3, LenProperties
  <2>5. QED BY <2>2, <2>4
<1>4. s(0) = << >>
  BY DEF s
<1> HIDE DEF s
<1>5. EntriesUpTo(t, 0) = << >>
  <2>1. 0 \in 0..N
    BY <1>0
  <2>2. Len(s(0)) = 0
    BY <1>3, <2>1
  <2>3. FlattenSeq(s(0)) = s(0)
    BY <2>2, FlattenIs
  <2>4. QED BY <1>1, <1>4, <2>3
<1>6. ASSUME NEW n \in Nat, n + 1 \in 1..N
      PROVE  EntriesUpTo(t, n + 1) = EntriesUpTo(t, n) \o NthEntry(t, n + 1)
  <2>1. n \in 0..N /\ n + 1 \in 0..N /\ n + 1 \in 1..(n + 1) /\ n + 1 \in 1..N
    BY <1>0, <1>6
  <2>2. Len(s(n)) = n /\ \A i \in 1..n : s(n)[i] = NthEntry(t, i)
    BY <1>3, <2>1
  <2>3. Len(s(n + 1)) = n + 1 /\ \A i \in 1..(n + 1) : s(n + 1)[i] = NthEntry(t, i)
    BY <1>3, <2>1
  <2>4. CASE n = 0
    <3>1. Len(s(1)) = 1 /\ s(1)[1] = NthEntry(t, 1)
      BY <2>1, <2>3, <2>4
    <3>2. FlattenSeq(s(1)) = NthEntry(t, 1)
      BY <3>1, FlattenOne
    <3>3. NthEntry(t, 1) \in Seq(EntryBytes)
      BY <1>2, <2>1, <2>4
    <3>4. << >> \o NthEntry(t, 1) = NthEntry(t, 1)
      BY <3>3, ConcatEmptySeq
    <3>5. EntriesUpTo(t, 1) = EntriesUpTo(t, 0) \o NthEntry(t, 1)
      BY <1>1, <1>5, <3>2, <3>4
    <3>6. QED BY <2>4, <3>5
  <2>5. CASE n # 0
    <3>1. \A i \in 1..n : s(n)[i] = s(n + 1)[i]
      BY <2>2, <2>3
    <3>2. FlattenSeq(s(n + 1)) = FlattenSeq(s(n)) \o s(n + 1)[n + 1]
      BY <2>2, <2>3, <2>5, <3>1, FlattenStep
    <3>3. QED BY <1>1, <2>1, <2>3, <3>2
  <2>6. QED BY <2>4, <2>5
<1> DEFINE T == {n \in Nat : n \in 0..N => EntriesUpTo(t, n) \in Seq(EntryBytes)}
<1>7. 0 \in T
  BY <1>5, EmptySeq
<1>8. ASSUME NEW n \in Nat, n \in T PROVE n + 1 \in T
  <2> SUFFICES ASSUME n + 1 \in 0..N PROVE EntriesUpTo(t, n + 1) \in Seq(EntryBytes)
    OBVIOUS
  <2>1. n \in 0..N /\ n + 1 \in 1..N
    BY <1>0
  <2>2. EntriesUpTo(t, n) \in Seq(EntryBytes)
    BY <1>8, <2>1
  <2>3. NthEntry(t, n + 1) \in Seq(EntryBytes)
    BY <1>2, <2>1
  <2>4. EntriesUpTo(t, n + 1) = EntriesUpTo(t, n) \o NthEntry(t, n + 1)
    BY <1>6, <2>1
  <2>5. QED BY <2>2, <2>3, <2>4, ConcatProperties
<1> HIDE DEF T
<1>9. \A n \in Nat : n \in T
  BY <1>7, <1>8, AllNumbers
<1>10. QED BY <1>5, <1>6, <1>9 DEF T, N

LEMMA Ends ==
  ASSUME NEW t \in Tables
  PROVE  /\ End(t, 0) = 0
         /\ \A n \in 0..Len(t.entries) : End(t, n) \in Nat
         /\ \A n \in 0..Len(t.entries) : n + 1 \in 1..Len(t.entries) =>
              /\ End(t, n + 1) = End(t, n) + EntryLen(t, n + 1)
              /\ \A i \in 1..End(t, n) : EntriesUpTo(t, n + 1)[i] = EntriesUpTo(t, n)[i]
              /\ \A i \in 1..EntryLen(t, n + 1) :
                   EntriesUpTo(t, n + 1)[End(t, n) + i] = NthEntry(t, n + 1)[i]
<1> DEFINE N == Len(t.entries)
<1>0. N \in Nat
  BY TableIs
<1>1. EntriesUpTo(t, 0) = << >>
  BY UpToIs
<1>2. End(t, 0) = 0
  BY <1>1, EmptySeq DEF End
<1> HIDE DEF N
<1>3. \A n \in 0..N : n \in Nat
  BY <1>0
<1>4. \A n \in 0..N : EntriesUpTo(t, n) \in Seq(EntryBytes)
  BY <1>3, UpToIs DEF N
<1>5. \A n \in 0..N : End(t, n) \in Nat
  BY <1>4, LenProperties DEF End
<1>6. ASSUME NEW n \in 0..N, n + 1 \in 1..N
      PROVE  /\ End(t, n + 1) = End(t, n) + EntryLen(t, n + 1)
             /\ \A i \in 1..End(t, n) : EntriesUpTo(t, n + 1)[i] = EntriesUpTo(t, n)[i]
             /\ \A i \in 1..EntryLen(t, n + 1) :
                   EntriesUpTo(t, n + 1)[End(t, n) + i] = NthEntry(t, n + 1)[i]
  <2> DEFINE a == EntriesUpTo(t, n)
             b == NthEntry(t, n + 1)
             c == EntriesUpTo(t, n + 1)
  <2>1. c = a \o b
    BY <1>3, <1>6, UpToIs DEF N
  <2>2. a \in Seq(EntryBytes)
    BY <1>4
  <2>3. b \in Seq(EntryBytes) /\ Len(b) = EntryLen(t, n + 1)
    BY <1>6, EntryIs DEF N
  <2>4. Len(a) = End(t, n) /\ Len(c) = End(t, n + 1)
    BY DEF End
  <2> HIDE DEF a, b, c
  <2>5. Len(a) \in Nat /\ Len(b) \in Nat
    BY <2>2, <2>3, LenProperties
  <2>6. /\ Len(c) = Len(a) + Len(b)
        /\ \A i \in 1..(Len(a) + Len(b)) : c[i] = IF i <= Len(a) THEN a[i] ELSE b[i - Len(a)]
    BY <2>1, <2>2, <2>3, ConcatProperties
  <2>7. \A i \in 1..Len(a) : c[i] = a[i]
    BY <2>5, <2>6
  <2>8. \A i \in 1..Len(b) : c[Len(a) + i] = b[i]
    <3> TAKE i \in 1..Len(b)
    <3>1. Len(a) + i \in 1..(Len(a) + Len(b)) /\ ~(Len(a) + i <= Len(a)) /\ (Len(a) + i) - Len(a) = i
      BY <2>5
    <3>2. QED BY <2>6, <3>1
  <2>9. Len(c) = End(t, n) + EntryLen(t, n + 1)
    BY <2>3, <2>4, <2>6
  <2>10. QED BY <2>3, <2>4, <2>7, <2>8, <2>9 DEF a, b, c
<1>7. QED BY <1>2, <1>5, <1>6 DEF N

(* What follows leaves the first entries as they are.                      *)
LEMMA FirstEntriesStay ==
  ASSUME NEW t \in Tables
  PROVE  \A n \in 0..Len(t.entries) : \A m \in 0..Len(t.entries) : n <= m =>
           /\ End(t, n) <= End(t, m)
           /\ \A i \in 1..End(t, n) : EntriesUpTo(t, m)[i] = EntriesUpTo(t, n)[i]
<1> SUFFICES ASSUME NEW n \in 0..Len(t.entries), NEW m \in 0..Len(t.entries), n <= m
             PROVE  /\ End(t, n) <= End(t, m)
                    /\ \A i \in 1..End(t, n) : EntriesUpTo(t, m)[i] = EntriesUpTo(t, n)[i]
  OBVIOUS
<1> DEFINE N == Len(t.entries)
           Same(k) == /\ End(t, n) <= End(t, k)
                      /\ \A i \in 1..End(t, n) : EntriesUpTo(t, k)[i] = EntriesUpTo(t, n)[i]
           T == {k \in Nat : k \in n..N => Same(k)}
<1>0. N \in Nat /\ n \in Nat
  BY TableIs
<1> HIDE DEF N
<1>1. \A k \in 0..N : End(t, k) \in Nat
  BY Ends DEF N
<1>2. 0 \in T
  <2> SUFFICES ASSUME 0 \in n..N PROVE Same(0)
    OBVIOUS
  <2>1. n = 0
    BY <1>0
  <2>2. 0 \in 0..N
    BY <1>0
  <2>3. QED BY <1>1, <2>1, <2>2
<1>3. ASSUME NEW k \in Nat, k \in T PROVE k + 1 \in T
  <2> SUFFICES ASSUME k + 1 \in n..N PROVE Same(k + 1)
    OBVIOUS
  <2>1. CASE k + 1 = n
    <3>1. n \in 0..N /\ End(t, n) \in Nat
      BY <1>0, <1>1, <2>1
    <3>2. Same(n)
      BY <3>1
    <3> HIDE DEF Same
    <3>3. QED BY <2>1, <3>2
  <2>2. CASE k + 1 # n
    <3>1. k \in n..N /\ k \in 0..N /\ k + 1 \in 1..N
      BY <1>0, <2>2
    <3>2. Same(k)
      BY <1>3, <3>1
    <3>3. EntryLen(t, k + 1) \in Nat
      BY <3>1, EntryIs DEF N
    <3>4. /\ End(t, k + 1) = End(t, k) + EntryLen(t, k + 1)
          /\ \A i \in 1..End(t, k) : EntriesUpTo(t, k + 1)[i] = EntriesUpTo(t, k)[i]
      BY <3>1, Ends DEF N
    <3>5. End(t, n) \in Nat /\ End(t, k) \in Nat
      BY <1>0, <1>1, <3>1 DEF N
    <3>6. End(t, n) <= End(t, k + 1)
      BY <3>2, <3>3, <3>4, <3>5
    <3>7. \A i \in 1..End(t, n) : i \in 1..End(t, k)
      BY <3>2, <3>5
    <3>8. \A i \in 1..End(t, n) : EntriesUpTo(t, k + 1)[i] = EntriesUpTo(t, n)[i]
      BY <3>2, <3>4, <3>7
    <3>9. QED BY <3>6, <3>8
  <2>3. QED BY <2>1, <2>2
<1> HIDE DEF T
<1>4. \A k \in Nat : k \in T
  BY <1>2, <1>3, AllNumbers
<1>5. m \in Nat /\ m \in n..N
  BY <1>0 DEF N
<1>6. QED BY <1>4, <1>5 DEF T

(* Where an entry lies among the table's.                                  *)
LEMMA EntryAt ==
  ASSUME NEW t \in Tables, NEW n \in 0..Len(t.entries), n + 1 \in 1..Len(t.entries)
  PROVE  /\ End(t, n) + EntryLen(t, n + 1) <= End(t, Len(t.entries))
         /\ End(t, n + 1) = End(t, n) + EntryLen(t, n + 1)
         /\ \A i \in 1..EntryLen(t, n + 1) :
              EntriesUpTo(t, Len(t.entries))[End(t, n) + i] = NthEntry(t, n + 1)[i]
<1> DEFINE N == Len(t.entries)
<1>0. N \in Nat
  BY TableIs
<1>1. n + 1 \in 0..N /\ N \in 0..N /\ n + 1 <= N
  BY <1>0
<1>2. /\ End(t, n + 1) = End(t, n) + EntryLen(t, n + 1)
      /\ \A i \in 1..EntryLen(t, n + 1) :
           EntriesUpTo(t, n + 1)[End(t, n) + i] = NthEntry(t, n + 1)[i]
  BY Ends
<1>3. /\ End(t, n + 1) <= End(t, N)
      /\ \A i \in 1..End(t, n + 1) : EntriesUpTo(t, N)[i] = EntriesUpTo(t, n + 1)[i]
  BY <1>1, FirstEntriesStay
<1>4. End(t, n) \in Nat /\ EntryLen(t, n + 1) \in Nat
  BY Ends, EntryIs
<1>5. \A i \in 1..EntryLen(t, n + 1) : End(t, n) + i \in 1..End(t, n + 1)
  BY <1>2, <1>4
<1>6. QED BY <1>2, <1>3, <1>5

(* The entries of which all is among the first bytes are the first ones.   *)
LEMMA WholeOnes ==
  ASSUME NEW t \in Tables, NEW L \in Nat, NEW K,
         K = Cardinality({n \in 1..Len(t.entries) : End(t, n) <= L})
  PROVE  /\ K \in 0..Len(t.entries)
         /\ \A n \in 0..Len(t.entries) : End(t, n) <= L <=> n <= K
<1> DEFINE N == Len(t.entries)
           W == {n \in 1..N : End(t, n) <= L}
           T == {k \in Nat : k \in 0..N => \/ End(t, k) <= L
                                           \/ \E j \in 0..N : j < k /\ End(t, j) <= L /\ End(t, j + 1) > L}
<1>0. N \in Nat
  BY TableIs
<1>1. End(t, 0) = 0
  BY Ends
<1> HIDE DEF N
<1>2. \A k \in 0..N : End(t, k) \in Nat
  BY Ends DEF N
<1>3. \A i \in 0..N, j \in 0..N : i <= j => End(t, i) <= End(t, j)
  BY FirstEntriesStay DEF N
<1>4. 0 \in T
  BY <1>1
<1>5. ASSUME NEW k \in Nat, k \in T PROVE k + 1 \in T
  <2> SUFFICES ASSUME k + 1 \in 0..N
      PROVE \/ End(t, k + 1) <= L
            \/ \E j \in 0..N : j < k + 1 /\ End(t, j) <= L /\ End(t, j + 1) > L
    OBVIOUS
  <2>1. k \in 0..N
    BY <1>0
  <2>2. End(t, k + 1) \in Nat
    BY <1>2
  <2>3. CASE End(t, k) <= L
    BY <2>1, <2>2, <2>3
  <2>4. CASE \E j \in 0..N : j < k /\ End(t, j) <= L /\ End(t, j + 1) > L
    BY <2>4
  <2>5. QED BY <1>5, <2>1, <2>3, <2>4
<1> HIDE DEF T
<1>6. \A k \in Nat : k \in T
  BY <1>4, <1>5, AllNumbers
<1>7. N \in T /\ N \in 0..N
  BY <1>0, <1>6
<1>8. PICK M \in 0..N : \A n \in 0..N : End(t, n) <= L <=> n <= M
  <2>1. CASE End(t, N) <= L
    <3>1. \A n \in 0..N : End(t, n) <= End(t, N) /\ n <= N
      BY <1>0, <1>3, <1>7
    <3>2. \A n \in 0..N : End(t, n) <= L
      BY <1>2, <1>7, <2>1, <3>1
    <3>3. QED BY <1>7, <3>1, <3>2
  <2>2. CASE \E j \in 0..N : j < N /\ End(t, j) <= L /\ End(t, j + 1) > L
    <3>1. PICK j \in 0..N : j < N /\ End(t, j) <= L /\ End(t, j + 1) > L
      BY <2>2
    <3>2. j + 1 \in 0..N
      BY <1>0, <3>1
    <3>3. ASSUME NEW n \in 0..N PROVE End(t, n) <= L <=> n <= j
      <4>1. CASE n <= j
        <5>1. End(t, n) <= End(t, j)
          BY <1>3, <4>1
        <5>2. QED BY <1>2, <3>1, <4>1, <5>1
      <4>2. CASE ~(n <= j)
        <5>1. j + 1 <= n
          BY <4>2
        <5>2. End(t, j + 1) <= End(t, n)
          BY <1>3, <3>2, <5>1
        <5>3. QED BY <1>2, <3>1, <3>2, <4>2, <5>2
      <4>3. QED BY <4>1, <4>2
    <3>4. QED BY <3>3
  <2>3. QED BY <1>7, <2>1, <2>2 DEF T
<1>9. W = 1..M
  <2>1. \A n : n \in 1..N => n \in 0..N
    BY <1>0
  <2>2. \A n : n \in 1..M => n \in 1..N
    BY <1>0
  <2>3. \A n : n \in 1..N /\ n <= M => n \in 1..M
    BY <1>0
  <2>4. \A n : n \in 1..M => n <= M
    OBVIOUS
  <2>5. QED BY <1>8, <2>1, <2>2, <2>3, <2>4
<1>10. Cardinality(1..M) = M
  <2>1. M \in Int /\ 1 \in Int /\ M \in Nat
    BY <1>0
  <2>2. Cardinality(1..M) = IF 1 > M THEN 0 ELSE M - 1 + 1
    BY <2>1, FS_Interval
  <2>3. QED BY <2>1, <2>2
<1>11. K = M
  BY <1>9, <1>10 DEF N, W
<1>12. QED BY <1>8, <1>11 DEF N

(* What is cut out of a sequence.                                          *)
LEMMA CutIs ==
  ASSUME NEW S, NEW s \in Seq(S), NEW from \in Nat, NEW to \in Nat, from <= to, to <= Len(s)
  PROVE  /\ SubSeq(s, from + 1, to) \in Seq(S)
         /\ Len(SubSeq(s, from + 1, to)) = to - from
         /\ \A i \in 1..(to - from) : SubSeq(s, from + 1, to)[i] = s[from + i]
<1>1. \A i \in (from + 1)..to : s[i] \in S
  <2>1. SUFFICES ASSUME NEW i \in (from + 1)..to PROVE s[i] \in S
    OBVIOUS
  <2>2. Len(s) \in Nat
    BY LenProperties
  <2>3. i \in 1..Len(s)
    BY <2>2
  <2>4. QED BY <2>3, ElementOfSeq
<1> DEFINE m == from + 1
<1>2. m \in Int /\ to \in Int /\ m <= to + 1 /\ (to - m) + 1 = to - from
  OBVIOUS
<1>3. \A i \in m..to : s[i] \in S
  BY <1>1
<1> HIDE DEF m
<1>4. /\ SubSeq(s, m, to) \in Seq(S)
      /\ Len(SubSeq(s, m, to)) = IF m <= to THEN (to - m) + 1 ELSE 0
      /\ \A i \in 1..((to - m) + 1) : SubSeq(s, m, to)[i] = s[(m + i) - 1]
  BY <1>2, <1>3, SubSeqProperties
<1>5. Len(SubSeq(s, m, to)) = to - from
  BY <1>2, <1>4
<1>6. \A i \in 1..(to - from) : SubSeq(s, m, to)[i] = s[(m + i) - 1]
  BY <1>2, <1>4
<1>7. \A i \in 1..(to - from) : (m + i) - 1 = from + i
  BY DEF m
<1>8. QED BY <1>4, <1>5, <1>6, <1>7 DEF m

-------------------------------------------------------------------------------
(* What stands before the streams of a PMT.                                *)

HeaderPart == Field("PMT header", PMT_HEADER_SIZE - 1)
InfoLength(n) == LengthByte("program_info_length", n)
ProgramInfo(n) == Field("program_info", n)

LEMMA TableParts ==
  ASSUME NEW t
  PROVE  /\ t.kind # "streams" => WrittenTable(t) = WrittenEntries(t)
         /\ t.kind = "streams" =>
              WrittenTable(t) =
                HeaderPart \o InfoLength(t.info) \o ProgramInfo(t.info) \o WrittenEntries(t)
BY Zenon DEF WrittenTable, HeaderPart, InfoLength, ProgramInfo

LEMMA OwnersAre ==
  /\ "PMT header" \in Owners /\ "program_info_length" \in Owners
  /\ "program_info" \in Owners
BY Zenon DEF Owners

LEMMA ByteIs ==
  ASSUME NEW f \in Owners, NEW i \in Nat, NEW n \in Nat
  PROVE  NewByte(f, i, {}, n) \in EntryBytes /\ NewByte(f, i, {}, n).len = n
BY DEF NewByte, EntryBytes

LEMMA FieldIsBytes ==
  ASSUME NEW f \in Owners, NEW n \in Nat
  PROVE  Field(f, n) \in Seq(EntryBytes) /\ Len(Field(f, n)) = n
<1> DEFINE s == [i \in 1..n |-> NewByte(f, i, {}, 0)]
<1>1. Field(f, n) = s
  BY Zenon DEF Field, Byte
<1>2. \A i \in 1..n : NewByte(f, i, {}, 0) \in EntryBytes
  BY ByteIs
<1>3. s \in [1..n -> EntryBytes]
  BY <1>2
<1> HIDE DEF s
<1>4. s \in Seq(EntryBytes)
  BY <1>3, SeqDef
<1>5. Len(s) = n
  BY <1>3, <1>4, LenProperties
<1>6. QED BY <1>1, <1>4, <1>5

LEMMA LengthIsByte ==
  ASSUME NEW f \in Owners, NEW n \in Nat
  PROVE  /\ LengthByte(f, n) \in Seq(EntryBytes) /\ Len(LengthByte(f, n)) = 1
         /\ LengthByte(f, n)[1].len = n
<1> DEFINE b == NewByte(f, 1, {}, n)
<1>1. b \in EntryBytes /\ b.len = n
  BY ByteIs
<1>2. LengthByte(f, n) = <<b>>
  BY Zenon DEF LengthByte
<1> HIDE DEF b
<1>3. QED BY <1>1, <1>2

LEMMA HeaderParts ==
  ASSUME NEW n \in Nat
  PROVE  /\ HeaderPart \in Seq(EntryBytes) /\ Len(HeaderPart) = 3
         /\ InfoLength(n) \in Seq(EntryBytes) /\ Len(InfoLength(n)) = 1
         /\ InfoLength(n)[1].len = n
         /\ ProgramInfo(n) \in Seq(EntryBytes) /\ Len(ProgramInfo(n)) = n
<1> DEFINE k == PMT_HEADER_SIZE - 1
<1>1. k \in Nat /\ k = 3
  BY DEF PMT_HEADER_SIZE
<1> HIDE DEF k
<1>2. \A f \in Owners : /\ Field(f, k) \in Seq(EntryBytes) /\ Len(Field(f, k)) = k
                        /\ Field(f, n) \in Seq(EntryBytes) /\ Len(Field(f, n)) = n
  BY <1>1, FieldIsBytes
<1>3. \A f \in Owners :
        /\ LengthByte(f, n) \in Seq(EntryBytes) /\ Len(LengthByte(f, n)) = 1
        /\ LengthByte(f, n)[1].len = n
  BY LengthIsByte
<1>4. /\ Field("PMT header", k) \in Seq(EntryBytes)
      /\ Len(Field("PMT header", k)) = k
  BY <1>2, OwnersAre, Zenon
<1>5. /\ HeaderPart \in Seq(EntryBytes) /\ Len(HeaderPart) = k
  BY <1>4, Zenon DEF HeaderPart, k
<1>6. /\ InfoLength(n) \in Seq(EntryBytes) /\ Len(InfoLength(n)) = 1
      /\ InfoLength(n)[1].len = n
  BY <1>3, OwnersAre, Zenon DEF InfoLength
<1>7. ProgramInfo(n) \in Seq(EntryBytes) /\ Len(ProgramInfo(n)) = n
  BY <1>2, OwnersAre, Zenon DEF ProgramInfo
<1>8. QED BY <1>1, <1>5, <1>6, <1>7

(* The four parts of a PMT, one after the other.                           *)
LEMMA JoinIs ==
  ASSUME NEW a \in Seq(EntryBytes), NEW b \in Seq(EntryBytes)
  PROVE  /\ a \o b \in Seq(EntryBytes) /\ Len(a \o b) = Len(a) + Len(b)
         /\ \A i \in 1..Len(a) : (a \o b)[i] = a[i]
         /\ \A i \in 1..Len(b) : (a \o b)[Len(a) + i] = b[i]
<1> DEFINE c == a \o b
<1>1. /\ c \in Seq(EntryBytes) /\ Len(c) = Len(a) + Len(b)
      /\ \A i \in 1..(Len(a) + Len(b)) : c[i] = IF i <= Len(a) THEN a[i] ELSE b[i - Len(a)]
  BY ConcatProperties
<1>2. Len(a) \in Nat /\ Len(b) \in Nat
  BY LenProperties
<1> HIDE DEF c
<1>3. \A i \in 1..Len(a) : c[i] = a[i]
  BY <1>1, <1>2
<1>4. \A i \in 1..Len(b) : c[Len(a) + i] = b[i]
  <2> TAKE i \in 1..Len(b)
  <2>1. Len(a) + i \in 1..(Len(a) + Len(b)) /\ ~(Len(a) + i <= Len(a)) /\ (Len(a) + i) - Len(a) = i
    BY <1>2
  <2>2. QED BY <1>1, <2>1
<1>5. QED BY <1>1, <1>3, <1>4 DEF c

LEMMA WrittenIsBytes ==
  ASSUME NEW t \in Tables
  PROVE  /\ WrittenTable(t) \in Seq(EntryBytes)
         /\ WrittenEntries(t) \in Seq(EntryBytes)
         /\ t.kind = "streams" =>
              /\ Len(WrittenTable(t)) = 4 + t.info + Len(WrittenEntries(t))
              /\ WrittenTable(t)[4].len = t.info
              /\ \A i \in 1..Len(WrittenEntries(t)) :
                   WrittenTable(t)[(4 + t.info) + i] = WrittenEntries(t)[i]
<1> DEFINE N == Len(t.entries)
           W == WrittenEntries(t)
           n == t.info
           A == HeaderPart \o InfoLength(n)
           B == A \o ProgramInfo(n)
           C == B \o W
<1>1. n \in Nat /\ N \in Nat
  BY TableIs
<1>2. W \in Seq(EntryBytes)
  BY <1>1, UpToIs DEF WrittenEntries
<1>3. t.kind # "streams" => WrittenTable(t) = W
  BY TableParts
<1>4. t.kind = "streams" => WrittenTable(t) = C
  BY TableParts
<1> HIDE DEF W, n
<1>5. /\ HeaderPart \in Seq(EntryBytes) /\ Len(HeaderPart) = 3
      /\ InfoLength(n) \in Seq(EntryBytes) /\ Len(InfoLength(n)) = 1
      /\ InfoLength(n)[1].len = n
      /\ ProgramInfo(n) \in Seq(EntryBytes) /\ Len(ProgramInfo(n)) = n
  BY <1>1, HeaderParts
<1>6. A \in Seq(EntryBytes) /\ Len(A) = 4 /\ A[4].len = n
  <2>1. /\ A \in Seq(EntryBytes) /\ Len(A) = Len(HeaderPart) + Len(InfoLength(n))
        /\ \A i \in 1..Len(InfoLength(n)) : A[Len(HeaderPart) + i] = InfoLength(n)[i]
    BY <1>5, JoinIs
  <2> HIDE DEF A
  <2>2. Len(A) = 4 /\ \A i \in 1..1 : A[3 + i] = InfoLength(n)[i]
    BY <1>5, <2>1
  <2>3. 1 \in 1..1 /\ 3 + 1 = 4
    OBVIOUS
  <2>4. A[4] = InfoLength(n)[1]
    BY <2>2, <2>3
  <2>5. QED BY <1>5, <2>1, <2>2, <2>4
<1> HIDE DEF A
<1>7. B \in Seq(EntryBytes) /\ Len(B) = 4 + n /\ B[4] = A[4]
  <2>1. /\ B \in Seq(EntryBytes) /\ Len(B) = Len(A) + Len(ProgramInfo(n))
        /\ \A i \in 1..Len(A) : B[i] = A[i]
    BY <1>5, <1>6, JoinIs
  <2> HIDE DEF B
  <2>2. 4 \in 1..Len(A)
    BY <1>6
  <2>3. QED BY <1>5, <1>6, <2>1, <2>2
<1> HIDE DEF B
<1>8. /\ C \in Seq(EntryBytes) /\ Len(C) = Len(B) + Len(W) /\ C[4] = B[4]
      /\ \A i \in 1..Len(W) : C[Len(B) + i] = W[i]
  <2>1. /\ C \in Seq(EntryBytes) /\ Len(C) = Len(B) + Len(W)
        /\ \A i \in 1..Len(B) : C[i] = B[i]
        /\ \A i \in 1..Len(W) : C[Len(B) + i] = W[i]
    BY <1>2, <1>7, JoinIs
  <2> HIDE DEF C
  <2>2. 4 \in 1..Len(B)
    BY <1>1, <1>7
  <2>3. QED BY <2>1, <2>2
<1> HIDE DEF C
<1>9. /\ C \in Seq(EntryBytes) /\ Len(C) = 4 + n + Len(W) /\ C[4].len = n
      /\ \A i \in 1..Len(W) : C[(4 + n) + i] = W[i]
  BY <1>6, <1>7, <1>8
<1>10. WrittenTable(t) \in Seq(EntryBytes)
  BY <1>2, <1>3, <1>4, <1>9
<1>11. QED BY <1>2, <1>4, <1>9, <1>10 DEF W, n

-------------------------------------------------------------------------------
(* What the iterator sees.                                                 *)

LEMMA Results ==
  /\ \A b : Ok(b).status = "ok" /\ Ok(b).bytes = b
  /\ \A why : Err(why).status = why /\ Err(why).bytes = << >>
  /\ NotEnoughData.status = "NotEnoughData" /\ NotEnoughData.bytes = << >>
BY DEF Ok, Err, NotEnoughData

(* Of a PMT, what follows the program's descriptors.                       *)
LEMMA StreamsIs ==
  ASSUME NEW r \in Seq(EntryBytes)
  PROVE  /\ Len(r) < 4 => PmtStreams(r).bytes = << >>
         /\ Len(r) >= 4 => /\ r[4].len \in Nat
                           /\ Len(r) < 4 + r[4].len => PmtStreams(r).bytes = << >>
                           /\ Len(r) >= 4 + r[4].len =>
                                PmtStreams(r).bytes = SubSeq(r, (4 + r[4].len) + 1, Len(r))
<1>1. CASE Len(r) < 4
  <2>1. PmtStreams(r) = NotEnoughData
    BY <1>1 DEF PmtStreams, PMT_HEADER_SIZE
  <2>2. QED BY <1>1, <2>1, Results, LenProperties
<1>2. CASE ~(Len(r) < 4)
  <2>1. 4 \in 1..Len(r) /\ Len(r) \in Nat
    BY <1>2, LenProperties
  <2>2. r[4] \in EntryBytes
    BY <2>1, ElementOfSeq
  <2>3. r[4].len \in Nat
    BY <2>2 DEF EntryBytes
  <2> DEFINE start == 4 + r[4].len
  <2>4. PmtStreams(r) = IF Len(r) < start THEN NotEnoughData ELSE Index(r, start, Len(r))
    BY <1>2 DEF PmtStreams, PMT_HEADER_SIZE
  <2>5. start \in Nat
    BY <2>3
  <2> HIDE DEF start
  <2>6. ASSUME Len(r) < start PROVE PmtStreams(r).bytes = << >>
    BY <2>4, <2>6, Results
  <2>7. ASSUME ~(Len(r) < start) PROVE PmtStreams(r).bytes = SubSeq(r, start + 1, Len(r))
    <3>1. start <= Len(r)
      BY <2>1, <2>5, <2>7
    <3>2. PmtStreams(r) = Ok(SubSeq(r, start + 1, Len(r)))
      BY <2>1, <2>4, <2>7, <3>1 DEF Index
    <3>3. QED BY <3>2, Results
  <2>8. QED BY <1>2, <2>1, <2>3, <2>5, <2>6, <2>7 DEF start
<1>3. QED BY <1>1, <1>2

LEMMA IteratedIsBytes ==
  ASSUME NEW kind, NEW r \in Seq(EntryBytes)
  PROVE  Iterated(kind, r) \in Seq(EntryBytes)
<1>1. CASE kind # "streams"
  BY <1>1 DEF Iterated
<1>2. CASE kind = "streams"
  <2>1. Iterated(kind, r) = PmtStreams(r).bytes
    BY <1>2 DEF Iterated
  <2>2. Len(r) \in Nat
    BY LenProperties
  <2>3. CASE PmtStreams(r).bytes = << >>
    BY <2>1, <2>3, EmptySeq
  <2>4. CASE PmtStreams(r).bytes # << >>
    <3> DEFINE start == 4 + r[4].len
    <3>1. start \in Nat /\ start <= Len(r) /\ PmtStreams(r).bytes = SubSeq(r, start + 1, Len(r))
      BY <2>2, <2>4, StreamsIs
    <3> HIDE DEF start
    <3>2. SubSeq(r, start + 1, Len(r)) \in Seq(EntryBytes)
      BY <2>2, <3>1, CutIs
    <3>3. QED BY <2>1, <3>1, <3>2
  <2>5. QED BY <2>3, <2>4
<1>3. QED BY <1>1, <1>2

(* It is the entries as they were written, up to where they are cut off.   *)
LEMMA CutShortIs ==
  ASSUME NEW t \in Tables, NEW n \in 0..Len(WrittenTable(t)), NEW it,
         it = Iterated(t.kind, SubSeq(WrittenTable(t), 1, n))
  PROVE  /\ it \in Seq(EntryBytes) /\ Len(it) <= Len(WrittenEntries(t))
         /\ \A i \in 1..Len(it) : it[i] = WrittenEntries(t)[i]
<1> DEFINE WT == WrittenTable(t)
           W == WrittenEntries(t)
           r == SubSeq(WT, 1, n)
           start == 4 + t.info
<1>1. /\ WT \in Seq(EntryBytes) /\ W \in Seq(EntryBytes)
      /\ t.kind = "streams" => /\ Len(WT) = 4 + t.info + Len(W)
                               /\ WT[4].len = t.info
                               /\ \A i \in 1..Len(W) : WT[(4 + t.info) + i] = W[i]
  BY WrittenIsBytes
<1>2. t.info \in Nat /\ start \in Nat /\ start >= 4
  BY TableIs
<1>3. t.kind = "streams" => /\ Len(WT) = start + Len(W)
                            /\ WT[4].len = t.info
                            /\ \A i \in 1..Len(W) : WT[start + i] = W[i]
  BY <1>1, <1>2, LenProperties
<1>4. t.kind # "streams" => WT = W
  BY TableParts
<1>5. n \in 0..Len(WT)
  OBVIOUS
<1>6. it = Iterated(t.kind, r)
  OBVIOUS
<1> HIDE DEF WT, W
<1>7. Len(WT) \in Nat /\ Len(W) \in Nat /\ n \in Nat /\ n <= Len(WT)
  BY <1>1, <1>5, LenProperties
<1>8. /\ r \in Seq(EntryBytes) /\ Len(r) = n
      /\ \A i \in 1..n : r[i] = WT[i]
  <2> DEFINE z == 0
  <2>1. z \in Nat /\ z <= n /\ n - z = n /\ z + 1 = 1 /\ \A i \in 1..n : z + i = i
    BY <1>7
  <2> HIDE DEF z
  <2>2. /\ SubSeq(WT, z + 1, n) \in Seq(EntryBytes)
        /\ Len(SubSeq(WT, z + 1, n)) = n - z
        /\ \A i \in 1..(n - z) : SubSeq(WT, z + 1, n)[i] = WT[z + i]
    BY <1>1, <1>7, <2>1, CutIs
  <2>3. QED BY <2>1, <2>2
<1> HIDE DEF r
<1>9. it \in Seq(EntryBytes)
  BY <1>6, <1>8, IteratedIsBytes
<1>10. CASE t.kind # "streams"
  <2>1. it = r
    BY <1>6, <1>10 DEF Iterated
  <2>2. QED BY <1>4, <1>7, <1>8, <1>9, <1>10, <2>1 DEF W
<1>11. CASE t.kind = "streams"
  <2>1. it = PmtStreams(r).bytes
    BY <1>6, <1>11 DEF Iterated
  <2>2. CASE it = << >>
    <3>1. Len(it) = 0
      BY <2>2
    <3>2. QED BY <1>7, <1>9, <3>1 DEF W
  <2>3. CASE it # << >>
    <3>1. ~(n < 4) /\ n >= 4
      BY <1>7, <1>8, <2>1, <2>3, StreamsIs
    <3>2. r[4] = WT[4]
      <4>1. 4 \in 1..n
        BY <1>7, <3>1
      <4>2. QED BY <1>8, <4>1
    <3>3. r[4].len = t.info
      BY <1>3, <1>11, <3>2
    <3>4. start = 4 + r[4].len
      BY <3>3
    <3> HIDE DEF start
    <3>5. start <= n /\ it = SubSeq(r, start + 1, n)
      <4>1. Len(r) >= 4
        BY <1>8, <3>1
      <4>2. /\ Len(r) < 4 + r[4].len => PmtStreams(r).bytes = << >>
            /\ Len(r) >= 4 + r[4].len =>
                 PmtStreams(r).bytes = SubSeq(r, (4 + r[4].len) + 1, Len(r))
        BY <1>8, <4>1, StreamsIs
      <4>3. /\ Len(r) < start => it = << >>
            /\ Len(r) >= start => it = SubSeq(r, start + 1, Len(r))
        BY <2>1, <3>4, <4>2
      <4>4. n >= start
        BY <1>2, <1>7, <1>8, <2>3, <4>3
      <4>5. QED BY <1>2, <1>7, <1>8, <4>3, <4>4
    <3>6. Len(it) = n - start /\ \A i \in 1..(n - start) : it[i] = r[start + i]
      <4> DEFINE cut == SubSeq(r, start + 1, n)
      <4>1. Len(cut) = n - start /\ \A i \in 1..(n - start) : cut[i] = r[start + i]
        BY <1>2, <1>7, <1>8, <3>5, CutIs
      <4> HIDE DEF cut
      <4>2. QED BY <3>5, <4>1 DEF cut
    <3>7. Len(it) <= Len(W)
      BY <1>2, <1>3, <1>7, <1>11, <3>5, <3>6
    <3>8. ASSUME NEW i \in 1..Len(it) PROVE it[i] = W[i]
      <4>1. i \in 1..(n - start) /\ start + i \in 1..n /\ i \in 1..Len(W)
        BY <1>2, <1>3, <1>7, <1>11, <3>5, <3>6
      <4>2. it[i] = r[start + i] /\ r[start + i] = WT[start + i] /\ WT[start + i] = W[i]
        BY <1>3, <1>8, <1>11, <3>6, <4>1
      <4>3. QED BY <4>2
    <3>9. QED BY <1>9, <3>7, <3>8 DEF W
  <2>4. QED BY <2>2, <2>3
<1>12. QED BY <1>10, <1>11

(* A table whose lengths may be false.                                     *)
LEMMA ReceivedIsBytes ==
  ASSUME NEW t \in Tables, Received(t)
  PROVE  received \in Seq(EntryBytes)
<1> DEFINE WT == WrittenTable(t)
<1>1. WT \in Seq(EntryBytes)
  BY WrittenIsBytes
<1>2. \/ \E n \in 0..Len(WT) : received = SubSeq(WT, 1, n)
      \/ \E n \in 1..Len(WT), len \in FalseLengths : received = [WT EXCEPT ![n].len = len]
  BY Zenon DEF Received
<1> HIDE DEF WT
<1>3. Len(WT) \in Nat
  BY <1>1, LenProperties
<1>4. ASSUME NEW n \in 0..Len(WT), received = SubSeq(WT, 1, n)
      PROVE  received \in Seq(EntryBytes)
  <2> DEFINE z == 0
  <2>1. n \in Nat /\ z \in Nat /\ z <= n /\ z + 1 = 1 /\ n <= Len(WT)
    BY <1>3
  <2> HIDE DEF z
  <2>2. SubSeq(WT, z + 1, n) \in Seq(EntryBytes)
    BY <1>1, <1>3, <2>1, CutIs
  <2>3. QED BY <1>4, <2>1, <2>2
<1>5. ASSUME NEW n \in 1..Len(WT), NEW len \in FalseLengths,
             received = [WT EXCEPT ![n].len = len]
      PROVE  received \in Seq(EntryBytes)
  <2>1. len \in Nat
    BY EntriesAssumption
  <2>2. WT[n] \in EntryBytes
    BY <1>1, ElementOfSeq
  <2>3. [WT[n] EXCEPT !.len = len] \in EntryBytes
    BY <2>1, <2>2 DEF EntryBytes
  <2>4. received = [WT EXCEPT ![n] = [WT[n] EXCEPT !.len = len]]
    BY <1>5
  <2>5. QED BY <1>1, <2>3, <2>4, ExceptSeq
<1>6. QED BY <1>2, <1>4, <1>5

-------------------------------------------------------------------------------
(* What accessors index of an item.                                        *)

LEMMA ByteOfTerm ==
  \A name, byte, lo, hi, shift :
    /\ Term(name, byte, lo, hi, shift).byte = byte
    /\ Whole(name, byte, shift).byte = byte
    /\ Flag(name, byte, lo).byte = byte
BY DEF Term, Whole, Flag

LEMMA AccessorBytes ==
  /\ BytesOf(ProgramDescriptor) \subseteq 0..3
  /\ BytesOf(StreamInfo) \subseteq 0..4
  /\ BytesOf(MaximumBitrate) = 0..2
  /\ BytesOf(AvcVideoDescriptor) = 0..3
<1>1. ASSUME NEW term \in ProgramDescriptor PROVE term.byte \in {0, 1, 2, 3}
  BY ByteOfTerm, SMT DEF ProgramDescriptor
<1>2. ASSUME NEW term \in StreamInfo PROVE term.byte \in {0, 1, 2, 3, 4}
  BY ByteOfTerm, SMT DEF StreamInfo
<1>3. /\ \A term \in MaximumBitrate : term.byte \in {0, 1, 2}
      /\ \A b \in {0, 1, 2} : \E term \in MaximumBitrate : term.byte = b
  BY ByteOfTerm, SMT DEF MaximumBitrate
<1>4. /\ \A term \in AvcVideoDescriptor : term.byte \in {0, 1, 2, 3}
      /\ \A b \in {0, 1, 2, 3} : \E term \in AvcVideoDescriptor : term.byte = b
  BY ByteOfTerm, SMT DEF AvcVideoDescriptor
<1>5. 0..2 = {0, 1, 2} /\ 0..3 = {0, 1, 2, 3} /\ 0..4 = {0, 1, 2, 3, 4}
  OBVIOUS
<1>6. BytesOf(ProgramDescriptor) \subseteq {0, 1, 2, 3}
  BY <1>1, Zenon DEF BytesOf
<1>7. BytesOf(StreamInfo) \subseteq {0, 1, 2, 3, 4}
  BY <1>2, Zenon DEF BytesOf
<1>8. BytesOf(MaximumBitrate) = {0, 1, 2}
  BY <1>3, Zenon DEF BytesOf
<1>9. BytesOf(AvcVideoDescriptor) = {0, 1, 2, 3}
  BY <1>4, Zenon DEF BytesOf
<1>10. QED BY <1>5, <1>6, <1>7, <1>8, <1>9

(* The constructor of a descriptor's type accepts what the type's          *)
(* accessors can read, and never fails its assertion.                      *)
LEMMA ConstructIs ==
  ASSUME NEW tag, NEW payload, Len(payload) \in Nat
  PROVE  Construct(tag, payload) = IF AccessedBytes(tag) \subseteq 0..(Len(payload) - 1)
                                   THEN Ok(payload) ELSE NotEnoughData
<1> DEFINE n == Len(payload)
<1>1. \A k \in Nat : 0..k \subseteq 0..(n - 1) <=> ~(n < k + 1)
  <2>1. ASSUME NEW k \in Nat PROVE 0..k \subseteq 0..(n - 1) <=> ~(n < k + 1)
    <3>1. k \in 0..k
      OBVIOUS
    <3>2. QED BY <3>1
  <2>2. QED BY <2>1
<1> HIDE DEF n
<1>2. CASE tag = REGISTRATION
  <2>1. Construct(tag, payload) = IF n < 3 + 1 THEN NotEnoughData ELSE Ok(payload)
    BY <1>2 DEF Construct, CoreDescriptors, RegistrationNew, DescriptorLen, n,
                REGISTRATION, ISO_639_LANGUAGE, MAXIMUM_BITRATE, AVC_VIDEO
  <2>2. AccessedBytes(tag) = 0..3
    BY <1>2 DEF AccessedBytes, CoreDescriptors, FormatIdentifier,
                REGISTRATION, ISO_639_LANGUAGE, MAXIMUM_BITRATE, AVC_VIDEO
  <2>3. 0..3 \subseteq 0..(n - 1) <=> ~(n < 3 + 1)
    BY <1>1
  <2>4. QED BY <2>1, <2>2, <2>3 DEF n
<1>3. CASE tag = MAXIMUM_BITRATE
  <2>1. Construct(tag, payload) = IF n < 2 + 1 THEN NotEnoughData ELSE Ok(payload)
    BY <1>3 DEF Construct, CoreDescriptors, MaximumBitrateNew, DescriptorLen, n,
                REGISTRATION, ISO_639_LANGUAGE, MAXIMUM_BITRATE, AVC_VIDEO
  <2>2. AccessedBytes(tag) = 0..2
    BY <1>3, AccessorBytes DEF AccessedBytes, CoreDescriptors,
       REGISTRATION, ISO_639_LANGUAGE, MAXIMUM_BITRATE, AVC_VIDEO
  <2>3. 0..2 \subseteq 0..(n - 1) <=> ~(n < 2 + 1)
    BY <1>1
  <2>4. QED BY <2>1, <2>2, <2>3 DEF n
<1>4. CASE tag = AVC_VIDEO
  <2>1. Construct(tag, payload) = IF n < 3 + 1 THEN NotEnoughData ELSE Ok(payload)
    BY <1>4 DEF Construct, CoreDescriptors, AvcVideoNew, DescriptorLen, n,
                REGISTRATION, ISO_639_LANGUAGE, MAXIMUM_BITRATE, AVC_VIDEO
  <2>2. AccessedBytes(tag) = 0..3
    BY <1>4, AccessorBytes DEF AccessedBytes, CoreDescriptors,
       REGISTRATION, ISO_639_LANGUAGE, MAXIMUM_BITRATE, AVC_VIDEO
  <2>3. 0..3 \subseteq 0..(n - 1) <=> ~(n < 3 + 1)
    BY <1>1
  <2>4. QED BY <2>1, <2>2, <2>3 DEF n
<1>5. CASE tag = ISO_639_LANGUAGE
  <2>1. Construct(tag, payload) = Ok(payload)
    BY <1>5 DEF Construct, CoreDescriptors, Iso639LanguageNew,
                REGISTRATION, ISO_639_LANGUAGE, MAXIMUM_BITRATE, AVC_VIDEO
  <2>2. AccessedBytes(tag) = {}
    BY <1>5 DEF AccessedBytes, CoreDescriptors,
                REGISTRATION, ISO_639_LANGUAGE, MAXIMUM_BITRATE, AVC_VIDEO
  <2>3. QED BY <2>1, <2>2
<1>6. CASE tag \notin {REGISTRATION, MAXIMUM_BITRATE, AVC_VIDEO, ISO_639_LANGUAGE}
  <2>0. CoreDescriptors(tag) = "Unknown"
    BY <1>6 DEF CoreDescriptors
  <2>1. Construct(tag, payload) = Ok(payload)
    BY <2>0 DEF Construct, UnknownNew
  <2>2. AccessedBytes(tag) = {}
    BY <2>0 DEF AccessedBytes
  <2>3. QED BY <2>1, <2>2
<1>7. QED BY <1>2, <1>3, <1>4, <1>5, <1>6

-------------------------------------------------------------------------------
(* What an iterator returns for an entry.                                  *)

Statuses == {"ok", "NotEnoughData", "BufferTooShort", "TagTooLongForBuffer"}
Items == [status : Statuses, bytes : Seq(EntryBytes)]

(* No constructor has panicked and no accessor will.                       *)
Fits(kind, item) ==
  item.status = "ok" => ItemBytes(kind, item.bytes) \subseteq 0..(Len(item.bytes) - 1)

FittingItems(kind) == {item \in Items : Fits(kind, item)}

LEMMA ErrorsAreItems ==
  ASSUME NEW kind, NEW why \in Statuses \ {"ok"}
  PROVE  Err(why) \in FittingItems(kind) /\ NotEnoughData \in FittingItems(kind)
<1>1. << >> \in Seq(EntryBytes)
  BY EmptySeq
<1>2. ASSUME NEW w \in Statuses \ {"ok"} PROVE Err(w) \in FittingItems(kind)
  BY <1>1 DEF Err, Items, FittingItems, Fits, Statuses
<1>3. QED BY <1>2 DEF NotEnoughData, Statuses

LEMMA OkIsItem ==
  ASSUME NEW kind, NEW e \in Seq(EntryBytes), ItemBytes(kind, e) \subseteq 0..(Len(e) - 1)
  PROVE  Ok(e) \in FittingItems(kind)
BY DEF Ok, Items, FittingItems, Fits, Statuses

(* A descriptor from the start of a slice that holds all of it.            *)
LEMMA DescriptorIs ==
  ASSUME NEW e \in Seq(EntryBytes), Len(e) >= 2
  PROVE  /\ e[2].len \in Nat
         /\ Len(e) < 2 + e[2].len => DescriptorFromBytes(e) = Err("TagTooLongForBuffer")
         /\ Len(e) >= 2 + e[2].len =>
              DescriptorFromBytes(e) =
                IF AccessedBytes(Tag(e)) \subseteq 0..(e[2].len - 1)
                THEN Ok(SubSeq(e, 1, 2 + e[2].len)) ELSE NotEnoughData
<1>1. 2 \in 1..Len(e) /\ Len(e) \in Nat
  BY LenProperties
<1>2. e[2] \in EntryBytes
  BY <1>1, ElementOfSeq
<1>3. e[2].len \in Nat
  BY <1>2 DEF EntryBytes
<1> DEFINE end == 2 + e[2].len
           payload == SubSeq(e, 3, end)
           made == Construct(Tag(e), payload)
<1>4. DescriptorFromBytes(e) =
        IF end > Len(e) THEN Err("TagTooLongForBuffer")
        ELSE IF made.status = "ok" THEN Ok(SubSeq(e, 1, end)) ELSE made
  BY <1>1 DEF DescriptorFromBytes, DESCRIPTOR_HEADER, Then
<1>5. end \in Nat /\ 2 <= end /\ end - 2 = e[2].len
  BY <1>3
<1> HIDE DEF end
<1>6. ASSUME end <= Len(e)
      PROVE  DescriptorFromBytes(e) = IF AccessedBytes(Tag(e)) \subseteq 0..(e[2].len - 1)
                                      THEN Ok(SubSeq(e, 1, end)) ELSE NotEnoughData
  <2>1. Len(payload) = end - 2
    <3> DEFINE two == 2
    <3>1. two \in Nat /\ two <= end /\ two + 1 = 3 /\ end - two = end - 2
      BY <1>5
    <3> HIDE DEF two
    <3>2. Len(SubSeq(e, two + 1, end)) = end - two
      BY <1>5, <1>6, <3>1, CutIs
    <3>3. QED BY <3>1, <3>2
  <2> HIDE DEF payload
  <2>2. made = IF AccessedBytes(Tag(e)) \subseteq 0..(Len(payload) - 1)
               THEN Ok(payload) ELSE NotEnoughData
    BY <1>5, <2>1, ConstructIs
  <2>3. Len(payload) = e[2].len
    BY <1>5, <2>1
  <2> HIDE DEF made
  <2>4. DescriptorFromBytes(e) = IF made.status = "ok" THEN Ok(SubSeq(e, 1, end)) ELSE made
    BY <1>1, <1>4, <1>5, <1>6
  <2>5. CASE AccessedBytes(Tag(e)) \subseteq 0..(e[2].len - 1)
    BY <2>2, <2>3, <2>4, <2>5, Results
  <2>6. CASE ~(AccessedBytes(Tag(e)) \subseteq 0..(e[2].len - 1))
    BY <2>2, <2>3, <2>4, <2>6, Results
  <2>7. QED BY <2>5, <2>6
<1>7. ASSUME Len(e) < end PROVE DescriptorFromBytes(e) = Err("TagTooLongForBuffer")
  BY <1>1, <1>4, <1>5, <1>7
<1>8. QED BY <1>1, <1>3, <1>5, <1>6, <1>7 DEF end

LEMMA TagStays ==
  ASSUME NEW e, NEW f, f[1] = e[1]
  PROVE  Tag(f) = Tag(e)
BY DEF Tag

LEMMA EntryFits ==
  ASSUME NEW kind \in Kinds, NEW e \in Seq(EntryBytes),
         Len(e) >= EntryHeaderSize(kind),
         kind \in {"programs", "languages"} => Len(e) = EntryHeaderSize(kind)
  PROVE  FromBytes(kind, e) \in FittingItems(kind)
<1>1. Len(e) \in Nat
  BY LenProperties
<1>2. CASE kind = "programs"
  <2>1. Len(e) = 4
    BY <1>2 DEF EntryHeaderSize
  <2>2. ItemBytes(kind, e) \subseteq 0..3 /\ Len(e) - 1 = 3
    BY <1>2, <2>1, AccessorBytes DEF ItemBytes
  <2>3. FromBytes(kind, e) = Ok(e)
    BY <1>2 DEF FromBytes
  <2>4. QED BY <2>2, <2>3, OkIsItem
<1>3. CASE kind = "languages"
  <2>1. Len(e) = 4 /\ EntryHeaderSize(kind) = 4
    BY <1>3 DEF EntryHeaderSize
  <2>2. ItemBytes(kind, e) \subseteq 0..3 /\ Len(e) - 1 = 3
    BY <1>3, <2>1 DEF ItemBytes, LanguageBytes
  <2>3. FromBytes(kind, e) = Ok(e)
    BY <1>3, <2>1 DEF FromBytes
  <2>4. QED BY <2>2, <2>3, OkIsItem
<1>4. CASE kind = "streams"
  <2>1. Len(e) >= 5
    BY <1>4 DEF EntryHeaderSize
  <2>2. ItemBytes(kind, e) \subseteq 0..4
    BY <1>4, AccessorBytes DEF ItemBytes
  <2>3. 0..4 \subseteq 0..(Len(e) - 1)
    BY <1>1, <2>1
  <2>4. FromBytes(kind, e) = Ok(e)
    BY <1>4 DEF FromBytes
  <2>5. QED BY <2>2, <2>3, <2>4, OkIsItem
<1>5. CASE kind = "descriptors"
  <2> DEFINE n == e[2].len
             end == 2 + n
             d == SubSeq(e, 1, end)
  <2>1. Len(e) >= 2
    BY <1>5 DEF EntryHeaderSize
  <2>2. /\ n \in Nat
        /\ Len(e) < 2 + n => DescriptorFromBytes(e) = Err("TagTooLongForBuffer")
        /\ Len(e) >= 2 + n => DescriptorFromBytes(e) =
             IF AccessedBytes(Tag(e)) \subseteq 0..(n - 1) THEN Ok(SubSeq(e, 1, 2 + n)) ELSE NotEnoughData
    BY <2>1, DescriptorIs
  <2>3. FromBytes(kind, e) = DescriptorFromBytes(e)
    BY <1>5 DEF FromBytes
  <2>4. Err("TagTooLongForBuffer") \in FittingItems(kind) /\ NotEnoughData \in FittingItems(kind)
    BY ErrorsAreItems DEF Statuses
  <2> HIDE DEF n
  <2>5. ASSUME Len(e) >= 2 + n, AccessedBytes(Tag(e)) \subseteq 0..(n - 1)
        PROVE  Ok(d) \in FittingItems(kind)
    <3>1. d \in Seq(EntryBytes) /\ Len(d) = end /\ d[1] = e[1]
      <4> DEFINE z == 0
      <4>1. z \in Nat /\ end \in Nat /\ z <= end /\ end <= Len(e) /\ z + 1 = 1 /\ end - z = end
        BY <1>1, <2>2, <2>5
      <4>2. 1 \in 1..end
        BY <2>2
      <4> HIDE DEF z, end
      <4>3. /\ SubSeq(e, z + 1, end) \in Seq(EntryBytes)
            /\ Len(SubSeq(e, z + 1, end)) = end - z
            /\ \A i \in 1..(end - z) : SubSeq(e, z + 1, end)[i] = e[z + i]
        BY <4>1, CutIs
      <4>4. QED BY <4>1, <4>2, <4>3 DEF d
    <3> HIDE DEF d
    <3>2. Tag(d) = Tag(e)
      BY <3>1, TagStays
    <3>3. ItemBytes(kind, d) = {2 + byte : byte \in AccessedBytes(Tag(e))}
      BY <1>5, <3>2 DEF ItemBytes, DESCRIPTOR_HEADER
    <3>4. ItemBytes(kind, d) \subseteq 0..(Len(d) - 1)
      <4>1. ASSUME NEW byte \in 0..(n - 1) PROVE 2 + byte \in 0..((2 + n) - 1)
        BY <2>2
      <4>2. QED BY <2>5, <3>1, <3>3, <4>1
    <3>5. QED BY <3>1, <3>4, OkIsItem
  <2>6. QED BY <1>1, <2>2, <2>3, <2>4, <2>5
<1>6. QED BY <1>2, <1>3, <1>4, <1>5 DEF Kinds

(* An entry as its writer meant it.                                        *)
LEMMA WrittenEntryIs ==
  ASSUME NEW t \in Tables, NEW k \in 1..Len(t.entries)
  PROVE  FromBytes(t.kind, NthEntry(t, k)) = Expected(t.kind, NthEntry(t, k))
<1> DEFINE e == NthEntry(t, k)
           n == t.entries[k].len
<1>1. /\ e \in Seq(EntryBytes) /\ Len(e) = EntryHeaderSize(t.kind) + n
      /\ \A b \in 1..Len(e) : e[b].len = IF HasLength(t.kind) /\ b = EntryHeaderSize(t.kind)
                                         THEN n ELSE 0
  BY EntryIs DEF EntryLen
<1>2. t.kind \in Kinds
  BY TableIs
<1>3. n \in Nat
  BY TableIs
<1>4. t.kind \in {"programs", "languages"} => n = 0
  BY TableIs
<1> HIDE DEF e, n
<1>5. CASE t.kind \in {"programs", "streams"}
  BY <1>5 DEF FromBytes, Expected, e
<1>6. CASE t.kind = "languages"
  <2>1. Len(e) = EntryHeaderSize(t.kind)
    BY <1>1, <1>4, <1>6 DEF EntryHeaderSize
  <2>2. QED BY <1>6, <2>1 DEF FromBytes, Expected, e
<1>7. CASE t.kind = "descriptors"
  <2>1. Len(e) = 2 + n /\ Len(e) >= 2 /\ 2 \in 1..Len(e)
    BY <1>1, <1>3, <1>7 DEF EntryHeaderSize
  <2>2. EntryHeaderSize(t.kind) = 2 /\ HasLength(t.kind)
    BY <1>7 DEF EntryHeaderSize, HasLength
  <2>3. e[2].len = n
    BY <1>1, <2>1, <2>2
  <2>4. Len(e) >= 2 + e[2].len =>
           DescriptorFromBytes(e) = IF AccessedBytes(Tag(e)) \subseteq 0..(e[2].len - 1)
                                    THEN Ok(SubSeq(e, 1, 2 + e[2].len)) ELSE NotEnoughData
    BY <1>1, <2>1, DescriptorIs
  <2>5. DescriptorFromBytes(e) = IF AccessedBytes(Tag(e)) \subseteq 0..(n - 1)
                                 THEN Ok(SubSeq(e, 1, Len(e))) ELSE NotEnoughData
    BY <1>3, <2>1, <2>3, <2>4
  <2>6. SubSeq(e, 1, Len(e)) = e
    <3> DEFINE z == 0
               m == Len(e)
    <3>1. z \in Nat /\ m \in Nat /\ z <= m /\ m <= Len(e) /\ z + 1 = 1 /\ m - z = m
          /\ \A i \in 1..m : z + i = i
      BY <1>1, LenProperties
    <3> HIDE DEF z
    <3>2. /\ SubSeq(e, z + 1, m) \in Seq(EntryBytes)
          /\ Len(SubSeq(e, z + 1, m)) = m - z
          /\ \A i \in 1..(m - z) : SubSeq(e, z + 1, m)[i] = e[z + i]
      BY <1>1, <3>1, CutIs
    <3>3. QED BY <1>1, <3>1, <3>2, SeqEqual
  <2>7. (Len(e) - 2) - 1 = n - 1
    BY <1>3, <2>1
  <2>8. Expected(t.kind, e) = IF AccessedBytes(Tag(e)) \subseteq 0..(n - 1)
                              THEN Ok(e) ELSE NotEnoughData
    BY <1>7, <2>7 DEF Expected, DESCRIPTOR_HEADER
  <2>9. FromBytes(t.kind, e) = DescriptorFromBytes(e)
    BY <1>7 DEF FromBytes
  <2>10. QED BY <2>5, <2>6, <2>8, <2>9 DEF e
<1>8. QED BY <1>2, <1>5, <1>6, <1>7 DEF Kinds

-------------------------------------------------------------------------------
(* One call of next().                                                     *)

LEMMA EntryEndIs ==
  ASSUME NEW kind \in Kinds, NEW s \in Seq(EntryBytes)
  PROVE  /\ EntryEnd(kind, s) \in Nat /\ EntryEnd(kind, s) >= EntryHeaderSize(kind)
         /\ EntryHeaderSize(kind) \in Nat /\ EntryHeaderSize(kind) >= 2
         /\ kind \in {"programs", "languages"} => EntryEnd(kind, s) = EntryHeaderSize(kind)
<1> DEFINE size == EntryHeaderSize(kind)
<1>1. size \in Nat /\ size >= 2
  BY DEF Kinds, EntryHeaderSize
<1>2. kind \in {"programs", "languages"} => ~HasLength(kind)
  BY DEF HasLength
<1>3. EntryEnd(kind, s) = size + IF HasLength(kind) /\ Len(s) >= size THEN s[size].len ELSE 0
  BY DEF EntryEnd
<1> HIDE DEF size
<1>4. Len(s) >= size => s[size].len \in Nat
  <2> SUFFICES ASSUME Len(s) >= size PROVE s[size].len \in Nat
    OBVIOUS
  <2>1. size \in 1..Len(s)
    BY <1>1, LenProperties
  <2>2. s[size] \in EntryBytes
    BY <2>1, ElementOfSeq
  <2>3. QED BY <2>2 DEF EntryBytes
<1>5. QED BY <1>1, <1>2, <1>3, <1>4 DEF size

LEMMA DropIs ==
  ASSUME NEW kind \in Kinds, NEW s \in Seq(EntryBytes), EntryEnd(kind, s) <= Len(s)
  PROVE  /\ Drop(kind, s) \in Seq(EntryBytes)
         /\ Len(Drop(kind, s)) = Len(s) - EntryEnd(kind, s)
         /\ \A i \in 1..(Len(s) - EntryEnd(kind, s)) :
              Drop(kind, s)[i] = s[EntryEnd(kind, s) + i]
         /\ SubSeq(s, 1, EntryEnd(kind, s)) \in Seq(EntryBytes)
         /\ Len(SubSeq(s, 1, EntryEnd(kind, s))) = EntryEnd(kind, s)
         /\ \A i \in 1..EntryEnd(kind, s) : SubSeq(s, 1, EntryEnd(kind, s))[i] = s[i]
<1> DEFINE n == EntryEnd(kind, s)
           m == Len(s)
           z == 0
<1>1. n \in Nat
  BY EntryEndIs
<1>2. m \in Nat
  BY LenProperties
<1>3. Drop(kind, s) = SubSeq(s, 1 + n, m)
  BY DEF Drop
<1>4. n <= m /\ 1 + n = n + 1
  BY <1>1
<1> HIDE DEF n
<1>5. /\ SubSeq(s, n + 1, m) \in Seq(EntryBytes)
      /\ Len(SubSeq(s, n + 1, m)) = m - n
      /\ \A i \in 1..(m - n) : SubSeq(s, n + 1, m)[i] = s[n + i]
  BY <1>1, <1>2, <1>4, CutIs
<1>6. z \in Nat /\ z <= n /\ z + 1 = 1 /\ n - z = n /\ \A i \in 1..n : z + i = i
  BY <1>1
<1> HIDE DEF z
<1>7. /\ SubSeq(s, z + 1, n) \in Seq(EntryBytes)
      /\ Len(SubSeq(s, z + 1, n)) = n - z
      /\ \A i \in 1..(n - z) : SubSeq(s, z + 1, n)[i] = s[z + i]
  BY <1>1, <1>2, <1>4, <1>6, CutIs
<1>8. QED BY <1>3, <1>4, <1>5, <1>6, <1>7 DEF n

-------------------------------------------------------------------------------
(* The iteration uses up the table.                                        *)

IterationInv ==
  /\ table \in Tables /\ received \in Seq(EntryBytes) /\ rest \in Seq(EntryBytes)
  /\ items \in Seq(FittingItems(table.kind))
  /\ Len(items) + Len(rest) <= Len(Iterated(table.kind, received))

LEMMA IterationInitInv == EntriesInit => IterationInv
<1> SUFFICES ASSUME EntriesInit PROVE IterationInv
  OBVIOUS
<1>1. /\ table \in Tables /\ Received(table) /\ rest = Iterated(table.kind, received)
      /\ items = << >>
  BY DEF EntriesInit
<1>2. received \in Seq(EntryBytes)
  BY <1>1, ReceivedIsBytes
<1>3. rest \in Seq(EntryBytes)
  BY <1>1, <1>2, IteratedIsBytes
<1>4. items \in Seq(FittingItems(table.kind)) /\ Len(items) = 0
  BY <1>1, EmptySeq
<1>5. Len(rest) \in Nat
  BY <1>3, LenProperties
<1>6. QED BY <1>1, <1>2, <1>3, <1>4, <1>5 DEF IterationInv

(* What NextEntry reads.                                                   *)
LEMMA FirstEntryFits ==
  ASSUME IterationInv, EntryEnd(table.kind, rest) <= Len(rest)
  PROVE  FromBytes(table.kind, SubSeq(rest, 1, EntryEnd(table.kind, rest)))
           \in FittingItems(table.kind)
<1> DEFINE kind == table.kind
           n == EntryEnd(kind, rest)
           e == SubSeq(rest, 1, n)
<1>1. kind \in Kinds /\ rest \in Seq(EntryBytes)
  BY TableIs DEF IterationInv
<1>2. /\ n >= EntryHeaderSize(kind)
      /\ kind \in {"programs", "languages"} => n = EntryHeaderSize(kind)
  BY <1>1, EntryEndIs
<1>3. e \in Seq(EntryBytes) /\ Len(e) = n
  BY <1>1, DropIs
<1> HIDE DEF kind, n, e
<1>4. FromBytes(kind, e) \in FittingItems(kind)
  BY <1>1, <1>2, <1>3, EntryFits
<1>5. QED BY <1>4 DEF kind, n, e

LEMMA NextEntryKeepsInv == IterationInv /\ NextEntry => IterationInv'
<1> SUFFICES ASSUME IterationInv, NextEntry PROVE IterationInv'
  OBVIOUS
<1> DEFINE kind == table.kind
           n == EntryEnd(kind, rest)
           item == FromBytes(kind, SubSeq(rest, 1, n))
           it == Iterated(kind, received)
<1>1. /\ Len(rest) >= n /\ items' = Append(items, item) /\ rest' = Drop(kind, rest)
      /\ table' = table /\ received' = received
  BY DEF NextEntry
<1>2. /\ table \in Tables /\ kind \in Kinds /\ received \in Seq(EntryBytes)
      /\ rest \in Seq(EntryBytes) /\ items \in Seq(FittingItems(kind))
      /\ Len(items) + Len(rest) <= Len(it)
  BY TableIs DEF IterationInv
<1>3. n \in Nat /\ n >= 2
  BY <1>2, EntryEndIs
<1>4. Len(rest) \in Nat /\ Len(items) \in Nat /\ Len(it) \in Nat
  BY <1>2, LenProperties, IteratedIsBytes
<1>5. n <= Len(rest)
  BY <1>1, <1>3, <1>4
<1>6. Drop(kind, rest) \in Seq(EntryBytes) /\ Len(Drop(kind, rest)) = Len(rest) - n
  BY <1>2, <1>5, DropIs
<1>7. item \in FittingItems(kind)
  BY <1>5, FirstEntryFits
<1> HIDE DEF item, it, n, kind
<1>8. /\ Append(items, item) \in Seq(FittingItems(kind))
      /\ Len(Append(items, item)) = Len(items) + 1
  BY <1>2, <1>7, AppendProperties
<1>9. Len(items') + Len(rest') <= Len(it)
  BY <1>1, <1>2, <1>3, <1>4, <1>5, <1>6, <1>8
<1>10. kind' = kind /\ it' = it
  BY <1>1 DEF kind, it
<1>11. /\ table' \in Tables /\ received' \in Seq(EntryBytes) /\ rest' \in Seq(EntryBytes)
       /\ items' \in Seq(FittingItems(kind'))
       /\ Len(items') + Len(rest') <= Len(it')
  BY <1>1, <1>2, <1>6, <1>8, <1>9, <1>10
<1>12. QED BY <1>11 DEF IterationInv, kind, it

LEMMA IncompleteKeepsInv == IterationInv /\ IncompleteEntry => IterationInv'
<1> SUFFICES ASSUME IterationInv, IncompleteEntry PROVE IterationInv'
  OBVIOUS
<1> DEFINE kind == table.kind
           it == Iterated(kind, received)
<1>1. /\ Len(rest) > 0 /\ items' = Append(items, NotEnoughData) /\ rest' = << >>
      /\ table' = table /\ received' = received
  BY DEF IncompleteEntry
<1>2. /\ table \in Tables /\ received \in Seq(EntryBytes)
      /\ rest \in Seq(EntryBytes) /\ items \in Seq(FittingItems(kind))
      /\ Len(items) + Len(rest) <= Len(it)
  BY DEF IterationInv
<1>3. Len(rest) \in Nat /\ Len(items) \in Nat /\ Len(it) \in Nat
  BY <1>2, LenProperties, IteratedIsBytes
<1>4. NotEnoughData \in FittingItems(kind)
  BY ErrorsAreItems DEF Statuses
<1> HIDE DEF kind, it
<1>5. /\ Append(items, NotEnoughData) \in Seq(FittingItems(kind))
      /\ Len(Append(items, NotEnoughData)) = Len(items) + 1
  BY <1>2, <1>4, AppendProperties
<1>6. rest' \in Seq(EntryBytes) /\ Len(rest') = 0
  BY <1>1, EmptySeq
<1>7. kind' = kind /\ it' = it
  BY <1>1 DEF kind, it
<1>8. /\ table' \in Tables /\ received' \in Seq(EntryBytes) /\ rest' \in Seq(EntryBytes)
      /\ items' \in Seq(FittingItems(kind'))
      /\ Len(items') + Len(rest') <= Len(it')
  BY <1>1, <1>2, <1>3, <1>5, <1>6, <1>7
<1>9. QED BY <1>8 DEF IterationInv, kind, it

LEMMA IterationInvariant == EntriesSpec => []IterationInv
<1>1. IterationInv /\ [EntriesNext]_entryVars => IterationInv'
  <2>1. IterationInv /\ UNCHANGED entryVars => IterationInv'
    BY DEF IterationInv, entryVars
  <2>2. QED BY <2>1, NextEntryKeepsInv, IncompleteKeepsInv DEF EntriesNext
<1>2. QED BY <1>1, IterationInitInv, PTL DEF EntriesSpec

(* Whatever lengths a table gives, and wherever it is cut off, next()      *)
(* cannot be called more often than the table has bytes before it returns  *)
(* None: each call of the four iterators drops at least one byte.          *)
THEOREM IterationsEnd == EntriesSpec => []IterationEnds
<1>1. IterationInv => IterationEnds
  BY DEF IterationInv, IterationEnds
<1>2. QED BY <1>1, IterationInvariant, PTL

(* Whatever lengths a table gives, no accessor of a ProgramDescriptor, a   *)
(* StreamInfo, a Language or a descriptor of any type that an iterator     *)
(* returned indexes past the end of the slice that it holds, and no        *)
(* constructor's assertion fails: what each of them demands of the length  *)
(* is what its accessors index.                                            *)
THEOREM NoAccessorOutOfBounds == EntriesSpec => []AccessorsInBounds
<1>1. IterationInv => AccessorsInBounds
  <2> SUFFICES ASSUME IterationInv, NEW n \in DOMAIN items
               PROVE  /\ items[n].status # "panic"
                      /\ items[n].status = "ok" =>
                           ItemBytes(table.kind, items[n].bytes)
                             \subseteq 0..(Len(items[n].bytes) - 1)
    BY DEF AccessorsInBounds
  <2>1. items \in Seq(FittingItems(table.kind))
    BY DEF IterationInv
  <2>2. items[n] \in FittingItems(table.kind)
    BY <2>1, LenProperties, ElementOfSeq
  <2>3. items[n].status \in Statuses /\ Fits(table.kind, items[n])
    BY <2>2 DEF FittingItems, Items
  <2>4. QED BY <2>3 DEF Statuses, Fits
<1>2. QED BY <1>1, IterationInvariant, PTL

-------------------------------------------------------------------------------
(* The iteration follows the entries as they were written.                 *)

Seen == Iterated(table.kind, received)

Listing(t, n) == [k \in 1..n |-> Expected(t.kind, NthEntry(t, k))]

(* The table that is received is cut short at most.                        *)
CutShort == \E n \in 0..Len(WrittenTable(table)) : received = SubSeq(WrittenTable(table), 1, n)

(* Whole entries are left, or a part of one at the end.                    *)
OnTheWay ==
  /\ Len(items) <= WholeEntries
  /\ items = Listing(table, Len(items))
  /\ Len(rest) = Len(Seen) - End(table, Len(items))
  /\ \A i \in 1..Len(rest) : rest[i] = Seen[End(table, Len(items)) + i]

ListedInv ==
  ~spoilt => /\ CutShort
             /\ OnTheWay \/ (rest = << >> /\ items = ExpectedItems)

LEMMA ListingIs ==
  ASSUME NEW t \in Tables, NEW n \in 0..Len(t.entries)
  PROVE  /\ Listing(t, n) \in Seq(Items) /\ Len(Listing(t, n)) = n
         /\ \A k \in 1..n : Listing(t, n)[k] = Expected(t.kind, NthEntry(t, k))
<1> DEFINE s == Listing(t, n)
<1>1. n \in Nat /\ \A k \in 1..n : k \in 1..Len(t.entries)
  BY TableIs
<1>2. ASSUME NEW k \in 1..Len(t.entries)
      PROVE  Expected(t.kind, NthEntry(t, k)) \in Items
  <2> DEFINE e == NthEntry(t, k)
  <2>1. /\ e \in Seq(EntryBytes) /\ Len(e) = EntryHeaderSize(t.kind) + t.entries[k].len
    BY EntryIs DEF EntryLen
  <2>2. /\ t.kind \in Kinds /\ t.entries[k].len \in Nat /\ EntryHeaderSize(t.kind) \in Nat
        /\ t.kind \in {"programs", "languages"} => t.entries[k].len = 0
    BY TableIs
  <2>3. FromBytes(t.kind, e) = Expected(t.kind, e)
    BY WrittenEntryIs
  <2> HIDE DEF e
  <2>4. /\ Len(e) >= EntryHeaderSize(t.kind)
        /\ t.kind \in {"programs", "languages"} => Len(e) = EntryHeaderSize(t.kind)
    BY <2>1, <2>2
  <2>5. FromBytes(t.kind, e) \in FittingItems(t.kind)
    BY <2>1, <2>2, <2>4, EntryFits
  <2>6. QED BY <2>3, <2>5 DEF FittingItems, e
<1>3. s \in [1..n -> Items]
  BY <1>1, <1>2 DEF Listing
<1>4. \A k \in 1..n : s[k] = Expected(t.kind, NthEntry(t, k))
  BY DEF Listing
<1> HIDE DEF s
<1>5. s \in Seq(Items)
  BY <1>1, <1>3, SeqDef
<1>6. Len(s) = n
  BY <1>1, <1>3, <1>5, LenProperties
<1>7. QED BY <1>4, <1>5, <1>6 DEF s

LEMMA ListingGrows ==
  ASSUME NEW t \in Tables, NEW n \in 0..Len(t.entries), n + 1 \in 1..Len(t.entries)
  PROVE  Append(Listing(t, n), Expected(t.kind, NthEntry(t, n + 1))) = Listing(t, n + 1)
<1> DEFINE s == Listing(t, n)
           u == Listing(t, n + 1)
           item == Expected(t.kind, NthEntry(t, n + 1))
           v == Append(s, item)
<1>1. n \in Nat /\ n + 1 \in 0..Len(t.entries) /\ n + 1 \in 1..(n + 1)
  BY TableIs
<1>2. s \in Seq(Items) /\ Len(s) = n /\ \A k \in 1..n : s[k] = Expected(t.kind, NthEntry(t, k))
  BY ListingIs
<1>3. /\ u \in Seq(Items) /\ Len(u) = n + 1
      /\ \A k \in 1..(n + 1) : u[k] = Expected(t.kind, NthEntry(t, k))
  <2> DEFINE m == n + 1
  <2>1. m \in 0..Len(t.entries)
    BY <1>1
  <2> HIDE DEF m
  <2>2. /\ Listing(t, m) \in Seq(Items) /\ Len(Listing(t, m)) = m
        /\ \A k \in 1..m : Listing(t, m)[k] = Expected(t.kind, NthEntry(t, k))
    BY <2>1, ListingIs
  <2>3. QED BY <2>2 DEF m
<1>4. item = u[n + 1]
  BY <1>1, <1>3
<1>5. item \in Items
  <2>1. n + 1 \in 1..Len(u)
    BY <1>1, <1>3
  <2> HIDE DEF u, item
  <2>2. QED BY <1>3, <1>4, <2>1, ElementOfSeq
<1> HIDE DEF s, u, item
<1>6. /\ v \in Seq(Items) /\ Len(v) = n + 1
      /\ \A k \in 1..n : v[k] = s[k]
      /\ v[n + 1] = item
  BY <1>2, <1>5, AppendProperties
<1> HIDE DEF v
<1>7. \A k \in 1..(n + 1) : v[k] = u[k]
  <2> TAKE k \in 1..(n + 1)
  <2>1. CASE k \in 1..n
    BY <1>2, <1>3, <1>6, <2>1
  <2>2. CASE k = n + 1
    BY <1>4, <1>6, <2>2
  <2>3. QED BY <1>1, <2>1, <2>2
<1>8. v = u
  BY <1>3, <1>6, <1>7, SeqEqual
<1>9. QED BY <1>8 DEF v, s, u, item

(* What the iterator of a table that is not spoilt gets to see.            *)
LEMMA SeenIs ==
  ASSUME table \in Tables, CutShort
  PROVE  /\ Seen \in Seq(EntryBytes) /\ Len(Seen) \in Nat
         /\ Len(Seen) <= End(table, Len(table.entries))
         /\ \A i \in 1..Len(Seen) : Seen[i] = EntriesUpTo(table, Len(table.entries))[i]
         /\ WholeEntries \in 0..Len(table.entries)
         /\ \A n \in 0..Len(table.entries) : End(table, n) <= Len(Seen) <=> n <= WholeEntries
         /\ ExpectedItems = Listing(table, WholeEntries)
              \o (IF End(table, WholeEntries) < Len(Seen) THEN <<NotEnoughData>> ELSE << >>)
<1> DEFINE N == Len(table.entries)
<1>1. WrittenEntries(table) = EntriesUpTo(table, N)
  BY DEF WrittenEntries
<1>2. PICK n \in 0..Len(WrittenTable(table)) : received = SubSeq(WrittenTable(table), 1, n)
  BY DEF CutShort
<1>3. Seen = Iterated(table.kind, SubSeq(WrittenTable(table), 1, n))
  BY <1>2 DEF Seen
<1>4. /\ Seen \in Seq(EntryBytes) /\ Len(Seen) <= Len(WrittenEntries(table))
      /\ \A i \in 1..Len(Seen) : Seen[i] = WrittenEntries(table)[i]
  BY <1>3, CutShortIs
<1>5. Len(Seen) \in Nat
  BY <1>4, LenProperties
<1>6. WholeEntries = Cardinality({k \in 1..N : End(table, k) <= Len(Seen)})
  BY DEF WholeEntries, EndOf, End, Seen
<1>7. /\ WholeEntries \in 0..N
      /\ \A k \in 0..N : End(table, k) <= Len(Seen) <=> k <= WholeEntries
  BY <1>5, <1>6, WholeOnes
<1>8. ExpectedItems = Listing(table, WholeEntries)
        \o (IF End(table, WholeEntries) < Len(Seen) THEN <<NotEnoughData>> ELSE << >>)
  BY Zenon DEF ExpectedItems, Listing, NthEntry, EndOf, End, Seen
<1>9. QED BY <1>1, <1>4, <1>5, <1>7, <1>8 DEF End

LEMMA ListedInitInv == EntriesInit => ListedInv
<1> SUFFICES ASSUME EntriesInit, ~spoilt PROVE ListedInv
  BY DEF ListedInv
<1>1. /\ table \in Tables /\ rest = Seen /\ items = << >> /\ Received(table)
  BY DEF EntriesInit, Seen
<1>2. CutShort
  BY <1>1 DEF Received, CutShort
<1>3. /\ Len(Seen) \in Nat /\ WholeEntries \in 0..Len(table.entries)
  BY <1>1, <1>2, SeenIs
<1>4. End(table, 0) = 0 /\ Len(items) = 0
  BY <1>1, Ends, EmptySeq
<1>5. 0 \in 0..Len(table.entries)
  BY <1>1, TableIs
<1>6. items = Listing(table, 0)
  <2>1. Listing(table, 0) \in Seq(Items) /\ Len(Listing(table, 0)) = 0
    BY <1>1, <1>5, ListingIs
  <2>2. QED BY <1>1, <2>1, EmptySeq
<1>7. OnTheWay
  <2>1. Len(items) <= WholeEntries
    BY <1>3, <1>4
  <2>2. Len(rest) = Len(Seen) - End(table, 0)
    BY <1>1, <1>3, <1>4
  <2>3. \A i \in 1..Len(rest) : rest[i] = Seen[End(table, 0) + i]
    BY <1>1, <1>4
  <2>4. QED BY <1>4, <1>6, <2>1, <2>2, <2>3 DEF OnTheWay
<1>8. QED BY <1>2, <1>7 DEF ListedInv

(* Where next() finds an entry, and how much of it.                        *)
LEMMA AtEntry ==
  ASSUME IterationInv, CutShort, OnTheWay, Len(rest) > 0, NEW c, c = Len(items)
  PROVE  /\ c \in 0..Len(table.entries) /\ c + 1 \in 1..Len(table.entries)
         /\ End(table, c) \in Nat /\ EntryLen(table, c + 1) \in Nat
         /\ End(table, c + 1) = End(table, c) + EntryLen(table, c + 1)
         /\ Len(rest) = Len(Seen) - End(table, c)
         /\ \A i \in 1..Len(rest) : i <= EntryLen(table, c + 1) => rest[i] = NthEntry(table, c + 1)[i]
<1> DEFINE N == Len(table.entries)
<1>1. /\ table \in Tables /\ rest \in Seq(EntryBytes) /\ items \in Seq(FittingItems(table.kind))
  BY DEF IterationInv
<1>2. /\ Len(Seen) \in Nat /\ Len(Seen) <= End(table, N)
      /\ \A i \in 1..Len(Seen) : Seen[i] = EntriesUpTo(table, N)[i]
      /\ WholeEntries \in 0..N
  BY <1>1, SeenIs
<1>3. /\ c <= WholeEntries /\ Len(rest) = Len(Seen) - End(table, c)
      /\ \A i \in 1..Len(rest) : rest[i] = Seen[End(table, c) + i]
  BY DEF OnTheWay
<1>4. c \in Nat /\ N \in Nat /\ Len(rest) \in Nat
  BY <1>1, LenProperties, TableIs
<1>5. c \in 0..N
  BY <1>2, <1>3, <1>4
<1>6. End(table, c) \in Nat /\ End(table, N) \in Nat
  <2>1. N \in 0..N
    BY <1>4
  <2>2. QED BY <1>1, <1>5, <2>1, Ends
<1>7. c # N
  BY <1>2, <1>3, <1>4, <1>6
<1>8. c + 1 \in 1..N
  BY <1>4, <1>5, <1>7
<1>9. /\ End(table, c) + EntryLen(table, c + 1) <= End(table, N)
      /\ End(table, c + 1) = End(table, c) + EntryLen(table, c + 1)
      /\ \A i \in 1..EntryLen(table, c + 1) :
           EntriesUpTo(table, N)[End(table, c) + i] = NthEntry(table, c + 1)[i]
  BY <1>1, <1>5, <1>8, EntryAt
<1>10. EntryLen(table, c + 1) \in Nat
  <2> DEFINE k == c + 1
  <2>1. k \in 1..N
    BY <1>8
  <2> HIDE DEF k
  <2>2. EntryLen(table, k) \in Nat
    BY <1>1, <2>1, EntryIs
  <2>3. QED BY <2>2 DEF k
<1>11. ASSUME NEW i \in 1..Len(rest), i <= EntryLen(table, c + 1)
       PROVE  rest[i] = NthEntry(table, c + 1)[i]
  <2>1. i \in 1..EntryLen(table, c + 1) /\ End(table, c) + i \in 1..Len(Seen)
    BY <1>2, <1>3, <1>4, <1>6, <1>10, <1>11
  <2>2. /\ rest[i] = Seen[End(table, c) + i]
        /\ Seen[End(table, c) + i] = EntriesUpTo(table, N)[End(table, c) + i]
        /\ EntriesUpTo(table, N)[End(table, c) + i] = NthEntry(table, c + 1)[i]
    BY <1>2, <1>3, <1>9, <2>1
  <2>3. QED BY <2>2
<1>12. QED BY <1>3, <1>5, <1>6, <1>8, <1>9, <1>10, <1>11

(* The lengths that next() goes by are those of the writer.                *)
LEMMA EndIsWritten ==
  ASSUME IterationInv, CutShort, OnTheWay, Len(rest) > 0, NEW c, c = Len(items)
  PROVE  /\ Len(rest) >= EntryEnd(table.kind, rest) <=> Len(rest) >= EntryLen(table, c + 1)
         /\ Len(rest) >= EntryEnd(table.kind, rest) =>
              EntryEnd(table.kind, rest) = EntryLen(table, c + 1)
<1> DEFINE kind == table.kind
           size == EntryHeaderSize(kind)
           k == c + 1
           n == table.entries[k].len
           e == NthEntry(table, k)
<1>1. /\ table \in Tables /\ rest \in Seq(EntryBytes)
  BY DEF IterationInv
<1>2. /\ k \in 1..Len(table.entries)
      /\ \A i \in 1..Len(rest) : i <= EntryLen(table, k) => rest[i] = e[i]
  BY AtEntry
<1> HIDE DEF k
<1>3. /\ kind \in Kinds /\ size \in Nat /\ size >= 2 /\ n \in Nat
      /\ kind \in {"programs", "languages"} => n = 0
  BY <1>1, <1>2, TableIs
<1>4. \A b \in 1..EntryLen(table, k) : e[b].len = IF HasLength(kind) /\ b = size THEN n ELSE 0
  BY <1>1, <1>2, EntryIs
<1>5. EntryLen(table, k) = size + n
  BY DEF EntryLen
<1>6. EntryEnd(kind, rest) = size + IF HasLength(kind) /\ Len(rest) >= size
                                    THEN rest[size].len ELSE 0
  BY DEF EntryEnd
<1>7. ~HasLength(kind) => n = 0
  BY <1>3 DEF Kinds, HasLength
<1> HIDE DEF n, e, kind
<1>8. Len(rest) \in Nat
  BY <1>1, LenProperties
<1> HIDE DEF size
<1>9. ASSUME Len(rest) >= size, HasLength(kind) PROVE rest[size].len = n
  <2>1. size \in 1..Len(rest) /\ size <= EntryLen(table, k) /\ size \in 1..EntryLen(table, k)
    BY <1>3, <1>5, <1>8, <1>9
  <2>2. rest[size] = e[size]
    BY <1>2, <2>1
  <2>3. QED BY <1>4, <1>9, <2>1, <2>2
<1>10. /\ Len(rest) >= EntryEnd(kind, rest) <=> Len(rest) >= EntryLen(table, k)
       /\ Len(rest) >= EntryEnd(kind, rest) => EntryEnd(kind, rest) = EntryLen(table, k)
  <2>1. CASE ~HasLength(kind)
    BY <1>3, <1>5, <1>6, <1>7, <2>1
  <2>2. CASE HasLength(kind) /\ Len(rest) >= size
    BY <1>3, <1>5, <1>6, <1>9, <2>2
  <2>3. CASE HasLength(kind) /\ ~(Len(rest) >= size)
    BY <1>3, <1>5, <1>6, <1>8, <2>3
  <2>4. QED BY <2>1, <2>2, <2>3
<1>11. QED BY <1>10 DEF k, kind

LEMMA NextEntryKeepsListed == IterationInv /\ ListedInv /\ NextEntry => ListedInv'
<1> SUFFICES ASSUME IterationInv, ListedInv, NextEntry, ~spoilt PROVE ListedInv'
  BY DEF ListedInv, NextEntry
<1> DEFINE kind == table.kind
           n == EntryEnd(kind, rest)
           c == Len(items)
           e == SubSeq(rest, 1, n)
           item == FromBytes(kind, e)
<1>1. /\ Len(rest) > 0 /\ Len(rest) >= n /\ items' = Append(items, item)
      /\ rest' = Drop(kind, rest)
      /\ table' = table /\ received' = received /\ spoilt' = spoilt
  BY DEF NextEntry
<1>2. /\ table \in Tables /\ rest \in Seq(EntryBytes)
      /\ kind \in Kinds /\ items \in Seq(FittingItems(kind))
  BY TableIs DEF IterationInv
<1>3. CutShort /\ OnTheWay
  BY <1>1, EmptySeq DEF ListedInv
<1>4. /\ c \in 0..Len(table.entries) /\ c + 1 \in 1..Len(table.entries)
      /\ End(table, c) \in Nat /\ EntryLen(table, c + 1) \in Nat
      /\ End(table, c + 1) = End(table, c) + EntryLen(table, c + 1)
      /\ Len(rest) = Len(Seen) - End(table, c)
      /\ \A i \in 1..Len(rest) : i <= EntryLen(table, c + 1) => rest[i] = NthEntry(table, c + 1)[i]
  BY <1>1, <1>3, AtEntry
<1>5. n = EntryLen(table, c + 1)
  BY <1>1, <1>3, EndIsWritten
<1>6. n \in Nat /\ Len(rest) \in Nat /\ n <= Len(rest)
  BY <1>1, <1>2, <1>4, <1>5, LenProperties
<1>7. /\ Drop(kind, rest) \in Seq(EntryBytes)
      /\ Len(Drop(kind, rest)) = Len(rest) - n
      /\ \A i \in 1..(Len(rest) - n) : Drop(kind, rest)[i] = rest[n + i]
      /\ e \in Seq(EntryBytes) /\ Len(e) = n
      /\ \A i \in 1..n : e[i] = rest[i]
  BY <1>2, <1>6, DropIs
<1>8. e = NthEntry(table, c + 1)
  <2> DEFINE k == c + 1
             f == NthEntry(table, k)
  <2>1. k \in 1..Len(table.entries)
    BY <1>4
  <2> HIDE DEF k
  <2>2. f \in Seq(EntryBytes) /\ Len(f) = EntryLen(table, k)
    BY <1>2, <2>1, EntryIs
  <2> HIDE DEF f, e, n
  <2>3. \A i \in 1..n : i \in 1..Len(rest) /\ i <= n
    BY <1>6
  <2>4. \A i \in 1..n : e[i] = f[i]
    BY <1>4, <1>5, <1>7, <2>3 DEF f, k
  <2>5. e = f
    BY <1>5, <1>7, <2>2, <2>4, SeqEqual DEF k
  <2>6. QED BY <2>5 DEF f, k
<1>9. item = Expected(kind, NthEntry(table, c + 1))
  <2>1. FromBytes(kind, NthEntry(table, c + 1)) = Expected(kind, NthEntry(table, c + 1))
    BY <1>2, <1>4, WrittenEntryIs
  <2>2. QED BY <1>8, <2>1
<1>10. items' = Listing(table, c + 1)
  <2>1. Append(Listing(table, c), Expected(kind, NthEntry(table, c + 1))) = Listing(table, c + 1)
    BY <1>2, <1>4, ListingGrows
  <2>2. items = Listing(table, c)
    BY <1>3 DEF OnTheWay
  <2> HIDE DEF item, c
  <2>3. QED BY <1>1, <1>9, <2>1, <2>2
<1>11. Len(items') = c + 1
  <2>1. c + 1 \in 0..Len(table.entries)
    BY <1>4
  <2> DEFINE k == c + 1
  <2> HIDE DEF k
  <2>2. k \in 0..Len(table.entries)
    BY <2>1 DEF k
  <2>3. Len(Listing(table, k)) = k
    BY <1>2, <2>2, ListingIs
  <2>4. QED BY <1>10, <2>3 DEF k
<1> HIDE DEF c, n, item, e
<1>12. /\ Len(Seen) \in Nat
       /\ \A i \in 0..Len(table.entries) : End(table, i) <= Len(Seen) <=> i <= WholeEntries
  BY <1>2, <1>3, SeenIs
<1>13. c + 1 <= WholeEntries
  <2>1. c + 1 \in 0..Len(table.entries)
    BY <1>4
  <2>2. End(table, c + 1) <= Len(Seen)
    BY <1>4, <1>5, <1>6, <1>12
  <2>3. QED BY <1>12, <2>1, <2>2
<1>14. Len(rest') = Len(Seen) - End(table, c + 1)
  BY <1>1, <1>4, <1>5, <1>6, <1>7, <1>12
<1>15. \A i \in 1..Len(rest') : rest'[i] = Seen[End(table, c + 1) + i]
  <2> TAKE i \in 1..Len(rest')
  <2>1. i \in 1..(Len(rest) - n) /\ n + i \in 1..Len(rest)
        /\ End(table, c) + (n + i) = End(table, c + 1) + i
    <3>1. Len(rest') = Len(rest) - n
      BY <1>1, <1>7
    <3> DEFINE a == End(table, c)
               l == EntryLen(table, c + 1)
    <3>2. a \in Nat /\ l \in Nat /\ End(table, c + 1) = a + l /\ n = l
      BY <1>4, <1>5
    <3> HIDE DEF a, l
    <3>3. QED BY <1>6, <3>1, <3>2 DEF a
  <2>2. rest'[i] = rest[n + i] /\ rest[n + i] = Seen[End(table, c) + (n + i)]
    BY <1>1, <1>3, <1>7, <2>1 DEF OnTheWay, c
  <2>3. QED BY <2>1, <2>2
<1>16. Seen' = Seen /\ WholeEntries' = WholeEntries /\ CutShort' /\ ~spoilt'
  BY <1>1, <1>3 DEF Seen, WholeEntries, EndOf, CutShort
<1>17. OnTheWay'
  BY <1>1, <1>10, <1>11, <1>13, <1>14, <1>15, <1>16 DEF OnTheWay
<1>18. QED BY <1>16, <1>17 DEF ListedInv

LEMMA IncompleteKeepsListed == IterationInv /\ ListedInv /\ IncompleteEntry => ListedInv'
<1> SUFFICES ASSUME IterationInv, ListedInv, IncompleteEntry, ~spoilt PROVE ListedInv'
  BY DEF ListedInv, IncompleteEntry
<1> DEFINE kind == table.kind
           c == Len(items)
<1>1. /\ Len(rest) > 0 /\ Len(rest) < EntryEnd(kind, rest)
      /\ items' = Append(items, NotEnoughData) /\ rest' = << >>
      /\ table' = table /\ received' = received /\ spoilt' = spoilt
  BY DEF IncompleteEntry
<1>2. /\ table \in Tables /\ rest \in Seq(EntryBytes)
      /\ kind \in Kinds /\ items \in Seq(FittingItems(kind))
  BY TableIs DEF IterationInv
<1>3. CutShort /\ OnTheWay
  BY <1>1, EmptySeq DEF ListedInv
<1>4. /\ c \in 0..Len(table.entries) /\ c + 1 \in 1..Len(table.entries)
      /\ End(table, c) \in Nat /\ EntryLen(table, c + 1) \in Nat
      /\ End(table, c + 1) = End(table, c) + EntryLen(table, c + 1)
      /\ Len(rest) = Len(Seen) - End(table, c)
  BY <1>1, <1>3, AtEntry
<1>5. Len(rest) \in Nat /\ EntryEnd(kind, rest) \in Nat
  BY <1>2, LenProperties, EntryEndIs
<1>6. ~(Len(rest) >= EntryLen(table, c + 1))
  <2>1. Len(rest) >= EntryEnd(kind, rest) <=> Len(rest) >= EntryLen(table, c + 1)
    BY <1>1, <1>3, EndIsWritten
  <2>2. ~(Len(rest) >= EntryEnd(kind, rest))
    BY <1>1, <1>5
  <2>3. QED BY <2>1, <2>2
<1>7. /\ Len(Seen) \in Nat /\ WholeEntries \in 0..Len(table.entries)
      /\ \A i \in 0..Len(table.entries) : End(table, i) <= Len(Seen) <=> i <= WholeEntries
      /\ ExpectedItems = Listing(table, WholeEntries)
           \o (IF End(table, WholeEntries) < Len(Seen) THEN <<NotEnoughData>> ELSE << >>)
  BY <1>2, <1>3, SeenIs
<1>8. c <= WholeEntries /\ items = Listing(table, c)
  BY <1>3 DEF OnTheWay
<1> HIDE DEF c, kind
<1>9. c = WholeEntries
  <2>1. c + 1 \in 0..Len(table.entries) /\ ~(End(table, c + 1) <= Len(Seen))
    <3>1. Len(table.entries) \in Nat /\ Len(Seen) \in Nat
      BY <1>2, <1>7, TableIs
    <3>2. c + 1 \in 0..Len(table.entries)
      BY <1>4, <3>1
    <3> DEFINE k == c + 1
               a == End(table, c)
               l == EntryLen(table, k)
    <3>3. /\ a \in Nat /\ l \in Nat /\ End(table, k) = a + l
          /\ Len(rest) = Len(Seen) - a /\ ~(Len(rest) >= l)
      BY <1>4, <1>6
    <3> HIDE DEF a, l, k
    <3>4. ~(End(table, k) <= Len(Seen))
      BY <1>5, <3>1, <3>3
    <3>5. QED BY <3>2, <3>4 DEF k
  <2>2. ~(c + 1 <= WholeEntries)
    BY <1>7, <2>1
  <2>3. QED BY <1>4, <1>7, <1>8, <2>2
<1>10. End(table, WholeEntries) < Len(Seen)
  BY <1>1, <1>4, <1>7, <1>9
<1>11. ExpectedItems = items \o <<NotEnoughData>>
  BY <1>7, <1>8, <1>9, <1>10
<1>12. Append(items, NotEnoughData) = items \o <<NotEnoughData>>
  <2>1. NotEnoughData \in FittingItems(kind)
    BY ErrorsAreItems DEF Statuses
  <2>2. QED BY <1>2, <2>1, AppendIsConcat
<1>13. ExpectedItems' = ExpectedItems /\ CutShort' /\ ~spoilt'
  BY <1>1, <1>3, Zenon DEF ExpectedItems, WholeEntries, EndOf, CutShort
<1>14. QED BY <1>1, <1>11, <1>12, <1>13 DEF ListedInv

LEMMA ListedInvariant == EntriesSpec => []ListedInv
<1>1. IterationInv /\ ListedInv /\ [EntriesNext]_entryVars => ListedInv'
  <2>1. ListedInv /\ UNCHANGED entryVars => ListedInv'
    <3> SUFFICES ASSUME ListedInv, UNCHANGED entryVars PROVE ListedInv'
      OBVIOUS
    <3>1. /\ table' = table /\ received' = received /\ spoilt' = spoilt
          /\ rest' = rest /\ items' = items
      BY DEF entryVars
    <3>2. Seen' = Seen /\ WholeEntries' = WholeEntries
      BY <3>1, Zenon DEF Seen, WholeEntries, EndOf
    <3>3. CutShort' <=> CutShort
      BY <3>1 DEF CutShort
    <3>4. ExpectedItems' = ExpectedItems
      BY <3>1, <3>2, Zenon DEF ExpectedItems, EndOf
    <3>5. OnTheWay' <=> OnTheWay
      BY <3>1, <3>2 DEF OnTheWay
    <3>6. QED BY <3>1, <3>3, <3>4, <3>5 DEF ListedInv
  <2>2. QED BY <2>1, NextEntryKeepsListed, IncompleteKeepsListed DEF EntriesNext
<1>2. QED BY <1>1, ListedInitInv, IterationInvariant, PTL DEF EntriesSpec

LEMMA ListedInvIsListed == IterationInv /\ ListedInv => EntriesListed
<1> SUFFICES ASSUME IterationInv, ListedInv, ~spoilt
             PROVE  IsPrefix(items, ExpectedItems) /\ (rest = << >> => items = ExpectedItems)
  BY DEF EntriesListed
<1> DEFINE K == WholeEntries
           c == Len(items)
           end == IF End(table, K) < Len(Seen) THEN <<NotEnoughData>> ELSE << >>
           all == Listing(table, K) \o end
<1>1. /\ table \in Tables /\ items \in Seq(FittingItems(table.kind)) /\ CutShort
  BY DEF IterationInv, ListedInv
<1>2. /\ Len(Seen) \in Nat /\ K \in 0..Len(table.entries)
      /\ \A i \in 0..Len(table.entries) : End(table, i) <= Len(Seen) <=> i <= K
      /\ ExpectedItems = all
  BY <1>1, SeenIs
<1>3. items \in Seq(Items)
  <2>1. FittingItems(table.kind) \subseteq Items
    BY DEF FittingItems
  <2>2. QED BY <1>1, <2>1, SeqMonotonic
<1>4. Listing(table, K) \in Seq(Items) /\ Len(Listing(table, K)) = K
      /\ \A k \in 1..K : Listing(table, K)[k] = Expected(table.kind, NthEntry(table, k))
  BY <1>1, <1>2, ListingIs
<1>5. end \in Seq(Items)
  <2>1. NotEnoughData \in Items
    BY ErrorsAreItems DEF Statuses, FittingItems
  <2>2. QED BY <2>1
<1> HIDE DEF end
<1>6. /\ all \in Seq(Items) /\ Len(all) = K + Len(end)
      /\ \A k \in 1..K : all[k] = Listing(table, K)[k]
  <2>1. /\ all \in Seq(Items) /\ Len(all) = Len(Listing(table, K)) + Len(end)
        /\ \A k \in 1..(Len(Listing(table, K)) + Len(end)) :
             all[k] = IF k <= Len(Listing(table, K)) THEN Listing(table, K)[k]
                      ELSE end[k - Len(Listing(table, K))]
    BY <1>4, <1>5, ConcatProperties
  <2>2. Len(end) \in Nat /\ K \in Nat
    BY <1>2, <1>5, LenProperties
  <2>3. \A k \in 1..K : k \in 1..(K + Len(end)) /\ k <= K
    BY <2>2
  <2> HIDE DEF all, K
  <2>4. QED BY <1>4, <2>1, <2>3
<1>7. ASSUME OnTheWay
      PROVE  IsPrefix(items, all) /\ (rest = << >> => items = all)
  <2>1. c <= K /\ items = Listing(table, c) /\ Len(rest) = Len(Seen) - End(table, c)
    BY <1>7 DEF OnTheWay
  <2>2. c \in Nat /\ K \in Nat /\ Len(end) \in Nat
    BY <1>2, <1>3, <1>5, LenProperties
  <2>3. c \in 0..Len(table.entries)
    BY <1>1, <1>2, <2>1, <2>2, TableIs
  <2>4. Len(items) = c /\ \A k \in 1..c : items[k] = Expected(table.kind, NthEntry(table, k))
    BY <1>1, <2>1, <2>3, ListingIs
  <2> HIDE DEF all, K, c
  <2>5. \A k \in 1..c : items[k] = all[k]
    <3>1. \A k \in 1..c : k \in 1..K
      BY <2>1, <2>2
    <3>2. QED BY <1>4, <1>6, <2>4, <3>1
  <2>6. c <= Len(all) /\ Len(all) \in Nat
    BY <1>6, <2>1, <2>2
  <2>7. IsPrefix(items, all)
    <3> DEFINE z == 0
    <3>1. z \in Nat /\ z <= c /\ c <= c /\ z + 1 = 1 /\ c - z = c /\ \A i \in 1..c : z + i = i
      BY <2>2
    <3> HIDE DEF z
    <3>2. /\ SubSeq(items, z + 1, c) \in Seq(Items) /\ Len(SubSeq(items, z + 1, c)) = c - z
          /\ \A i \in 1..(c - z) : SubSeq(items, z + 1, c)[i] = items[z + i]
      BY <1>3, <2>2, <2>4, <3>1, CutIs
    <3>3. /\ SubSeq(all, z + 1, c) \in Seq(Items) /\ Len(SubSeq(all, z + 1, c)) = c - z
          /\ \A i \in 1..(c - z) : SubSeq(all, z + 1, c)[i] = all[z + i]
      BY <1>6, <2>2, <2>6, <3>1, CutIs
    <3>4. SubSeq(items, 1, c) = SubSeq(all, 1, c)
      <4> DEFINE a == SubSeq(items, 1, c)
                 b == SubSeq(all, 1, c)
      <4>1. /\ a \in Seq(Items) /\ Len(a) = c /\ \A i \in 1..c : a[i] = items[i]
            /\ b \in Seq(Items) /\ Len(b) = c /\ \A i \in 1..c : b[i] = all[i]
        BY <3>1, <3>2, <3>3
      <4> HIDE DEF a, b
      <4>2. a = b
        BY <2>5, <4>1, SeqEqual
      <4>3. QED BY <4>2 DEF a, b
    <3>5. QED BY <2>4, <2>6, <3>4 DEF IsPrefix
  <2>8. ASSUME rest = << >> PROVE items = all
    <3>1. Len(rest) = 0
      BY <2>8, EmptySeq
    <3>2. End(table, c) \in Nat /\ End(table, c) = Len(Seen)
      BY <1>1, <1>2, <2>1, <2>3, <3>1, Ends
    <3>3. c = K
      <4> SUFFICES ASSUME c # K PROVE FALSE
        OBVIOUS
      <4>1. c + 1 <= K /\ c + 1 \in 0..Len(table.entries) /\ c + 1 \in 1..Len(table.entries)
        BY <1>2, <2>1, <2>2, <2>3
      <4>2. End(table, c + 1) <= Len(Seen)
        BY <1>2, <4>1
      <4>3. End(table, c + 1) = End(table, c) + EntryLen(table, c + 1)
        BY <1>1, <2>3, <4>1, Ends
      <4>4. EntryLen(table, c + 1) \in Nat /\ EntryLen(table, c + 1) >= EntryHeaderSize(table.kind)
        <5> DEFINE k == c + 1
        <5>1. k \in 1..Len(table.entries)
          BY <4>1
        <5> HIDE DEF k
        <5>2. EntryLen(table, k) \in Nat /\ EntryLen(table, k) >= EntryHeaderSize(table.kind)
          BY <1>1, <5>1, EntryIs
        <5>3. QED BY <5>2 DEF k
      <4>5. EntryHeaderSize(table.kind) \in Nat /\ EntryHeaderSize(table.kind) >= 2
        BY <1>1, TableIs
      <4>6. QED BY <1>2, <3>2, <4>2, <4>3, <4>4, <4>5
    <3>4. end = << >>
      BY <1>2, <3>2, <3>3 DEF end, K
    <3>5. Len(end) = 0
      BY <3>4, EmptySeq
    <3>6. Len(all) = c
      BY <1>6, <2>2, <3>3, <3>5
    <3>7. QED BY <1>3, <1>6, <2>4, <2>5, <3>6, SeqEqual
  <2>9. QED BY <2>7, <2>8
<1>8. ASSUME items = all PROVE IsPrefix(items, all)
  <2> HIDE DEF all
  <2>1. Len(all) \in Nat
    BY <1>6, LenProperties
  <2>2. QED BY <1>8, <2>1 DEF IsPrefix
<1>9. OnTheWay \/ (rest = << >> /\ items = ExpectedItems)
  BY DEF ListedInv
<1> HIDE DEF all
<1>10. QED BY <1>2, <1>7, <1>8, <1>9

(* An iterator visits the entries of a table in the order in which they    *)
(* were written, and reports one that its parser refuses in its place.  Of *)
(* a table that is cut short anywhere it lists the entries that are whole, *)
(* then one error for an entry cut in two, and nothing after it.           *)
THEOREM ListsEntries == EntriesSpec => []EntriesListed
BY IterationInvariant, ListedInvariant, ListedInvIsListed, PTL

-------------------------------------------------------------------------------
(* Numbers of bits.                                                        *)

(* The bits of a header that are 1 whatever its value is.                  *)
AlwaysOne(format, unused, n) ==
  \/ Layouts[format][n] = Marker
  \/ Layouts[format][n] = Unused(1)[1] /\ unused

(* The terms of an accessor that see a bit, and what they make of it.      *)
LEMMA DecodedBits ==
  ASSUME NEW format, NEW unused, NEW value, ReadsBack(format, value, unused)
         \/ \E v : ReadsBack(format, v, unused)
  PROVE  \A x : x \in Decoded(Encoded(format, value, unused), Terms[format]) <=>
           \E term \in Terms[format], bit \in (0..7) :
             /\ bit \in term.mask
             /\ x = <<term.name, bit + term.shift>>
             /\ \/ AlwaysOne(format, unused, 8 * term.byte + 8 - bit)
                \/ Layouts[format][8 * term.byte + 8 - bit] \in value
<1> DEFINE bytes == Encoded(format, value, unused)
           Size == Len(Layouts[format]) \div 8 - 1
<1>1. \A term \in Terms[format] : term.byte \in 0..Size
  BY DEF ReadsBack, Encoded
<1>2. \A byte \in 0..Size :
        bytes[byte] = {bit \in 0..7 : \/ AlwaysOne(format, unused, 8 * byte + 8 - bit)
                                      \/ Layouts[format][8 * byte + 8 - bit] \in value}
  BY DEF Encoded, AlwaysOne
<1> HIDE DEF bytes, Size
<1>3. \A x : x \in Decoded(bytes, Terms[format]) <=>
             \E term \in Terms[format] : \E bit \in bytes[term.byte] \cap term.mask :
               x = <<term.name, bit + term.shift>>
  BY DEF Decoded
<1>4. \A x : x \in Decoded(bytes, Terms[format]) <=>
           \E term \in Terms[format], bit \in (0..7) :
             /\ bit \in term.mask
             /\ x = <<term.name, bit + term.shift>>
             /\ \/ AlwaysOne(format, unused, 8 * term.byte + 8 - bit)
                \/ Layouts[format][8 * term.byte + 8 - bit] \in value
  BY <1>1, <1>2, <1>3
<1>5. QED BY <1>4 DEF bytes

(* A header that is read back whenever a single one of its bits is 1 is    *)
(* read back whatever its value is: the accessors look at each bit by      *)
(* itself.  The run readers checks the single bits of every format.        *)
THEOREM OneBitStandsForAll ==
  ASSUME NEW format, NEW unused,
         \A bit \in ValueBits(format) : ReadsBack(format, {bit}, unused),
         NEW one \in ValueBits(format), NEW other \in ValueBits(format), one # other
  PROVE  \A value \in SUBSET ValueBits(format) : ReadsBack(format, value, unused)
<1> TAKE value \in SUBSET ValueBits(format)
<1> DEFINE D(v) == Decoded(Encoded(format, v, unused), Terms[format])
           Makes(x, term, bit) == bit \in term.mask /\ x = <<term.name, bit + term.shift>>
           At(term, bit) == 8 * term.byte + 8 - bit
<1>1. \A v, x : x \in D(v) <=>
           \E term \in Terms[format], bit \in (0..7) :
             /\ Makes(x, term, bit)
             /\ \/ AlwaysOne(format, unused, At(term, bit))
                \/ Layouts[format][At(term, bit)] \in v
  BY DecodedBits
<1>2. \A bit \in ValueBits(format) : D({bit}) = {bit}
  BY DEF ReadsBack
<1> HIDE DEF D, Makes, At
<1>3. D(value) \subseteq value
  <2> SUFFICES ASSUME NEW x \in D(value) PROVE x \in value
    OBVIOUS
  <2>1. PICK term \in Terms[format], bit \in (0..7) :
          /\ Makes(x, term, bit)
          /\ \/ AlwaysOne(format, unused, At(term, bit))
             \/ Layouts[format][At(term, bit)] \in value
    BY <1>1
  <2>2. ~AlwaysOne(format, unused, At(term, bit))
    <3>1. SUFFICES ASSUME AlwaysOne(format, unused, At(term, bit)) PROVE FALSE
      OBVIOUS
    <3>2. x \in D({one}) /\ x \in D({other})
      BY <1>1, <2>1, <3>1
    <3>3. QED BY <1>2, <3>2
  <2> DEFINE b == Layouts[format][At(term, bit)]
  <2>3. b \in value /\ x \in D({b})
    BY <1>1, <2>1, <2>2
  <2>4. QED BY <1>2, <2>3
<1>4. value \subseteq D(value)
  <2> SUFFICES ASSUME NEW x \in value PROVE x \in D(value)
    OBVIOUS
  <2>1. x \in D({x})
    BY <1>2
  <2>2. QED BY <1>1, <2>1
<1>5. \A term \in Terms[format] : term.byte \in DOMAIN Encoded(format, value, unused)
  BY DEF ReadsBack, Encoded
<1>6. QED BY <1>3, <1>4, <1>5 DEF ReadsBack, D
================================================================================
