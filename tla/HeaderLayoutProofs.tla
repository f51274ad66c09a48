-------------------------- MODULE HeaderLayoutProofs --------------------------
(***************************************************************************)
(* Facts about the accessors of adaptation fields and of PES headers: none *)
(* of them indexes outside of its buffer, and those of an adaptation field *)
(* read what was written.  The PES header's are in HeaderFieldsProofs.     *)
(***************************************************************************)
EXTENDS AdaptationField, PesHeader, SequenceTheorems, TLAPS


(* The bytes that buffers are made of.                                     *)
FlagNames == AFFlags \cup AFEFlags \cup PesFlags \cup ExtensionFlags
               \cup Extension2Flags \cup {"parsed"}
Names == AFFlags \cup AFEFlags \cup PesFlags \cup ExtensionFlags \cup Extension2Fields
           \cup {"flags", "extension flags", "extension 2 flags", "extension 2 marker",
                 "stuffing", "start_code", "stream_id", "pes_packet_length", "check bits",
                 "PES_header_data_length", "pack_field_length", "payload"}

Bytes == [of : Names, nr : Nat, flags : SUBSET FlagNames, len : Nat, ok : BOOLEAN]

-------------------------------------------------------------------------------
(* Slices.                                                                 *)

LEMMA SubSeqIs ==
  ASSUME NEW s \in Seq(Bytes), NEW from \in Nat, NEW to \in Nat, from <= to, to <= Len(s)
  PROVE  /\ SubSeq(s, from + 1, to) \in Seq(Bytes)
         /\ Len(SubSeq(s, from + 1, to)) = to - from
         /\ \A i \in 1..(to - from) : SubSeq(s, from + 1, to)[i] = s[from + i]
<1>1. \A i \in (from + 1)..to : s[i] \in Bytes
  <2>1. SUFFICES ASSUME NEW i \in (from + 1)..to PROVE s[i] \in Bytes
    OBVIOUS
  <2>2. Len(s) \in Nat
    BY LenProperties
  <2>3. i \in 1..Len(s)
    BY <2>2
  <2>4. QED BY <2>3, ElementOfSeq
<1> DEFINE m == from + 1
<1>2. m \in Int /\ to \in Int /\ m <= to + 1 /\ (to - m) + 1 = to - from
  OBVIOUS
<1>3. \A i \in m..to : s[i] \in Bytes
  BY <1>1
<1> HIDE DEF m
<1>4. /\ SubSeq(s, m, to) \in Seq(Bytes)
      /\ Len(SubSeq(s, m, to)) = IF m <= to THEN (to - m) + 1 ELSE 0
      /\ \A i \in 1..((to - m) + 1) : SubSeq(s, m, to)[i] = s[(m + i) - 1]
  BY <1>2, <1>3, SubSeqProperties
<1>5. Len(SubSeq(s, m, to)) = to - from
  BY <1>2, <1>4
<1>6. \A i \in 1..(to - from) : SubSeq(s, m, to)[i] = s[(m + i) - 1]
  BY <1>2, <1>4
<1>7. \A i \in 1..(to - from) : (m + i) - 1 = from + i
  BY DEF m
<1>8. QED BY <1>4, <1>5, <1>6, <1>7 DEF m

LEMMA ResultIs ==
  /\ \A b : Ok(b).status = "ok" /\ Ok(b).bytes = b
  /\ \A why : Err(why).status = why
  /\ NotEnoughData.status = "NotEnoughData"
  /\ FieldNotPresent.status = "FieldNotPresent"
  /\ MarkerBitNotSet.status = "MarkerBitNotSet"
BY DEF Ok, Err, NotEnoughData, FieldNotPresent, MarkerBitNotSet

(* An accessor that does not index out of bounds, and whose slice, if it   *)
(* has one, is of a certain size.                                          *)
Sized(result, size) ==
  /\ result.status # "panic"
  /\ result.status = "ok" => result.bytes \in Seq(Bytes) /\ Len(result.bytes) = size

LEMMA IndexIs ==
  ASSUME NEW s \in Seq(Bytes), NEW from \in Nat, NEW to \in Nat, from <= to, to <= Len(s)
  PROVE  /\ Index(s, from, to) = Ok(SubSeq(s, from + 1, to))
         /\ Sized(Index(s, from, to), to - from)
<1>1. Index(s, from, to) = Ok(SubSeq(s, from + 1, to))
  BY DEF Index
<1> DEFINE part == SubSeq(s, from + 1, to)
<1>2. part \in Seq(Bytes) /\ Len(part) = to - from
  BY SubSeqIs
<1> HIDE DEF part
<1>3. Sized(Ok(part), to - from)
  BY <1>2, ResultIs DEF Sized
<1>4. QED BY <1>1, <1>3 DEF part

LEMMA SliceSized ==
  ASSUME NEW s \in Seq(Bytes), NEW from \in Nat, NEW to \in Nat, from <= to
  PROVE  /\ Sized(Slice(s, from, to), to - from)
         /\ Sized(ExtensionSlice(s, from, to), to - from)
         /\ Sized(HeaderSlice(s, from, to), to - from)
<1>1. CASE to <= Len(s)
  BY <1>1, LenProperties, IndexIs, ResultIs
     DEF Slice, ExtensionSlice, HeaderSlice, Sized
<1>2. CASE ~(to <= Len(s))
  BY <1>2, LenProperties, ResultIs DEF Slice, ExtensionSlice, HeaderSlice, Sized
<1>3. QED BY <1>1, <1>2

LEMMA MarkedSized ==
  ASSUME NEW s \in Seq(Bytes), NEW where
  PROVE  Sized(Marked(s, where), Len(s)) /\ Sized(TimestampFromBytes(s), Len(s))
BY ResultIs DEF Marked, TimestampFromBytes, Sized

Safe(result) ==
  /\ result.status # "panic"
  /\ result.status = "ok" => result.bytes \in Seq(Bytes)

LEMMA SizedIsSafe == ASSUME NEW r, NEW n, Sized(r, n) PROVE Safe(r)
BY DEF Sized, Safe

LEMMA LenOfByte ==
  ASSUME NEW s \in Seq(Bytes), NEW i \in 1..Len(s)
  PROVE  s[i].len \in Nat
<1>1. s[i] \in Bytes
  BY ElementOfSeq
<1>2. QED BY <1>1 DEF Bytes

-------------------------------------------------------------------------------
(* No accessor of an adaptation field panics.                              *)

LEMMA OffsetsAreNat ==
  ASSUME NEW af
  PROVE  /\ OpcrOffset(af) \in Nat /\ SpliceCountdownOffset(af) \in Nat
         /\ TransportPrivateDataOffset(af) \in Nat
         /\ PiecewiseRateOffset(af) \in Nat /\ SeamlessSpliceOffset(af) \in Nat
BY DEF OpcrOffset, SpliceCountdownOffset, TransportPrivateDataOffset,
       PiecewiseRateOffset, SeamlessSpliceOffset, PCR_SIZE

LEMMA CountedSafe ==
  ASSUME NEW af \in Seq(Bytes), NEW offset \in Nat
  PROVE  Safe(Counted(af, offset))
<1> DEFINE head == Slice(af, offset, offset + 1)
<1>1. Sized(head, 1)
  BY SliceSized
<1>2. CASE head.status = "ok"
  <2> DEFINE n == head.bytes[1].len
  <2>1. n \in Nat
    BY <1>1, <1>2, LenOfByte DEF Sized
  <2>2. Counted(af, offset) = Slice(af, offset + 1, (offset + 1) + n)
    BY <1>2 DEF Counted, Then
  <2> HIDE DEF n, head
  <2>3. Sized(Slice(af, offset + 1, (offset + 1) + n), ((offset + 1) + n) - (offset + 1))
    <3> DEFINE from == offset + 1
               to == (offset + 1) + n
    <3>1. from \in Nat /\ to \in Nat /\ from <= to
      BY <2>1
    <3> HIDE DEF from, to
    <3>2. Sized(Slice(af, from, to), to - from)
      BY <3>1, SliceSized
    <3>3. QED BY <3>2 DEF from, to
  <2>4. QED BY <2>2, <2>3, SizedIsSafe
<1>3. CASE head.status # "ok"
  <2>1. Counted(af, offset) = head
    BY <1>3 DEF Counted, Then
  <2>2. QED BY <1>1, <2>1, SizedIsSafe
<1>4. QED BY <1>2, <1>3

LEMMA ExtensionSafe ==
  ASSUME NEW af \in Seq(Bytes)
  PROVE  Safe(AdaptationFieldExtension(af))
<1> DEFINE off == TransportPrivateDataOffset(af)
           head == Slice(af, off, off + 1)
<1>1. off \in Nat
  BY OffsetsAreNat
<1> HIDE DEF off
<1>2. Sized(head, 1)
  BY <1>1, SliceSized
<1>3. CASE ~AFHas(af, "private")
  <2>1. AdaptationFieldExtension(af) = Counted(af, off)
    BY <1>3 DEF AdaptationFieldExtension, off
  <2>2. QED BY <1>1, <2>1, CountedSafe
<1>4. CASE AFHas(af, "private") /\ head.status = "ok"
  <2> DEFINE at == off + head.bytes[1].len + 1
  <2>1. at \in Nat
    BY <1>1, <1>2, <1>4, LenOfByte DEF Sized
  <2>2. AdaptationFieldExtension(af) = Counted(af, at)
    BY <1>4 DEF AdaptationFieldExtension, off, Then
  <2> HIDE DEF at
  <2>3. QED BY <2>1, <2>2, CountedSafe
<1>5. CASE AFHas(af, "private") /\ head.status # "ok"
  <2>1. AdaptationFieldExtension(af) = head
    BY <1>5 DEF AdaptationFieldExtension, off, Then
  <2>2. QED BY <1>2, <2>1, SizedIsSafe
<1>6. QED BY <1>3, <1>4, <1>5

LEMMA AFEReadSafe ==
  ASSUME NEW ext \in Seq(Bytes), NEW field \in AFEFlags
  PROVE  Safe(AFERead(ext, field))
<1>1. CASE ext = << >> \/ ~AFHas(ext, field)
  BY <1>1, ResultIs DEF AFERead, Safe
<1>2. CASE ext # << >> /\ AFHas(ext, field) /\ field = "ltw"
  <2>1. AFERead(ext, field) = Slice(ext, 1, 3)
    BY <1>2 DEF AFERead
  <2>2. Sized(Slice(ext, 1, 3), 3 - 1)
    BY SliceSized
  <2>3. QED BY <2>1, <2>2, SizedIsSafe
<1>3. CASE ext # << >> /\ AFHas(ext, field) /\ field = "piecewise"
  <2> DEFINE at == PiecewiseRateOffset(ext)
  <2>1. AFERead(ext, field) = Slice(ext, at, at + 3)
    BY <1>3 DEF AFERead
  <2>2. at \in Nat
    BY OffsetsAreNat
  <2> HIDE DEF at
  <2>3. Sized(Slice(ext, at, at + 3), (at + 3) - at)
    BY <2>2, SliceSized
  <2>4. QED BY <2>1, <2>3, SizedIsSafe
<1>4. CASE ext # << >> /\ AFHas(ext, field) /\ field = "seamless"
  <2> DEFINE at == SeamlessSpliceOffset(ext)
             all == Slice(ext, at, at + 5)
  <2>1. AFERead(ext, field) = IF all.status = "ok" THEN TimestampFromBytes(all.bytes)
                                                   ELSE all
    BY <1>4 DEF AFERead, Then
  <2>2. at \in Nat
    BY OffsetsAreNat
  <2> HIDE DEF at
  <2>3. Sized(all, (at + 5) - at)
    BY <2>2, SliceSized
  <2> HIDE DEF all
  <2>4. all.status = "ok" => Sized(TimestampFromBytes(all.bytes), Len(all.bytes))
    BY <2>3, MarkedSized DEF Sized
  <2>5. QED BY <2>1, <2>3, <2>4, SizedIsSafe
<1>5. QED BY <1>1, <1>2, <1>3, <1>4 DEF AFEFlags

LEMMA AFReadSafe ==
  ASSUME NEW af \in Seq(Bytes), NEW field \in AFFields
  PROVE  Safe(AFRead(af, field))
<1>1. CASE field \in AFEFlags
  <2> DEFINE ext == AdaptationFieldExtension(af)
  <2>1. Safe(ext)
    BY ExtensionSafe
  <2>2. AFRead(af, field) = IF AFHas(af, "extension")
                            THEN IF ext.status = "ok" THEN AFERead(ext.bytes, field)
                                                      ELSE ext
                            ELSE FieldNotPresent
    BY <1>1 DEF AFRead, Then
  <2> HIDE DEF ext
  <2>3. ext.status = "ok" => Safe(AFERead(ext.bytes, field))
    BY <1>1, <2>1, AFEReadSafe DEF Safe
  <2>4. Safe(FieldNotPresent)
    BY ResultIs DEF Safe
  <2>5. QED BY <2>1, <2>2, <2>3, <2>4
<1>2. CASE field \notin AFEFlags /\ ~AFHas(af, field)
  BY <1>2, ResultIs DEF AFRead, Safe
<1>3. ASSUME AFHas(af, field), field = "pcr" PROVE Safe(AFRead(af, field))
  <2>1. AFRead(af, field) = Slice(af, 1, 7)
    BY <1>3 DEF AFRead, AFEFlags, PCR_SIZE
  <2>2. Sized(Slice(af, 1, 7), 7 - 1)
    BY SliceSized
  <2>3. QED BY <2>1, <2>2, SizedIsSafe
<1>4. ASSUME AFHas(af, field), field = "opcr" PROVE Safe(AFRead(af, field))
  <2> DEFINE at == OpcrOffset(af)
  <2>1. AFRead(af, field) = Slice(af, at, at + 6)
    BY <1>4 DEF AFRead, AFEFlags, PCR_SIZE
  <2>2. at \in Nat
    BY OffsetsAreNat
  <2> HIDE DEF at
  <2>3. Sized(Slice(af, at, at + 6), (at + 6) - at)
    BY <2>2, SliceSized
  <2>4. QED BY <2>1, <2>3, SizedIsSafe
<1>5. ASSUME AFHas(af, field), field = "splice" PROVE Safe(AFRead(af, field))
  <2> DEFINE at == SpliceCountdownOffset(af)
  <2>1. AFRead(af, field) = Slice(af, at, at + 1)
    BY <1>5 DEF AFRead, AFEFlags
  <2>2. at \in Nat
    BY OffsetsAreNat
  <2> HIDE DEF at
  <2>3. Sized(Slice(af, at, at + 1), (at + 1) - at)
    BY <2>2, SliceSized
  <2>4. QED BY <2>1, <2>3, SizedIsSafe
<1>6. ASSUME AFHas(af, field), field = "private" PROVE Safe(AFRead(af, field))
  <2>1. AFRead(af, field) = Counted(af, TransportPrivateDataOffset(af))
    BY <1>6 DEF AFRead, AFEFlags, TransportPrivateData
  <2>2. QED BY <2>1, OffsetsAreNat, CountedSafe
<1>7. QED BY <1>1, <1>2, <1>3, <1>4, <1>5, <1>6 DEF AFFields, AFFlags

-------------------------------------------------------------------------------
(* No accessor of a PES header panics.                                     *)

LEMMA PesSizes ==
  /\ PesSize("pts") = 5 /\ PesSize("dts") = 5 /\ PesSize("tref") = 5
  /\ PesSize("escr") = 6 /\ PesSize("es_rate") = 3
  /\ PesSize("dsm_trick_mode") = 1 /\ PesSize("additional_copy_info") = 1
  /\ PesSize("stream_id_extension") = 1
  /\ PesSize("crc") = 2 /\ PesSize("sequence_counter") = 2
  /\ PesSize("p_std_buffer") = 2
  /\ PesSize("private_data") = 16 /\ PesSize("pack_header") = 14
BY DEF PesSize, TIMESTAMP_SIZE, PRIVATE_DATA_SIZE, PACK_HEADER_SIZE

LEMMA HeaderOffsets ==
  ASSUME NEW pes
  PROVE  /\ PtsDtsEnd(pes) \in Nat /\ EscrEnd(pes) \in Nat /\ EsRateEnd(pes) \in Nat
         /\ DsmTrickModeEnd(pes) \in Nat /\ AdditionalCopyInfoEnd(pes) \in Nat
         /\ PesCrcEnd(pes) \in Nat
<1>1. PtsDtsEnd(pes) \in Nat
  BY DEF PtsDtsEnd, FIXED_HEADER_SIZE, TIMESTAMP_SIZE
<1>2. /\ SizeIf(pes, "escr") \in Nat /\ SizeIf(pes, "es_rate") \in Nat
      /\ SizeIf(pes, "dsm_trick_mode") \in Nat
      /\ SizeIf(pes, "additional_copy_info") \in Nat /\ SizeIf(pes, "crc") \in Nat
  BY PesSizes DEF SizeIf
<1>3. QED
  BY <1>1, <1>2 DEF EscrEnd, EsRateEnd, DsmTrickModeEnd, AdditionalCopyInfoEnd, PesCrcEnd

(* What from_bytes() has checked.                                          *)
Checked(pes) ==
  /\ pes \in Seq(Bytes) /\ Len(pes) >= 3
  /\ HeaderEnd(pes) \in Nat /\ HeaderEnd(pes) <= Len(pes)
  /\ PesCrcEnd(pes) <= HeaderEnd(pes)

LEMMA ParsedContentsIs ==
  ASSUME NEW s \in Seq(Bytes)
  PROVE  \/ ParsedContents(s).status = "ok" /\ ParsedContents(s).bytes = s
            /\ Checked(s)
         \/ ParsedContents(s).status \notin {"ok", "panic"}
<1>1. CASE Len(s) < 3
  BY <1>1, ResultIs DEF ParsedContents, FIXED_HEADER_SIZE
<1>2. CASE ~(Len(s) < 3)
  <2>1. Len(s) >= 3 /\ 3 \in 1..Len(s)
    BY <1>2, LenProperties
  <2>2. s[3].len \in Nat
    BY <2>1, LenOfByte
  <2>3. HeaderEnd(s) \in Nat
    BY <2>2 DEF HeaderEnd, FIXED_HEADER_SIZE
  <2>4. PesCrcEnd(s) \in Nat /\ Len(s) \in Nat
    BY HeaderOffsets, LenProperties
  <2>5. CASE \/ ~s[1].ok \/ HeaderEnd(s) > Len(s)
             \/ PesCrcEnd(s) > HeaderEnd(s)
    BY <1>2, <2>5, ResultIs DEF ParsedContents, FIXED_HEADER_SIZE
  <2>6. CASE ~(\/ ~s[1].ok \/ HeaderEnd(s) > Len(s)
               \/ PesCrcEnd(s) > HeaderEnd(s))
    <3>1. ParsedContents(s) = Ok(s)
      BY <1>2, <2>6 DEF ParsedContents, FIXED_HEADER_SIZE
    <3>2. Checked(s)
      BY <2>1, <2>3, <2>4, <2>6 DEF Checked
    <3>3. QED BY <3>1, <3>2, ResultIs
  <2>7. QED BY <2>5, <2>6
<1>3. QED BY <1>1, <1>2

LEMMA PtsDtsSafe ==
  ASSUME NEW pes \in Seq(Bytes), NEW field \in {"pts", "dts"}
  PROVE  Safe(PtsDts(pes, field))
<1>1. CASE ~PesHas(pes, "pts") \/ ~PesHas(pes, field)
  BY <1>1, ResultIs DEF PtsDts, Safe
<1>2. CASE PesHas(pes, "pts") /\ PesHas(pes, field)
  <2> DEFINE end == PtsDtsEnd(pes)
             both == HeaderSlice(pes, 3, end)
             at == IF field = "pts" THEN 0 ELSE 5
             one == Index(both.bytes, at, at + 5)
  <2>1. PtsDts(pes, field) = IF both.status = "ok"
                             THEN IF one.status = "ok" THEN TimestampFromBytes(one.bytes)
                                                       ELSE one
                             ELSE both
    BY <1>2 DEF PtsDts, Then, FIXED_HEADER_SIZE, TIMESTAMP_SIZE
  <2>2. end \in Nat /\ 3 <= end /\ at \in Nat /\ at + 5 <= end - 3
    BY <1>2 DEF PtsDtsEnd, FIXED_HEADER_SIZE, TIMESTAMP_SIZE
  <2> HIDE DEF end, at
  <2>3. Sized(both, end - 3)
    BY <2>2, SliceSized
  <2> HIDE DEF both
  <2>4. ASSUME both.status = "ok"
        PROVE  Sized(one, 5) /\ (one.status = "ok" => Safe(TimestampFromBytes(one.bytes)))
    <3>1. both.bytes \in Seq(Bytes) /\ Len(both.bytes) = end - 3
      BY <2>3, <2>4 DEF Sized
    <3> DEFINE to == at + 5
    <3>2. to \in Nat /\ at <= to /\ to <= Len(both.bytes) /\ to - at = 5
      BY <2>2, <3>1
    <3> HIDE DEF to
    <3>3. Sized(Index(both.bytes, at, to), to - at)
      BY <2>2, <3>1, <3>2, IndexIs
    <3>4. Sized(one, 5)
      BY <3>2, <3>3 DEF to
    <3> HIDE DEF one
    <3>5. QED BY <3>4, MarkedSized, SizedIsSafe DEF Sized
  <2> HIDE DEF one
  <2>5. QED BY <2>1, <2>3, <2>4, SizedIsSafe
<1>3. QED BY <1>1, <1>2

LEMMA FieldAtSafe ==
  ASSUME NEW pes \in Seq(Bytes), NEW field, PesSize(field) \in Nat, NEW start \in Nat
  PROVE  Safe(FieldAt(pes, field, start))
<1> DEFINE to == start + PesSize(field)
<1>1. to \in Nat /\ start <= to
  OBVIOUS
<1>2. FieldAt(pes, field, start) = IF PesHas(pes, field) THEN HeaderSlice(pes, start, to)
                                                       ELSE FieldNotPresent
  BY DEF FieldAt
<1> HIDE DEF to
<1>3. Sized(HeaderSlice(pes, start, to), to - start)
  BY <1>1, SliceSized
<1>4. Safe(FieldNotPresent)
  BY ResultIs DEF Safe
<1>5. QED BY <1>2, <1>3, <1>4, SizedIsSafe

LEMMA PesExtensionSafe ==
  ASSUME NEW pes, Checked(pes)
  PROVE  Safe(PesExtension(pes))
<1> DEFINE from == PesCrcEnd(pes)
           to == HeaderEnd(pes)
           ext == HeaderSlice(pes, from, to)
<1>1. pes \in Seq(Bytes) /\ from \in Nat /\ to \in Nat /\ from <= to
  BY HeaderOffsets DEF Checked
<1>2. PesExtension(pes) = IF ~PesHas(pes, "pes_extension") THEN FieldNotPresent
                          ELSE IF ext.status = "ok"
                          THEN IF ext.bytes = << >> THEN NotEnoughData ELSE Ok(ext.bytes)
                          ELSE ext
  BY DEF PesExtension, Then
<1> HIDE DEF from, to
<1>3. Sized(ext, to - from)
  BY <1>1, SliceSized
<1> HIDE DEF ext
<1>4. Safe(FieldNotPresent) /\ Safe(NotEnoughData) /\ Safe(ext)
  BY <1>3, ResultIs, SizedIsSafe DEF Safe
<1>5. ext.status = "ok" => Safe(Ok(ext.bytes))
  BY <1>4, ResultIs DEF Safe
<1>6. QED BY <1>2, <1>4, <1>5

(* The offsets in an extension are numbers, or missing.                    *)
LEMMA ExtensionOffsets ==
  ASSUME NEW ext \in Seq(Bytes)
  PROVE  /\ PrivateDataEnd(ext) \in Nat
         /\ PackHeaderEnd(ext) \in Nat \cup {NoOffset}
         /\ SequenceCounterEnd(ext) \in Nat \cup {NoOffset}
         /\ PStdBufferEnd(ext) \in Nat \cup {NoOffset}
         /\ Has(ext, "pack_header") /\ PackHeaderEnd(ext) # NoOffset
              => PrivateDataEnd(ext) + 1 <= PackHeaderEnd(ext)
<1> DEFINE start == PrivateDataEnd(ext)
           n == ext[start + 1].len
<1>1. start \in Nat
  BY DEF PrivateDataEnd, PRIVATE_DATA_SIZE
<1> HIDE DEF start
<1>2. start < Len(ext) => n \in Nat
  <2>1. SUFFICES ASSUME start < Len(ext) PROVE n \in Nat
    OBVIOUS
  <2> DEFINE i == start + 1
  <2>2. i \in 1..Len(ext)
    BY <1>1, <2>1, LenProperties
  <2> HIDE DEF i
  <2>3. ext[i].len \in Nat
    BY <2>2, LenOfByte
  <2>4. QED BY <2>3 DEF i
<1> HIDE DEF n
<1>3. PackHeaderEnd(ext) = IF ~Has(ext, "pack_header") THEN start
                           ELSE IF start >= Len(ext) THEN NoOffset ELSE start + 1 + n
  BY DEF PackHeaderEnd, start, n
<1>4. /\ PackHeaderEnd(ext) \in Nat \cup {NoOffset}
      /\ Has(ext, "pack_header") /\ PackHeaderEnd(ext) # NoOffset
           => start + 1 <= PackHeaderEnd(ext)
  BY <1>1, <1>2, <1>3, LenProperties
<1>5. SequenceCounterEnd(ext) \in Nat \cup {NoOffset}
  BY <1>4, PesSizes DEF SequenceCounterEnd, Past
<1>6. PStdBufferEnd(ext) \in Nat \cup {NoOffset}
  BY <1>5, PesSizes DEF PStdBufferEnd, Past
<1>7. QED BY <1>1, <1>4, <1>5, <1>6 DEF start

LEMMA ExtensionFieldSafe ==
  ASSUME NEW ext \in Seq(Bytes), NEW field, PesSize(field) \in Nat,
         NEW start \in Nat \cup {NoOffset}
  PROVE  Safe(ExtensionField(ext, field, start))
<1>1. CASE start = NoOffset
  BY <1>1, ResultIs DEF ExtensionField, Safe
<1>2. CASE start # NoOffset
  <2> DEFINE to == start + PesSize(field)
  <2>1. start \in Nat /\ to \in Nat /\ start <= to
    BY <1>2
  <2>2. ExtensionField(ext, field, start) = ExtensionSlice(ext, start, to)
    BY <1>2 DEF ExtensionField
  <2> HIDE DEF to
  <2>3. Sized(ExtensionSlice(ext, start, to), to - start)
    BY <2>1, SliceSized
  <2>4. QED BY <2>2, <2>3, SizedIsSafe
<1>3. QED BY <1>1, <1>2

LEMMA MarkedSafe ==
  ASSUME NEW r, Safe(r), r.status = "ok", NEW where
  PROVE  Safe(Marked(r.bytes, where)) /\ Safe(TimestampFromBytes(r.bytes))
BY MarkedSized, SizedIsSafe DEF Safe

LEMMA PackHeaderSafe ==
  ASSUME NEW ext \in Seq(Bytes), Has(ext, "pack_header")
  PROVE  Safe(PackHeader(ext))
<1>1. CASE PackHeaderEnd(ext) = NoOffset
  BY <1>1, ResultIs DEF PackHeader, Safe
<1>2. CASE PackHeaderEnd(ext) # NoOffset
  <2> DEFINE from == PrivateDataEnd(ext) + 1
             to == PackHeaderEnd(ext)
             all == ExtensionSlice(ext, from, to)
  <2>1. from \in Nat /\ to \in Nat /\ from <= to
    BY <1>2, ExtensionOffsets
  <2>2. PackHeader(ext) = IF all.status = "ok"
                          THEN IF Len(all.bytes) < PACK_HEADER_SIZE THEN NotEnoughData
                               ELSE Marked(all.bytes, 1..5)
                          ELSE all
    BY <1>2 DEF PackHeader, Then
  <2> HIDE DEF from, to
  <2>3. Sized(all, to - from)
    BY <2>1, SliceSized
  <2> HIDE DEF all
  <2>4. Safe(all) /\ Safe(NotEnoughData)
    BY <2>3, SizedIsSafe, ResultIs DEF Safe
  <2>5. all.status = "ok" => Safe(Marked(all.bytes, 1..5))
    BY <2>4, MarkedSafe
  <2>6. QED BY <2>2, <2>4, <2>5
<1>3. QED BY <1>1, <1>2

LEMMA Extension2Safe ==
  ASSUME NEW ext \in Seq(Bytes), NEW field
  PROVE  Safe(Extension2(ext, field))
<1> DEFINE start == PStdBufferEnd(ext)
           flags == ext[start + 2].flags
           one == Index(ext, start + 1, start + 2)
           tref == ExtensionSlice(ext, start + 2, (start + 2) + 5)
<1>1. start \in Nat \cup {NoOffset} /\ Len(ext) \in Nat
  BY ExtensionOffsets, LenProperties
<1>2. Safe(FieldNotPresent) /\ Safe(NotEnoughData) /\ Safe(MarkerBitNotSet)
  BY ResultIs DEF Safe
<1>3. CASE start = NoOffset \/ start >= Len(ext) \/ ~ext[start + 1].ok
  BY <1>2, <1>3 DEF Extension2
<1>4. CASE ~(start = NoOffset \/ start >= Len(ext) \/ ~ext[start + 1].ok)
  <2>1. CASE start + 1 >= Len(ext)
    BY <1>2, <1>4, <2>1 DEF Extension2
  <2>2. CASE ~(start + 1 >= Len(ext))
    <3>1. Extension2(ext, field) =
            IF field = "stream_id_extension"
            THEN IF "stream_id_extension_flag" \in flags THEN FieldNotPresent ELSE one
            ELSE IF "stream_id_extension_flag" \notin flags
                    \/ "tref_extension_flag" \in flags THEN FieldNotPresent
            ELSE IF tref.status = "ok" THEN TimestampFromBytes(tref.bytes) ELSE tref
      BY <1>4, <2>2 DEF Extension2, Then, TIMESTAMP_SIZE
    <3> HIDE DEF start, flags
    <3>2. Safe(one) /\ Safe(tref)
      <4> DEFINE a == start + 1
                 b == start + 2
                 c == (start + 2) + 5
      <4>1. a \in Nat /\ b \in Nat /\ c \in Nat /\ a <= b /\ b <= Len(ext) /\ b <= c
        BY <1>1, <1>4, <2>2
      <4> HIDE DEF a, b, c
      <4>2. Sized(Index(ext, a, b), b - a)
        BY <4>1, IndexIs
      <4>3. Sized(ExtensionSlice(ext, b, c), c - b)
        BY <4>1, SliceSized
      <4>4. QED BY <4>2, <4>3, SizedIsSafe DEF a, b, c
    <3> HIDE DEF one, tref
    <3>3. tref.status = "ok" => Safe(TimestampFromBytes(tref.bytes))
      BY <3>2, MarkedSafe
    <3>4. QED BY <1>2, <3>1, <3>2, <3>3
  <2>3. QED BY <2>1, <2>2
<1>5. QED BY <1>3, <1>4

LEMMA ExtensionReadSafe ==
  ASSUME NEW ext \in Seq(Bytes),
         NEW field \in (ExtensionFlags \ {"extension_2"}) \cup Extension2Fields
  PROVE  Safe(ExtensionRead(ext, field))
<1>0. Safe(FieldNotPresent)
  BY ResultIs DEF Safe
<1>1. CASE field \in Extension2Fields
  BY <1>0, <1>1, Extension2Safe DEF ExtensionRead
<1>2. CASE field \notin Extension2Fields /\ ~Has(ext, field)
  BY <1>0, <1>2 DEF ExtensionRead
<1>3. ASSUME Has(ext, field), field = "private_data" PROVE Safe(ExtensionRead(ext, field))
  <2>1. ExtensionRead(ext, field) = ExtensionField(ext, "private_data", 1)
    BY <1>3 DEF ExtensionRead, Extension2Fields
  <2>2. QED BY <2>1, PesSizes, ExtensionFieldSafe
<1>4. ASSUME Has(ext, field), field = "pack_header" PROVE Safe(ExtensionRead(ext, field))
  <2>1. ExtensionRead(ext, field) = PackHeader(ext)
    BY <1>4 DEF ExtensionRead, Extension2Fields
  <2>2. QED BY <1>4, <2>1, PackHeaderSafe
<1>5. ASSUME Has(ext, field), field = "sequence_counter"
      PROVE  Safe(ExtensionRead(ext, field))
  <2> DEFINE r == ExtensionField(ext, "sequence_counter", PackHeaderEnd(ext))
  <2>1. ExtensionRead(ext, field) = IF r.status = "ok" THEN Marked(r.bytes, {1, 2}) ELSE r
    BY <1>5 DEF ExtensionRead, Extension2Fields, Then
  <2>2. Safe(r)
    <3> DEFINE at == PackHeaderEnd(ext)
    <3>1. at \in Nat \cup {NoOffset} /\ PesSize("sequence_counter") \in Nat
      BY PesSizes, ExtensionOffsets
    <3> HIDE DEF at
    <3>2. Safe(ExtensionField(ext, "sequence_counter", at))
      BY <3>1, ExtensionFieldSafe
    <3>3. QED BY <3>2 DEF at
  <2> HIDE DEF r
  <2>3. QED BY <2>1, <2>2, MarkedSafe
<1>6. ASSUME Has(ext, field), field = "p_std_buffer"
      PROVE  Safe(ExtensionRead(ext, field))
  <2> DEFINE r == ExtensionField(ext, "p_std_buffer", SequenceCounterEnd(ext))
  <2>1. ExtensionRead(ext, field) = IF r.status = "ok" THEN Marked(r.bytes, {1}) ELSE r
    BY <1>6 DEF ExtensionRead, Extension2Fields, Then
  <2>2. Safe(r)
    <3> DEFINE at == SequenceCounterEnd(ext)
    <3>1. at \in Nat \cup {NoOffset} /\ PesSize("p_std_buffer") \in Nat
      BY PesSizes, ExtensionOffsets
    <3> HIDE DEF at
    <3>2. Safe(ExtensionField(ext, "p_std_buffer", at))
      BY <3>1, ExtensionFieldSafe
    <3>3. QED BY <3>2 DEF at
  <2> HIDE DEF r
  <2>3. QED BY <2>1, <2>2, MarkedSafe
<1>7. QED BY <1>1, <1>2, <1>3, <1>4, <1>5, <1>6 DEF ExtensionFlags

LEMMA ParsedReadSafe ==
  ASSUME NEW pes, Checked(pes), NEW field \in PesFields
  PROVE  Safe(ParsedRead(pes, field))
<1>0. pes \in Seq(Bytes)
  BY DEF Checked
<1>1. CASE field \in {"pts", "dts"}
  BY <1>0, <1>1, PtsDtsSafe DEF ParsedRead
<1>2. CASE field = "escr"
  <2>1. ParsedRead(pes, field) = FieldAt(pes, "escr", PtsDtsEnd(pes))
    BY <1>2 DEF ParsedRead
  <2>2. QED BY <1>0, <2>1, FieldAtSafe, HeaderOffsets, PesSizes
<1>3. CASE field = "es_rate"
  <2>1. ParsedRead(pes, field) = FieldAt(pes, "es_rate", EscrEnd(pes))
    BY <1>3 DEF ParsedRead
  <2>2. QED BY <1>0, <2>1, FieldAtSafe, HeaderOffsets, PesSizes
<1>4. CASE field = "dsm_trick_mode"
  <2>1. ParsedRead(pes, field) = FieldAt(pes, "dsm_trick_mode", EsRateEnd(pes))
    BY <1>4 DEF ParsedRead
  <2>2. QED BY <1>0, <2>1, FieldAtSafe, HeaderOffsets, PesSizes
<1>5. CASE field = "additional_copy_info"
  <2> DEFINE r == FieldAt(pes, "additional_copy_info", DsmTrickModeEnd(pes))
  <2>1. ParsedRead(pes, field) = IF r.status = "ok" THEN Marked(r.bytes, {1}) ELSE r
    BY <1>5 DEF ParsedRead, Then
  <2>2. Safe(r)
    BY <1>0, FieldAtSafe, HeaderOffsets, PesSizes
  <2> HIDE DEF r
  <2>3. QED BY <2>1, <2>2, MarkedSafe
<1>6. CASE field = "crc"
  <2>1. ParsedRead(pes, field) = FieldAt(pes, "crc", AdditionalCopyInfoEnd(pes))
    BY <1>6 DEF ParsedRead
  <2>2. QED BY <1>0, <2>1, FieldAtSafe, HeaderOffsets, PesSizes
<1>7. CASE field \in (ExtensionFlags \ {"extension_2"}) \cup Extension2Fields
  <2> DEFINE r == PesExtension(pes)
  <2>1. ParsedRead(pes, field) = IF r.status = "ok" THEN ExtensionRead(r.bytes, field) ELSE r
    BY <1>7 DEF ParsedRead, Then, ExtensionFlags, Extension2Fields
  <2>2. Safe(r)
    BY PesExtensionSafe
  <2> HIDE DEF r
  <2>3. r.status = "ok" => Safe(ExtensionRead(r.bytes, field))
    BY <1>7, <2>2, ExtensionReadSafe DEF Safe
  <2>4. QED BY <2>1, <2>2, <2>3
<1>8. QED BY <1>1, <1>2, <1>3, <1>4, <1>5, <1>6, <1>7 DEF PesFields, PesFlags

(* What PesHeader leaves for the contents.                                 *)
LEMMA RestSafe ==
  ASSUME NEW s \in Seq(Bytes)
  PROVE  \/ /\ PesHeaderFromBytes(s) = Ok(s) /\ Len(s) >= 6
            /\ Index(s, 6, Len(s)) = Ok(SubSeq(s, 7, Len(s)))
            /\ SubSeq(s, 7, Len(s)) \in Seq(Bytes)
         \/ PesHeaderFromBytes(s).status \notin {"ok", "panic"}
<1>1. CASE Len(s) < 6 \/ \E n \in 1..3 : ~s[n].ok
  BY <1>1, ResultIs DEF PesHeaderFromBytes
<1>2. CASE ~(Len(s) < 6 \/ \E n \in 1..3 : ~s[n].ok)
  <2>1. PesHeaderFromBytes(s) = Ok(s)
    BY <1>2 DEF PesHeaderFromBytes
  <2> DEFINE to == Len(s)
  <2>2. to \in Nat /\ 6 <= to /\ to <= Len(s)
    BY <1>2, LenProperties
  <2> HIDE DEF to
  <2>3. Index(s, 6, to) = Ok(SubSeq(s, 6 + 1, to)) /\ SubSeq(s, 6 + 1, to) \in Seq(Bytes)
    BY <2>2, IndexIs, SubSeqIs
  <2>4. QED BY <2>1, <2>2, <2>3 DEF to
<1>3. QED BY <1>1, <1>2

LEMMA PesReadSafe ==
  ASSUME NEW s \in Seq(Bytes), NEW field \in PesFields
  PROVE  Safe(PesRead(s, field)) /\ Safe(PesPayload(s))
<1> DEFINE header == PesHeaderFromBytes(s)
           rest == SubSeq(s, 7, Len(s))
           parsed == ParsedContents(rest)
<1>1. CASE header.status \notin {"ok", "panic"}
  <2>1. PesRead(s, field) = header /\ PesPayload(s) = header
    BY <1>1 DEF PesRead, PesPayload, WithContents, Then
  <2>2. QED BY <1>1, <2>1 DEF Safe
<1>2. CASE /\ header = Ok(s) /\ Len(s) >= 6
           /\ Index(s, 6, Len(s)) = Ok(rest) /\ rest \in Seq(Bytes)
  <2>1. /\ PesRead(s, field) =
             IF IsParsed(s)
             THEN IF parsed.status = "ok" THEN ParsedRead(parsed.bytes, field) ELSE parsed
             ELSE FieldNotPresent
        /\ PesPayload(s) =
             IF IsParsed(s)
             THEN IF parsed.status = "ok" THEN Payload(parsed.bytes) ELSE parsed
             ELSE Ok(rest)
    BY <1>2, ResultIs DEF PesRead, PesPayload, WithContents, Then
  <2> HIDE DEF header
  <2>2. Safe(FieldNotPresent) /\ Safe(Ok(rest))
    BY <1>2, ResultIs DEF Safe
  <2> HIDE DEF rest
  <2>3. CASE parsed.status \notin {"ok", "panic"}
    BY <2>1, <2>2, <2>3 DEF Safe
  <2>4. CASE parsed.status = "ok" /\ parsed.bytes = rest /\ Checked(rest)
    <3>1. Safe(ParsedRead(rest, field))
      BY <2>4, ParsedReadSafe
    <3>2. Safe(Payload(rest))
      <4> DEFINE from == HeaderEnd(rest)
                 to == Len(rest)
      <4>1. from \in Nat /\ to \in Nat /\ from <= to /\ to <= Len(rest)
        BY <2>4, <1>2, LenProperties DEF Checked
      <4>2. Payload(rest) = Index(rest, from, to)
        BY DEF Payload
      <4> HIDE DEF from, to
      <4>3. Sized(Index(rest, from, to), to - from)
        BY <1>2, <4>1, IndexIs
      <4>4. QED BY <4>2, <4>3, SizedIsSafe
    <3>3. QED BY <2>1, <2>2, <2>4, <3>1, <3>2
  <2>5. QED BY <1>2, <2>3, <2>4, ParsedContentsIs
<1>3. QED BY <1>1, <1>2, RestSafe

-------------------------------------------------------------------------------
(* Where the fields of a written buffer are.                               *)

(* The sequence s holds x behind its first `at' elements.                  *)
Holds(s, at, x) ==
  /\ at \in Nat /\ at + Len(x) <= Len(s)
  /\ \A i \in 1..Len(x) : s[at + i] = x[i]

LEMMA HoldsItself == ASSUME NEW s \in Seq(Bytes) PROVE Holds(s, 0, s)
BY LenProperties DEF Holds

LEMMA HoldsWithin ==
  ASSUME NEW s \in Seq(Bytes), NEW x \in Seq(Bytes), NEW y \in Seq(Bytes),
         NEW at, NEW within, Holds(s, at, x), Holds(x, within, y)
  PROVE  Holds(s, at + within, y)
<1>1. Len(s) \in Nat /\ Len(x) \in Nat /\ Len(y) \in Nat /\ at \in Nat /\ within \in Nat
  BY LenProperties DEF Holds
<1>2. (at + within) + Len(y) <= Len(s)
  BY <1>1 DEF Holds
<1>3. ASSUME NEW i \in 1..Len(y) PROVE s[(at + within) + i] = y[i]
  <2>1. within + i \in 1..Len(x) /\ at + (within + i) = (at + within) + i
    BY <1>1 DEF Holds
  <2>2. s[at + (within + i)] = x[within + i] /\ x[within + i] = y[i]
    BY <2>1 DEF Holds
  <2>3. QED BY <2>1, <2>2
<1>4. QED BY <1>1, <1>2, <1>3 DEF Holds

LEMMA TwoParts ==
  ASSUME NEW a \in Seq(Bytes), NEW b \in Seq(Bytes)
  PROVE  /\ a \o b \in Seq(Bytes) /\ Len(a \o b) = Len(a) + Len(b)
         /\ Holds(a \o b, 0, a) /\ Holds(a \o b, Len(a), b)
<1>1. Len(a) \in Nat /\ Len(b) \in Nat
  BY LenProperties
<1>2. /\ a \o b \in Seq(Bytes) /\ Len(a \o b) = Len(a) + Len(b)
      /\ \A i \in 1..Len(a) + Len(b) : (a \o b)[i] =
           IF i <= Len(a) THEN a[i] ELSE b[i - Len(a)]
  BY ConcatProperties
<1> DEFINE w == a \o b
<1> HIDE DEF w
<1>3. /\ w \in Seq(Bytes) /\ Len(w) = Len(a) + Len(b)
      /\ \A i \in 1..Len(a) + Len(b) : w[i] = IF i <= Len(a) THEN a[i] ELSE b[i - Len(a)]
  BY <1>2 DEF w
<1>4. Holds(w, 0, a)
  BY <1>1, <1>3 DEF Holds
<1>5. Holds(w, Len(a), b)
  <2>1. ASSUME NEW i \in 1..Len(b) PROVE w[Len(a) + i] = b[i]
    <3>1. Len(a) + i \in 1..Len(a) + Len(b) /\ ~(Len(a) + i <= Len(a)) /\ (Len(a) + i) - Len(a) = i
      BY <1>1
    <3>2. QED BY <1>3, <3>1
  <2>2. QED BY <1>1, <1>3, <2>1 DEF Holds
<1>6. QED BY <1>3, <1>4, <1>5 DEF w

(* A part in front of the last.                                            *)
LEMMA HoldsInFront ==
  ASSUME NEW a \in Seq(Bytes), NEW b \in Seq(Bytes), NEW x \in Seq(Bytes),
         NEW at, Holds(a, at, x)
  PROVE  Holds(a \o b, at, x)
<1>1. a \o b \in Seq(Bytes) /\ Holds(a \o b, 0, a)
  BY TwoParts
<1>2. Holds(a \o b, 0 + at, x)
  BY <1>1, HoldsWithin
<1>3. 0 + at = at
  BY DEF Holds
<1>4. QED BY <1>2, <1>3

LEMMA HoldsAtStart ==
  ASSUME NEW w \in Seq(Bytes), NEW a \in Seq(Bytes), NEW x \in Seq(Bytes),
         NEW at, Holds(w, 0, a), Holds(a, at, x)
  PROVE  Holds(w, at, x)
<1>1. Holds(w, 0 + at, x)
  BY HoldsWithin
<1>2. 0 + at = at
  BY DEF Holds
<1>3. QED BY <1>1, <1>2

LEMMA ThreeParts ==
  ASSUME NEW a \in Seq(Bytes), NEW b \in Seq(Bytes), NEW c \in Seq(Bytes)
  PROVE  LET w == a \o b \o c IN
         /\ w \in Seq(Bytes) /\ Len(w) = Len(a) + Len(b) + Len(c)
         /\ Holds(w, 0, a) /\ Holds(w, Len(a), b) /\ Holds(w, Len(a) + Len(b), c)
<1> DEFINE v == a \o b
<1>1. v \in Seq(Bytes) /\ Len(v) = Len(a) + Len(b) /\ Holds(v, 0, a) /\ Holds(v, Len(a), b)
  BY TwoParts
<1> HIDE DEF v
<1>2. v \o c \in Seq(Bytes) /\ Len(v \o c) = Len(v) + Len(c) /\ Holds(v \o c, Len(v), c)
  BY <1>1, TwoParts
<1>3. Holds(v \o c, 0, a) /\ Holds(v \o c, Len(a), b)
  BY <1>1, HoldsInFront
<1>4. QED BY <1>1, <1>2, <1>3 DEF v

LEMMA FourParts ==
  ASSUME NEW a \in Seq(Bytes), NEW b \in Seq(Bytes), NEW c \in Seq(Bytes),
         NEW d \in Seq(Bytes)
  PROVE  LET w == a \o b \o c \o d IN
         /\ w \in Seq(Bytes) /\ Len(w) = Len(a) + Len(b) + Len(c) + Len(d)
         /\ Holds(w, 0, a)
         /\ Holds(w, Len(a), b)
         /\ Holds(w, Len(a) + Len(b), c)
         /\ Holds(w, Len(a) + Len(b) + Len(c), d)
<1> DEFINE v == a \o b \o c
<1>1. /\ v \in Seq(Bytes) /\ Len(v) = Len(a) + Len(b) + Len(c)
      /\ Holds(v, 0, a)
      /\ Holds(v, Len(a), b)
      /\ Holds(v, Len(a) + Len(b), c)
  BY ThreeParts
<1> HIDE DEF v
<1>2. v \o d \in Seq(Bytes) /\ Len(v \o d) = Len(v) + Len(d) /\ Holds(v \o d, Len(v), d)
  BY <1>1, TwoParts
<1>3. /\ Holds(v \o d, 0, a)
      /\ Holds(v \o d, Len(a), b)
      /\ Holds(v \o d, Len(a) + Len(b), c)
  BY <1>1, HoldsInFront
<1>4. QED BY <1>1, <1>2, <1>3 DEF v

LEMMA FiveParts ==
  ASSUME NEW a \in Seq(Bytes), NEW b \in Seq(Bytes), NEW c \in Seq(Bytes),
         NEW d \in Seq(Bytes), NEW e \in Seq(Bytes)
  PROVE  LET w == a \o b \o c \o d \o e IN
         /\ w \in Seq(Bytes) /\ Len(w) = Len(a) + Len(b) + Len(c) + Len(d) + Len(e)
         /\ Holds(w, 0, a)
         /\ Holds(w, Len(a), b)
         /\ Holds(w, Len(a) + Len(b), c)
         /\ Holds(w, Len(a) + Len(b) + Len(c), d)
         /\ Holds(w, Len(a) + Len(b) + Len(c) + Len(d), e)
<1> DEFINE v == a \o b \o c \o d
<1>1. /\ v \in Seq(Bytes) /\ Len(v) = Len(a) + Len(b) + Len(c) + Len(d)
      /\ Holds(v, 0, a)
      /\ Holds(v, Len(a), b)
      /\ Holds(v, Len(a) + Len(b), c)
      /\ Holds(v, Len(a) + Len(b) + Len(c), d)
  BY FourParts
<1> HIDE DEF v
<1>2. v \o e \in Seq(Bytes) /\ Len(v \o e) = Len(v) + Len(e) /\ Holds(v \o e, Len(v), e)
  BY <1>1, TwoParts
<1>3. /\ Holds(v \o e, 0, a)
      /\ Holds(v \o e, Len(a), b)
      /\ Holds(v \o e, Len(a) + Len(b), c)
      /\ Holds(v \o e, Len(a) + Len(b) + Len(c), d)
  BY <1>1, HoldsInFront
<1>4. QED BY <1>1, <1>2, <1>3 DEF v

SixLaid(a, b, c, d, e, f) ==
  LET w == a \o b \o c \o d \o e \o f IN
  /\ w \in Seq(Bytes) /\ Len(w) = Len(a) + Len(b) + Len(c) + Len(d) + Len(e) + Len(f)
  /\ Holds(w, 0, a)
  /\ Holds(w, Len(a), b)
  /\ Holds(w, Len(a) + Len(b), c)
  /\ Holds(w, Len(a) + Len(b) + Len(c), d)
  /\ Holds(w, Len(a) + Len(b) + Len(c) + Len(d), e)
  /\ Holds(w, Len(a) + Len(b) + Len(c) + Len(d) + Len(e), f)

LEMMA SixParts ==
  ASSUME NEW a \in Seq(Bytes), NEW b \in Seq(Bytes), NEW c \in Seq(Bytes),
         NEW d \in Seq(Bytes), NEW e \in Seq(Bytes), NEW f \in Seq(Bytes)
  PROVE  SixLaid(a, b, c, d, e, f)
<1> DEFINE v == a \o b \o c \o d \o e
<1>1. /\ v \in Seq(Bytes) /\ Len(v) = Len(a) + Len(b) + Len(c) + Len(d) + Len(e)
      /\ Holds(v, 0, a)
      /\ Holds(v, Len(a), b)
      /\ Holds(v, Len(a) + Len(b), c)
      /\ Holds(v, Len(a) + Len(b) + Len(c), d)
      /\ Holds(v, Len(a) + Len(b) + Len(c) + Len(d), e)
  BY FiveParts
<1> HIDE DEF v
<1>2. v \o f \in Seq(Bytes) /\ Len(v \o f) = Len(v) + Len(f) /\ Holds(v \o f, Len(v), f)
  BY <1>1, TwoParts
<1>3. /\ Holds(v \o f, 0, a)
      /\ Holds(v \o f, Len(a), b)
      /\ Holds(v \o f, Len(a) + Len(b), c)
      /\ Holds(v \o f, Len(a) + Len(b) + Len(c), d)
      /\ Holds(v \o f, Len(a) + Len(b) + Len(c) + Len(d), e)
  BY <1>1, HoldsInFront
<1>4. QED BY <1>1, <1>2, <1>3 DEF SixLaid, v

SevenLaid(a, b, c, d, e, f, g) ==
  LET w == a \o b \o c \o d \o e \o f \o g IN
  /\ w \in Seq(Bytes) /\ Len(w) = Len(a) + Len(b) + Len(c) + Len(d) + Len(e) + Len(f) + Len(g)
  /\ Holds(w, 0, a)
  /\ Holds(w, Len(a), b)
  /\ Holds(w, Len(a) + Len(b), c)
  /\ Holds(w, Len(a) + Len(b) + Len(c), d)
  /\ Holds(w, Len(a) + Len(b) + Len(c) + Len(d), e)
  /\ Holds(w, Len(a) + Len(b) + Len(c) + Len(d) + Len(e), f)
  /\ Holds(w, Len(a) + Len(b) + Len(c) + Len(d) + Len(e) + Len(f), g)

LEMMA SevenParts ==
  ASSUME NEW a \in Seq(Bytes), NEW b \in Seq(Bytes), NEW c \in Seq(Bytes),
         NEW d \in Seq(Bytes), NEW e \in Seq(Bytes), NEW f \in Seq(Bytes),
         NEW g \in Seq(Bytes)
  PROVE  SevenLaid(a, b, c, d, e, f, g)
<1> DEFINE v == a \o b \o c \o d
           w == v \o e \o f \o g
<1>1. /\ v \in Seq(Bytes) /\ Len(v) = Len(a) + Len(b) + Len(c) + Len(d)
      /\ Holds(v, 0, a)
      /\ Holds(v, Len(a), b)
      /\ Holds(v, Len(a) + Len(b), c)
      /\ Holds(v, Len(a) + Len(b) + Len(c), d)
  BY FourParts
<1> HIDE DEF v
<1>2. /\ w \in Seq(Bytes) /\ Len(w) = Len(v) + Len(e) + Len(f) + Len(g)
      /\ Holds(w, 0, v)
      /\ Holds(w, Len(v), e)
      /\ Holds(w, Len(v) + Len(e), f)
      /\ Holds(w, Len(v) + Len(e) + Len(f), g)
  BY <1>1, FourParts
<1> HIDE DEF w
<1>3. /\ Holds(w, 0, a)
      /\ Holds(w, Len(a), b)
      /\ Holds(w, Len(a) + Len(b), c)
      /\ Holds(w, Len(a) + Len(b) + Len(c), d)
  BY <1>1, <1>2, HoldsAtStart
<1>4. QED BY <1>1, <1>2, <1>3 DEF SevenLaid, v, w

EightLaid(a, b, c, d, e, f, g, h) ==
  LET w == a \o b \o c \o d \o e \o f \o g \o h IN
  /\ w \in Seq(Bytes) /\ Len(w) = Len(a) + Len(b) + Len(c) + Len(d) + Len(e) + Len(f) + Len(g) + Len(h)
  /\ Holds(w, 0, a)
  /\ Holds(w, Len(a), b)
  /\ Holds(w, Len(a) + Len(b), c)
  /\ Holds(w, Len(a) + Len(b) + Len(c), d)
  /\ Holds(w, Len(a) + Len(b) + Len(c) + Len(d), e)
  /\ Holds(w, Len(a) + Len(b) + Len(c) + Len(d) + Len(e), f)
  /\ Holds(w, Len(a) + Len(b) + Len(c) + Len(d) + Len(e) + Len(f), g)
  /\ Holds(w, Len(a) + Len(b) + Len(c) + Len(d) + Len(e) + Len(f) + Len(g), h)

LEMMA EightParts ==
  ASSUME NEW a \in Seq(Bytes), NEW b \in Seq(Bytes), NEW c \in Seq(Bytes),
         NEW d \in Seq(Bytes), NEW e \in Seq(Bytes), NEW f \in Seq(Bytes),
         NEW g \in Seq(Bytes), NEW h \in Seq(Bytes)
  PROVE  EightLaid(a, b, c, d, e, f, g, h)
<1> DEFINE v == a \o b \o c \o d \o e
           w == v \o f \o g \o h
<1>1. /\ v \in Seq(Bytes) /\ Len(v) = Len(a) + Len(b) + Len(c) + Len(d) + Len(e)
      /\ Holds(v, 0, a)
      /\ Holds(v, Len(a), b)
      /\ Holds(v, Len(a) + Len(b), c)
      /\ Holds(v, Len(a) + Len(b) + Len(c), d)
      /\ Holds(v, Len(a) + Len(b) + Len(c) + Len(d), e)
  BY FiveParts
<1> HIDE DEF v
<1>2. /\ w \in Seq(Bytes) /\ Len(w) = Len(v) + Len(f) + Len(g) + Len(h)
      /\ Holds(w, 0, v)
      /\ Holds(w, Len(v), f)
      /\ Holds(w, Len(v) + Len(f), g)
      /\ Holds(w, Len(v) + Len(f) + Len(g), h)
  BY <1>1, FourParts
<1> HIDE DEF w
<1>3. /\ Holds(w, 0, a)
      /\ Holds(w, Len(a), b)
      /\ Holds(w, Len(a) + Len(b), c)
      /\ Holds(w, Len(a) + Len(b) + Len(c), d)
      /\ Holds(w, Len(a) + Len(b) + Len(c) + Len(d), e)
  BY <1>1, <1>2, HoldsAtStart
<1>4. QED BY <1>1, <1>2, <1>3 DEF EightLaid, v, w

(* The pieces that a multiplexer writes.                                   *)
LEMMA FlagsAreNames ==
  ASSUME NEW set
  PROVE  /\ set \cap AFFlags \in SUBSET FlagNames /\ set \cap AFEFlags \in SUBSET FlagNames
         /\ set \cap PesFlags \in SUBSET FlagNames
         /\ set \cap ExtensionFlags \in SUBSET FlagNames
         /\ set \cap {"parsed"} \in SUBSET FlagNames
         /\ Extension2Flags \in SUBSET FlagNames
         /\ {"stream_id_extension_flag"} \in SUBSET FlagNames
         /\ {} \in SUBSET FlagNames
<1>1. "stream_id_extension_flag" \in Extension2Flags
  BY DEF Extension2Flags
<1>2. QED BY <1>1 DEF FlagNames

LEMMA NamesAre ==
  /\ AFFlags \subseteq Names /\ AFEFlags \subseteq Names /\ PesFlags \subseteq Names
  /\ ExtensionFlags \subseteq Names /\ Extension2Fields \subseteq Names
  /\ "flags" \in Names /\ "extension flags" \in Names /\ "extension 2 flags" \in Names
  /\ "extension 2 marker" \in Names /\ "stuffing" \in Names /\ "start_code" \in Names
  /\ "stream_id" \in Names /\ "pes_packet_length" \in Names /\ "check bits" \in Names
  /\ "PES_header_data_length" \in Names /\ "pack_field_length" \in Names
  /\ "payload" \in Names
BY DEF Names

LEMMA OneByte ==
  ASSUME NEW b \in Bytes
  PROVE  <<b>> \in Seq(Bytes) /\ Len(<<b>>) = 1 /\ <<b>>[1] = b
OBVIOUS

LEMMA PiecesAre ==
  ASSUME NEW field \in Names, NEW size \in Nat, NEW set \in SUBSET FlagNames
  PROVE  /\ Field(field, size) \in Seq(Bytes) /\ Len(Field(field, size)) = size
         /\ \A i \in 1..size : Field(field, size)[i] = Byte(field, i)
         /\ FlagsByte(field, set) \in Seq(Bytes) /\ Len(FlagsByte(field, set)) = 1
         /\ FlagsByte(field, set)[1] = NewByte(field, 1, set, 0)
         /\ LengthByte(field, size) \in Seq(Bytes) /\ Len(LengthByte(field, size)) = 1
         /\ LengthByte(field, size)[1] = NewByte(field, 1, {}, size)
         /\ << >> \in Seq(Bytes) /\ Len(<< >>) = 0
<1>1. \A n, length \in Nat, s \in SUBSET FlagNames : NewByte(field, n, s, length) \in Bytes
  BY DEF NewByte, Bytes
<1>2. Field(field, size) \in [1..size -> Bytes]
  <2>1. \A i \in 1..size : Byte(field, i) \in Bytes
    BY <1>1, FlagsAreNames DEF Byte
  <2>2. QED BY <2>1 DEF Field
<1>3. Field(field, size) \in Seq(Bytes) /\ Len(Field(field, size)) = size
  <2> DEFINE f == Field(field, size)
  <2> HIDE DEF f
  <2>1. f \in Seq(Bytes) /\ DOMAIN f = 1..size
    BY <1>2, SeqDef DEF f
  <2>2. Len(f) \in Nat /\ DOMAIN f = 1..Len(f)
    BY <2>1, LenProperties
  <2>3. Len(f) = size
    BY <2>1, <2>2
  <2>4. QED BY <2>1, <2>3 DEF f
<1>4. \A i \in 1..size : Field(field, size)[i] = Byte(field, i)
  BY DEF Field
<1>5. /\ FlagsByte(field, set) \in Seq(Bytes) /\ Len(FlagsByte(field, set)) = 1
      /\ FlagsByte(field, set)[1] = NewByte(field, 1, set, 0)
  <2>1. NewByte(field, 1, set, 0) \in Bytes
    BY <1>1
  <2>2. QED BY <2>1, OneByte DEF FlagsByte
<1>6. /\ LengthByte(field, size) \in Seq(Bytes) /\ Len(LengthByte(field, size)) = 1
      /\ LengthByte(field, size)[1] = NewByte(field, 1, {}, size)
  <2>1. NewByte(field, 1, {}, size) \in Bytes
    BY <1>1, FlagsAreNames
  <2>2. QED BY <2>1, OneByte DEF LengthByte
<1>7. QED BY <1>3, <1>4, <1>5, <1>6, EmptySeq

LEMMA FieldPiece ==
  ASSUME NEW field \in Names, NEW size \in Nat
  PROVE  /\ Field(field, size) \in Seq(Bytes) /\ Len(Field(field, size)) = size
         /\ \A i \in 1..size : Field(field, size)[i] = Byte(field, i)
BY PiecesAre, FlagsAreNames

LEMMA FlagsPiece ==
  ASSUME NEW field \in Names, NEW set \in SUBSET FlagNames
  PROVE  /\ FlagsByte(field, set) \in Seq(Bytes) /\ Len(FlagsByte(field, set)) = 1
         /\ FlagsByte(field, set)[1].flags = set
<1>1. /\ FlagsByte(field, set) \in Seq(Bytes) /\ Len(FlagsByte(field, set)) = 1
      /\ FlagsByte(field, set)[1] = NewByte(field, 1, set, 0)
  BY PiecesAre
<1>2. NewByte(field, 1, set, 0).flags = set
  BY DEF NewByte
<1>3. QED BY <1>1, <1>2

Optional(part, set, field, size) ==
  /\ part \in Seq(Bytes) /\ Len(part) = IF field \in set THEN size ELSE 0
  /\ field \in set => part = Field(field, size)

LEMMA OptionalIs ==
  ASSUME NEW set, NEW field \in Names, NEW size \in Nat
  PROVE  Optional(OptionalField(set, field, size), set, field, size)
<1>1. Field(field, size) \in Seq(Bytes) /\ Len(Field(field, size)) = size
  BY PiecesAre
<1>2. QED BY <1>1, EmptySeq DEF OptionalField, Optional

LEMMA FlagsArePutFirst ==
  ASSUME NEW w \in Seq(Bytes), NEW field \in Names, NEW set \in SUBSET FlagNames,
         Holds(w, 0, FlagsByte(field, set))
  PROVE  w[1] = NewByte(field, 1, set, 0) /\ w[1].flags = set /\ Len(w) >= 1
<1> DEFINE f == FlagsByte(field, set)
<1>1. Len(f) = 1 /\ f[1] = NewByte(field, 1, set, 0)
  BY PiecesAre
<1> HIDE DEF f
<1>2. w[0 + 1] = f[1] /\ 0 + 1 <= Len(w)
  <2>1. 1 \in 1..Len(f)
    BY <1>1
  <2>2. Holds(w, 0, f)
    BY DEF f
  <2>3. QED BY <1>1, <2>1, <2>2 DEF Holds
<1>3. w[1] = NewByte(field, 1, set, 0) /\ Len(w) >= 1
  BY <1>1, <1>2, LenProperties
<1>4. NewByte(field, 1, set, 0).flags = set
  BY DEF NewByte
<1>5. QED BY <1>3, <1>4

-------------------------------------------------------------------------------
(* The adaptation field.                                                   *)

LEMMA ExtensionLayout ==
  ASSUME NEW set
  PROVE  LET w == WrittenExtension(set) IN
         /\ w \in Seq(Bytes) /\ Len(w) \in Nat /\ Len(w) >= 1
         /\ w[1].flags = set \cap AFEFlags
         /\ "ltw" \in set => Holds(w, 1, Field("ltw", 2))
         /\ "piecewise" \in set
              => Holds(w, PiecewiseRateOffset(w), Field("piecewise", 3))
         /\ "seamless" \in set
              => Holds(w, SeamlessSpliceOffset(w), Field("seamless", 5))
<1> DEFINE flags == set \cap AFEFlags
           a == FlagsByte("extension flags", flags)
           b == OptionalField(set, "ltw", 2)
           c == OptionalField(set, "piecewise", 3)
           d == OptionalField(set, "seamless", 5)
           w == a \o b \o c \o d
<1>0. /\ "extension flags" \in Names
      /\ "ltw" \in Names /\ "piecewise" \in Names /\ "seamless" \in Names
  BY NamesAre DEF AFEFlags
<1>1. flags \in SUBSET FlagNames
  BY FlagsAreNames
<1>2. a \in Seq(Bytes) /\ Len(a) = 1
  BY <1>0, <1>1, PiecesAre
<1>3. Optional(b, set, "ltw", 2)
  BY <1>0, OptionalIs
<1>4. Optional(c, set, "piecewise", 3)
  BY <1>0, OptionalIs
<1>5. Optional(d, set, "seamless", 5)
  BY <1>0, OptionalIs
<1>6. WrittenExtension(set) = w
  BY DEF WrittenExtension
<1>7. \A f \in AFEFlags : f \in flags <=> f \in set
  OBVIOUS
<1> HIDE DEF flags
<1> HIDE DEF b, c, d
<1>8. Holds(w, 0, a) /\ w \in Seq(Bytes) => w[1].flags = flags /\ Len(w) >= 1
  BY <1>0, <1>1, FlagsArePutFirst
<1> HIDE DEF a
<1>9. /\ w \in Seq(Bytes)
      /\ Holds(w, 0, a) /\ Holds(w, Len(a), b) /\ Holds(w, Len(a) + Len(b), c)
      /\ Holds(w, Len(a) + Len(b) + Len(c), d)
  BY <1>2, <1>3, <1>4, <1>5, FourParts DEF Optional
<1> HIDE DEF w
<1>10. w[1].flags = flags /\ Len(w) >= 1 /\ Len(w) \in Nat
  BY <1>8, <1>9, LenProperties
<1>11. /\ PiecewiseRateOffset(w) = Len(a) + Len(b)
       /\ SeamlessSpliceOffset(w) = Len(a) + Len(b) + Len(c)
  BY <1>2, <1>3, <1>4, <1>7, <1>10
     DEF Optional, PiecewiseRateOffset, SeamlessSpliceOffset, AFHas, AFEFlags
<1>12. QED
  BY <1>2, <1>3, <1>4, <1>5, <1>6, <1>9, <1>10, <1>11 DEF Optional, flags

(* A length byte and what it counts.                                       *)
Block(field, x) == LengthByte(field, Len(x)) \o x

LEMMA BlockIs ==
  ASSUME NEW field \in Names, NEW x \in Seq(Bytes)
  PROVE  LET w == Block(field, x) IN
         /\ w \in Seq(Bytes) /\ Len(w) = 1 + Len(x) /\ w[1].len = Len(x)
         /\ Holds(w, 1, x)
<1> DEFINE n == Len(x)
           a == LengthByte(field, n)
<1>1. n \in Nat
  BY LenProperties
<1> HIDE DEF n
<1>2. a \in Seq(Bytes) /\ Len(a) = 1 /\ a[1].len = n
  <2>1. a \in Seq(Bytes) /\ Len(a) = 1 /\ a[1] = NewByte(field, 1, {}, n)
    BY <1>1, FlagsAreNames, PiecesAre
  <2>2. NewByte(field, 1, {}, n).len = n
    BY DEF NewByte
  <2>3. QED BY <2>1, <2>2
<1> HIDE DEF a
<1>3. /\ a \o x \in Seq(Bytes) /\ Len(a \o x) = Len(a) + n
      /\ Holds(a \o x, 0, a) /\ Holds(a \o x, Len(a), x)
  BY <1>2, TwoParts DEF n
<1>4. (a \o x)[1] = a[1]
  <2> DEFINE w == a \o x
  <2>1. 1 \in 1..Len(a) /\ Holds(w, 0, a)
    BY <1>2, <1>3
  <2> HIDE DEF w
  <2>2. w[1] = a[1]
    BY <2>1 DEF Holds
  <2>3. QED BY <2>2 DEF w
<1>5. QED BY <1>2, <1>3, <1>4 DEF Block, n, a

AFLayout(w, set, private) ==
  /\ w \in Seq(Bytes) /\ Len(w) \in Nat /\ Len(w) >= 1
  /\ w[1].flags = set \cap AFFlags
  /\ "pcr" \in set => Holds(w, 1, Field("pcr", 6))
  /\ "opcr" \in set => Holds(w, OpcrOffset(w), Field("opcr", 6))
  /\ "splice" \in set => Holds(w, SpliceCountdownOffset(w), Field("splice", 1))
  /\ "private" \in set
       => Holds(w, TransportPrivateDataOffset(w), Block("private", Field("private", private)))
  /\ "extension" \in set
       => Holds(w, TransportPrivateDataOffset(w)
                     + (IF "private" \in set THEN 1 + private ELSE 0),
                Block("extension", WrittenExtension(set)))

LEMMA AFIsLaidOut ==
  ASSUME NEW set, NEW private \in Nat, NEW stuffing \in Nat
  PROVE  AFLayout(WrittenAF(set, private, stuffing), set, private)
<1> DEFINE flags == set \cap AFFlags
           data == Field("private", private)
           ext == WrittenExtension(set)
           a == FlagsByte("flags", flags)
           b == OptionalField(set, "pcr", 6)
           c == OptionalField(set, "opcr", 6)
           d == OptionalField(set, "splice", 1)
           e == IF "private" \in set THEN Block("private", data) ELSE << >>
           f == IF "extension" \in set THEN Block("extension", ext) ELSE << >>
           g == Field("stuffing", stuffing)
           w == a \o b \o c \o d \o e \o f \o g
<1>0. /\ "flags" \in Names /\ "stuffing" \in Names
      /\ "pcr" \in Names /\ "opcr" \in Names /\ "splice" \in Names /\ "private" \in Names
      /\ "extension" \in Names
  BY NamesAre DEF AFFlags
<1>1. flags \in SUBSET FlagNames
  BY FlagsAreNames
<1>2. a \in Seq(Bytes) /\ Len(a) = 1
  BY <1>0, <1>1, PiecesAre
<1>3. Optional(b, set, "pcr", 6)
  BY <1>0, OptionalIs
<1>4. Optional(c, set, "opcr", 6)
  BY <1>0, OptionalIs
<1>5. Optional(d, set, "splice", 1)
  BY <1>0, OptionalIs
<1>6. WrittenAF(set, private, stuffing) = w
  BY DEF WrittenAF, Block, PCR_SIZE
<1>7. \A flag \in AFFlags : flag \in flags <=> flag \in set
  OBVIOUS
<1>8. /\ e \in Seq(Bytes)
      /\ Len(e) = IF "private" \in set THEN 1 + private ELSE 0
  <2>1. data \in Seq(Bytes) /\ Len(data) = private
    BY <1>0, FlagsAreNames, PiecesAre
  <2> HIDE DEF data
  <2>2. Block("private", data) \in Seq(Bytes) /\ Len(Block("private", data)) = 1 + private
    BY <1>0, <2>1, BlockIs
  <2>3. QED BY <2>2, EmptySeq
<1>9. f \in Seq(Bytes)
  <2>1. ext \in Seq(Bytes)
    BY ExtensionLayout
  <2> HIDE DEF ext
  <2>2. Block("extension", ext) \in Seq(Bytes)
    BY <1>0, <2>1, BlockIs
  <2>3. QED BY <2>2, EmptySeq
<1>10. g \in Seq(Bytes)
  BY <1>0, FlagsAreNames, PiecesAre
<1> HIDE DEF flags, b, c, d
<1>11. Holds(w, 0, a) /\ w \in Seq(Bytes) => w[1].flags = flags /\ Len(w) >= 1
  BY <1>0, <1>1, FlagsArePutFirst
<1>12. /\ "private" \in set => e = Block("private", data)
       /\ "extension" \in set => f = Block("extension", ext)
  OBVIOUS
<1> HIDE DEF a, e, f, g, data, ext
<1>13. /\ w \in Seq(Bytes) /\ Holds(w, 0, a) /\ Holds(w, Len(a), b)
       /\ Holds(w, Len(a) + Len(b), c) /\ Holds(w, Len(a) + Len(b) + Len(c), d)
       /\ Holds(w, Len(a) + Len(b) + Len(c) + Len(d), e)
       /\ Holds(w, Len(a) + Len(b) + Len(c) + Len(d) + Len(e), f)
  <2>1. b \in Seq(Bytes) /\ c \in Seq(Bytes) /\ d \in Seq(Bytes)
    BY <1>3, <1>4, <1>5 DEF Optional
  <2>2. a \in Seq(Bytes) /\ e \in Seq(Bytes) /\ f \in Seq(Bytes) /\ g \in Seq(Bytes)
    BY <1>2, <1>8, <1>9, <1>10
  <2>3. SevenLaid(a, b, c, d, e, f, g)
    BY <2>1, <2>2, SevenParts
  <2>4. QED BY <2>3 DEF SevenLaid
<1> HIDE DEF w
<1>14. w[1].flags = flags /\ Len(w) >= 1 /\ Len(w) \in Nat
  BY <1>11, <1>13, LenProperties
<1>15. /\ OpcrOffset(w) = Len(a) + Len(b)
       /\ SpliceCountdownOffset(w) = Len(a) + Len(b) + Len(c)
       /\ TransportPrivateDataOffset(w) = Len(a) + Len(b) + Len(c) + Len(d)
  BY <1>2, <1>3, <1>4, <1>5, <1>7, <1>14
     DEF Optional, OpcrOffset, SpliceCountdownOffset, TransportPrivateDataOffset, AFHas,
         AFFlags, PCR_SIZE
<1>16. /\ "pcr" \in set => Holds(w, 1, Field("pcr", 6))
       /\ "opcr" \in set => Holds(w, OpcrOffset(w), Field("opcr", 6))
       /\ "splice" \in set => Holds(w, SpliceCountdownOffset(w), Field("splice", 1))
  BY <1>2, <1>3, <1>4, <1>5, <1>13, <1>15 DEF Optional
<1>17. "private" \in set
         => Holds(w, TransportPrivateDataOffset(w), Block("private", data))
  BY <1>12, <1>13, <1>15
<1>18. "extension" \in set
         => Holds(w, TransportPrivateDataOffset(w)
                       + (IF "private" \in set THEN 1 + private ELSE 0),
                  Block("extension", ext))
  BY <1>8, <1>12, <1>13, <1>15
<1>19. QED
  BY <1>6, <1>13, <1>14, <1>16, <1>17, <1>18 DEF AFLayout, flags, data, ext

-------------------------------------------------------------------------------
(* What is read from a buffer that is like the written one as far as it    *)
(* goes, but for markers in the bytes of a field `bad'.                    *)

Like(s, w, bad) ==
  /\ s \in Seq(Bytes) /\ Len(s) <= Len(w)
  /\ \A i \in 1..Len(s) : /\ s[i].flags = w[i].flags /\ s[i].len = w[i].len
                          /\ w[i].of # bad => s[i] = w[i]

Copy(s, x, bad) == Like(s, x, bad) /\ Len(s) = Len(x)

(* The result is x as it was written, or the buffer was cut.               *)
Reads(r, x, bad, whole) ==
  \/ ~whole /\ r = NotEnoughData
  \/ r = Ok(r.bytes) /\ r.status = "ok" /\ Copy(r.bytes, x, bad)

LEMMA PartIsCopy ==
  ASSUME NEW w \in Seq(Bytes), NEW x \in Seq(Bytes), NEW s, NEW bad, NEW at,
         Like(s, w, bad), Holds(w, at, x), at + Len(x) <= Len(s)
  PROVE  Copy(SubSeq(s, at + 1, at + Len(x)), x, bad)
<1> DEFINE n == Len(x)
           to == at + n
           y == SubSeq(s, at + 1, to)
<1>1. s \in Seq(Bytes) /\ at \in Nat /\ n \in Nat /\ Len(s) \in Nat
  BY LenProperties DEF Holds, Like
<1>2. to \in Nat /\ at <= to /\ to <= Len(s) /\ to - at = n
  BY <1>1
<1>0. Holds(w, at, x) /\ n = Len(x)
  OBVIOUS
<1> HIDE DEF to, n
<1>3. y \in Seq(Bytes) /\ Len(y) = to - at /\ \A i \in 1..(to - at) : y[i] = s[at + i]
  BY <1>1, <1>2, SubSeqIs
<1> HIDE DEF y
<1>4. ASSUME NEW i \in 1..n
      PROVE  /\ y[i].flags = x[i].flags /\ y[i].len = x[i].len
             /\ x[i].of # bad => y[i] = x[i]
  <2>1. y[i] = s[at + i] /\ at + i \in 1..Len(s)
    BY <1>1, <1>2, <1>3
  <2>2. w[at + i] = x[i]
    BY <1>0 DEF Holds
  <2>3. QED BY <2>1, <2>2 DEF Like
<1>5. Like(y, x, bad) /\ Len(y) = Len(x)
  BY <1>0, <1>1, <1>2, <1>3, <1>4 DEF Like
<1>6. QED BY <1>5 DEF Copy, y, to, n

LEMMA SliceReads ==
  ASSUME NEW w \in Seq(Bytes), NEW x \in Seq(Bytes), NEW s, NEW bad, NEW at,
         Like(s, w, bad), Holds(w, at, x)
  PROVE  Reads(Slice(s, at, at + Len(x)), x, bad, Len(s) = Len(w))
<1> DEFINE to == at + Len(x)
           y == SubSeq(s, at + 1, to)
<1>1. /\ s \in Seq(Bytes) /\ at \in Nat /\ Len(x) \in Nat /\ Len(s) \in Nat
      /\ Len(w) \in Nat /\ to <= Len(w)
  BY LenProperties DEF Holds, Like
<1>2. to \in Nat /\ at <= to
  BY <1>1
<1>3. CASE to <= Len(s)
  <2>1. Copy(y, x, bad)
    BY <1>3, PartIsCopy
  <2> HIDE DEF to
  <2>2. Slice(s, at, to) = Ok(y)
    BY <1>1, <1>2, <1>3, IndexIs DEF Slice
  <2> HIDE DEF y
  <2>3. Reads(Ok(y), x, bad, Len(s) = Len(w))
    BY <2>1, ResultIs DEF Reads
  <2>4. QED BY <2>2, <2>3 DEF to
<1>4. CASE ~(to <= Len(s))
  <2>1. Slice(s, at, to) = NotEnoughData
    BY <1>1, <1>2, <1>4 DEF Slice
  <2>2. Len(s) # Len(w)
    BY <1>1, <1>4
  <2>3. QED BY <2>1, <2>2 DEF Reads
<1>5. QED BY <1>3, <1>4

LEMMA FieldCopy ==
  ASSUME NEW field \in Names, NEW n \in Nat, NEW s, NEW bad, bad # field,
         Copy(s, Field(field, n), bad)
  PROVE  s = Field(field, n)
<1> DEFINE x == Field(field, n)
<1>1. x \in Seq(Bytes) /\ Len(x) = n /\ \A i \in 1..n : x[i] = Byte(field, i)
  BY PiecesAre, FlagsAreNames
<1>2. \A i \in 1..n : x[i].of = field
  BY <1>1 DEF Byte, NewByte
<1> HIDE DEF x
<1>3. s \in Seq(Bytes) /\ Len(s) = Len(x) /\ \A i \in 1..n : s[i] = x[i]
  BY <1>1, <1>2 DEF Copy, Like, x
<1>4. s = x
  BY <1>1, <1>3, SeqEqual
<1>5. QED BY <1>4 DEF x

LEMMA FieldMarks ==
  ASSUME NEW field \in Names, NEW n \in Nat
  PROVE  /\ \A where \in SUBSET (1..n) : Marked(Field(field, n), where) = Ok(Field(field, n))
         /\ n = 5 => TimestampFromBytes(Field(field, n)) = Ok(Field(field, n))
<1>1. \A i \in 1..n : Field(field, n)[i].ok = TRUE
  BY DEF Field, Byte, NewByte
<1>2. QED BY <1>1 DEF Marked, TimestampFromBytes

(* A field that was written, or none of it.                                *)
Correct(r, field, n, whole) ==
  r = Ok(Field(field, n)) \/ (~whole /\ r = NotEnoughData)

LEMMA ReadsField ==
  ASSUME NEW field \in Names, NEW n \in Nat, NEW r, NEW bad, bad # field,
         NEW whole \in BOOLEAN,
         Reads(r, Field(field, n), bad, whole)
  PROVE  Correct(r, field, n, whole)
<1>1. CASE r = Ok(r.bytes) /\ r.status = "ok" /\ Copy(r.bytes, Field(field, n), bad)
  <2> DEFINE b == r.bytes
  <2>1. r = Ok(b) /\ b = Field(field, n)
    BY <1>1, FieldCopy
  <2> HIDE DEF b
  <2>2. QED BY <2>1 DEF Correct
<1>2. CASE ~whole /\ r = NotEnoughData
  BY <1>2 DEF Correct
<1>3. QED BY <1>1, <1>2 DEF Reads

LEMMA FieldReads ==
  ASSUME NEW w \in Seq(Bytes), NEW s, NEW bad, NEW at, NEW field \in Names, NEW n \in Nat,
         bad # field, Like(s, w, bad), Holds(w, at, Field(field, n))
  PROVE  Correct(Slice(s, at, at + n), field, n, Len(s) = Len(w))
<1> DEFINE x == Field(field, n)
<1>1. x \in Seq(Bytes) /\ Len(x) = n
  BY PiecesAre, FlagsAreNames
<1>2. Holds(w, at, x)
  OBVIOUS
<1> HIDE DEF x
<1>3. Reads(Slice(s, at, at + Len(x)), x, bad, Len(s) = Len(w))
  BY <1>1, <1>2, SliceReads
<1>4. Reads(Slice(s, at, at + n), Field(field, n), bad, Len(s) = Len(w))
  BY <1>1, <1>3 DEF x
<1>5. QED BY <1>4, ReadsField

-------------------------------------------------------------------------------
(* Reading an adaptation field.                                            *)

LEMMA CountedReads ==
  ASSUME NEW w \in Seq(Bytes), NEW x \in Seq(Bytes), NEW s, NEW bad, NEW at,
         NEW field \in Names, Like(s, w, bad), Holds(w, at, Block(field, x))
  PROVE  Reads(Counted(s, at), x, bad, Len(s) = Len(w))
<1> DEFINE all == Block(field, x)
           n == Len(x)
           head == Slice(s, at, at + 1)
           from == at + 1
<1>1. all \in Seq(Bytes) /\ Len(all) = 1 + n /\ all[1].len = n /\ Holds(all, 1, x)
  BY BlockIs
<1>2. Holds(w, at, all)
  OBVIOUS
<1> HIDE DEF all
<1>3. /\ s \in Seq(Bytes) /\ at \in Nat /\ n \in Nat /\ Len(s) \in Nat /\ Len(w) \in Nat
      /\ from + n <= Len(w) /\ from \in Nat
  BY <1>1, <1>2, LenProperties DEF Holds, Like
<1>4. Holds(w, from, x)
  BY <1>1, <1>2, HoldsWithin
<1>5. w[from].len = n
  <2>1. 1 \in 1..Len(all)
    BY <1>1, <1>3
  <2>2. w[at + 1] = all[1]
    BY <1>2, <2>1 DEF Holds
  <2>3. QED BY <1>1, <2>2
<1> HIDE DEF n
<1>6. CASE from <= Len(s)
  <2> DEFINE y == SubSeq(s, from, from)
  <2>1. head = Ok(y)
    BY <1>3, <1>6, IndexIs DEF Slice
  <2>2. y[1] = s[from]
    <3>1. at <= from /\ from - at = 1 /\ 1 \in 1..(from - at)
      BY <1>3
    <3>2. \A i \in 1..(from - at) : SubSeq(s, at + 1, from)[i] = s[at + i]
      BY <1>3, <1>6, <3>1, SubSeqIs
    <3>3. SubSeq(s, at + 1, from)[1] = s[at + 1]
      BY <3>1, <3>2
    <3>4. QED BY <3>3
  <2>3. s[from].len = n
    <3>1. from \in 1..Len(s)
      BY <1>3, <1>6
    <3>2. QED BY <1>5, <3>1 DEF Like
  <2> HIDE DEF y
  <2>4. head.status = "ok" /\ head.bytes = y
    BY <2>1, ResultIs
  <2>5. Counted(s, at) = Slice(s, from, from + n)
    BY <2>2, <2>3, <2>4 DEF Counted, Then
  <2>6. Reads(Slice(s, from, from + Len(x)), x, bad, Len(s) = Len(w))
    BY <1>4, SliceReads
  <2>7. QED BY <2>5, <2>6 DEF n
<1>7. CASE ~(from <= Len(s))
  <2>1. head = NotEnoughData
    BY <1>3, <1>7 DEF Slice
  <2>2. Counted(s, at) = NotEnoughData
    BY <2>1, ResultIs DEF Counted, Then
  <2>3. Len(s) # Len(w)
    BY <1>3, <1>7
  <2>4. QED BY <2>2, <2>3 DEF Reads
<1>8. QED BY <1>6, <1>7

LEMMA AFESizes ==
  ASSUME NEW private
  PROVE  /\ AFSize("pcr", private) = 6 /\ AFSize("opcr", private) = 6
         /\ AFSize("splice", private) = 1 /\ AFSize("private", private) = private
         /\ AFSize("ltw", private) = 2 /\ AFSize("piecewise", private) = 3
         /\ AFSize("seamless", private) = 5
BY DEF AFSize, PCR_SIZE

LEMMA AFEReads ==
  ASSUME NEW set, NEW ext, NEW bad, NEW private, NEW field \in AFEFlags, bad # field,
         Copy(ext, WrittenExtension(set), bad)
  PROVE  AFERead(ext, field) =
           IF field \in set THEN Ok(Field(field, AFSize(field, private))) ELSE FieldNotPresent
<1> DEFINE w == WrittenExtension(set)
<1>1. /\ w \in Seq(Bytes) /\ Len(w) \in Nat /\ Len(w) >= 1
      /\ w[1].flags = set \cap AFEFlags
      /\ "ltw" \in set => Holds(w, 1, Field("ltw", 2))
      /\ "piecewise" \in set => Holds(w, PiecewiseRateOffset(w), Field("piecewise", 3))
      /\ "seamless" \in set => Holds(w, SeamlessSpliceOffset(w), Field("seamless", 5))
  BY ExtensionLayout
<1>2. Like(ext, w, bad) /\ Len(ext) = Len(w) /\ ext # << >>
  BY <1>1 DEF Copy, Like
<1> HIDE DEF w
<1>3. ext[1].flags = set \cap AFEFlags
  BY <1>1, <1>2 DEF Like
<1>4. \A f \in AFEFlags : AFHas(ext, f) <=> f \in set
  BY <1>3 DEF AFHas
<1>5. /\ PiecewiseRateOffset(ext) = PiecewiseRateOffset(w)
      /\ SeamlessSpliceOffset(ext) = SeamlessSpliceOffset(w)
  BY <1>1, <1>3 DEF PiecewiseRateOffset, SeamlessSpliceOffset, AFHas
<1>6. CASE field \notin set
  BY <1>2, <1>4, <1>6 DEF AFERead
<1>7. field \in Names /\ "ltw" \in Names /\ "piecewise" \in Names /\ "seamless" \in Names
  BY NamesAre DEF AFEFlags
<1>8. ASSUME field \in set, field = "ltw"
      PROVE  AFERead(ext, field) = Ok(Field(field, AFSize(field, private)))
  <2>1. AFERead(ext, field) = Slice(ext, 1, 1 + 2)
    BY <1>2, <1>4, <1>8 DEF AFERead
  <2>2. Correct(Slice(ext, 1, 1 + 2), "ltw", 2, Len(ext) = Len(w))
    BY <1>1, <1>2, <1>7, <1>8, FieldReads
  <2>3. QED BY <1>2, <1>8, <2>1, <2>2, AFESizes DEF Correct
<1>9. ASSUME field \in set, field = "piecewise"
      PROVE  AFERead(ext, field) = Ok(Field(field, AFSize(field, private)))
  <2> DEFINE at == PiecewiseRateOffset(w)
  <2>1. AFERead(ext, field) = Slice(ext, at, at + 3)
    BY <1>2, <1>4, <1>5, <1>9 DEF AFERead
  <2>2. Holds(w, at, Field("piecewise", 3))
    BY <1>1, <1>9
  <2> HIDE DEF at
  <2>3. Correct(Slice(ext, at, at + 3), "piecewise", 3, Len(ext) = Len(w))
    BY <1>1, <1>2, <1>7, <1>9, <2>2, FieldReads
  <2>4. QED BY <1>2, <1>9, <2>1, <2>3, AFESizes DEF Correct
<1>10. ASSUME field \in set, field = "seamless"
       PROVE  AFERead(ext, field) = Ok(Field(field, AFSize(field, private)))
  <2> DEFINE at == SeamlessSpliceOffset(w)
             r == Slice(ext, at, at + 5)
  <2>1. AFERead(ext, field) = IF r.status = "ok" THEN TimestampFromBytes(r.bytes) ELSE r
    BY <1>2, <1>4, <1>5, <1>10 DEF AFERead, Then
  <2>2. Holds(w, at, Field("seamless", 5))
    BY <1>1, <1>10
  <2> HIDE DEF at
  <2>3. Correct(r, "seamless", 5, Len(ext) = Len(w))
    BY <1>1, <1>2, <1>7, <1>10, <2>2, FieldReads
  <2> HIDE DEF r
  <2>4. r = Ok(Field("seamless", 5))
    BY <1>2, <2>3 DEF Correct
  <2>5. TimestampFromBytes(Field("seamless", 5)) = Ok(Field("seamless", 5))
    BY <1>7, FieldMarks
  <2>6. QED BY <1>10, <2>1, <2>4, <2>5, ResultIs, AFESizes
<1>11. QED BY <1>6, <1>8, <1>9, <1>10 DEF AFEFlags

LEMMA AFExtensionReads ==
  ASSUME NEW set, NEW private \in Nat, NEW w, NEW af, NEW bad, Len(af) >= 1,
         AFLayout(w, set, private), Like(af, w, bad), "extension" \in set
  PROVE  Reads(AdaptationFieldExtension(af), WrittenExtension(set), bad, Len(af) = Len(w))
<1> DEFINE off == TransportPrivateDataOffset(af)
           head == Slice(af, off, off + 1)
           data == Field("private", private)
           ext == WrittenExtension(set)
           block == Block("private", data)
<1>0. /\ w \in Seq(Bytes) /\ af \in Seq(Bytes) /\ Len(w) \in Nat /\ Len(af) \in Nat
      /\ "private" \in Names /\ "extension" \in Names
  BY LenProperties, NamesAre DEF AFLayout, Like, AFFlags
<1>1. af[1].flags = set \cap AFFlags
  BY <1>0 DEF AFLayout, Like
<1>2. TransportPrivateDataOffset(w) = off
  BY <1>1 DEF AFLayout, TransportPrivateDataOffset, SpliceCountdownOffset, OpcrOffset, AFHas
<1>3. off \in Nat
  BY OffsetsAreNat
<1>4. AFHas(af, "private") <=> "private" \in set
  BY <1>1 DEF AFHas, AFFlags
<1>5. ext \in Seq(Bytes)
  BY ExtensionLayout
<1>6. Holds(w, off + (IF "private" \in set THEN 1 + private ELSE 0), Block("extension", ext))
  BY <1>2 DEF AFLayout
<1>7. "private" \in set => Holds(w, off, block)
  BY <1>2 DEF AFLayout
<1>8. /\ block \in Seq(Bytes) /\ Len(block) = 1 + private /\ block[1].len = private
  <2>1. data \in Seq(Bytes) /\ Len(data) = private
    BY <1>0, PiecesAre, FlagsAreNames
  <2> HIDE DEF data
  <2>2. QED BY <1>0, <2>1, BlockIs
<1> HIDE DEF off, ext, block
<1>9. CASE "private" \notin set
  <2>1. AdaptationFieldExtension(af) = Counted(af, off)
    BY <1>4, <1>9 DEF AdaptationFieldExtension, off
  <2>2. Holds(w, off, Block("extension", ext))
    <3>1. off + 0 = off
      BY <1>3
    <3>2. QED BY <1>6, <1>9, <3>1
  <2>3. Reads(Counted(af, off), ext, bad, Len(af) = Len(w))
    BY <1>0, <1>5, <2>2, CountedReads
  <2>4. QED BY <2>1, <2>3 DEF ext
<1>10. CASE "private" \in set /\ off + 1 <= Len(af)
  <2> DEFINE i == off + 1
             y == SubSeq(af, i, i)
  <2>1. w[i].len = private
    <3>1. 1 \in 1..Len(block)
      BY <1>8
    <3>2. w[off + 1] = block[1]
      BY <1>7, <1>10, <3>1 DEF Holds
    <3>3. QED BY <1>8, <3>2
  <2>2. af[i].len = private
    <3>1. i \in 1..Len(af)
      BY <1>0, <1>3, <1>10
    <3>2. QED BY <2>1, <3>1 DEF Like
  <2>3. head = Ok(y)
    BY <1>0, <1>3, <1>10, IndexIs DEF Slice
  <2>4. y[1] = af[i]
    <3>1. i \in Nat /\ off <= i /\ i <= Len(af) /\ i - off = 1 /\ 1 \in 1..(i - off)
      BY <1>0, <1>3, <1>10
    <3>2. \A k \in 1..(i - off) : SubSeq(af, off + 1, i)[k] = af[off + k]
      BY <1>0, <1>3, <3>1, SubSeqIs
    <3>3. QED BY <3>1, <3>2
  <2> HIDE DEF y
  <2>5. head.status = "ok" /\ head.bytes = y
    BY <2>3, ResultIs
  <2> HIDE DEF head, i
  <2>6. AdaptationFieldExtension(af) = Counted(af, off + private + 1)
    BY <1>4, <1>10, <2>2, <2>4, <2>5 DEF AdaptationFieldExtension, off, Then, head
  <2>7. off + private + 1 = off + (1 + private)
    BY <1>3
  <2>8. Holds(w, off + (1 + private), Block("extension", ext))
    BY <1>6, <1>10
  <2> DEFINE at == off + (1 + private)
  <2> HIDE DEF at
  <2>9. Reads(Counted(af, at), ext, bad, Len(af) = Len(w))
    BY <1>0, <1>5, <2>8, CountedReads DEF at
  <2>10. QED BY <2>6, <2>7, <2>9 DEF ext, at
<1>11. CASE "private" \in set /\ ~(off + 1 <= Len(af))
  <2>1. head = NotEnoughData
    BY <1>0, <1>3, <1>11 DEF Slice
  <2>2. AdaptationFieldExtension(af) = NotEnoughData
    BY <1>4, <1>11, <2>1, ResultIs DEF AdaptationFieldExtension, off, Then
  <2>3. Len(af) # Len(w)
    BY <1>0, <1>3, <1>7, <1>8, <1>11 DEF Holds
  <2>4. QED BY <2>2, <2>3 DEF Reads
<1>12. QED BY <1>9, <1>10, <1>11

(* What an application gets for each field of an adaptation field.         *)
LEMMA AFReads ==
  ASSUME NEW set, NEW private \in Nat, NEW w, NEW af, NEW bad, Len(af) >= 1,
         AFLayout(w, set, private), Like(af, w, bad),
         set \cap AFEFlags # {} => "extension" \in set,
         NEW field \in AFFields, bad # field
  PROVE  \/ field \notin set /\ AFRead(af, field) = FieldNotPresent
         \/ field \in set /\ AFRead(af, field) = Ok(Field(field, AFSize(field, private)))
         \/ Len(af) # Len(w) /\ AFRead(af, field) = NotEnoughData
<1> DEFINE Result == AFRead(af, field)
           whole == Len(af) = Len(w)
<1>0. /\ w \in Seq(Bytes) /\ af \in Seq(Bytes) /\ Len(w) \in Nat /\ Len(af) \in Nat
      /\ field \in Names /\ "private" \in Names
  BY LenProperties, NamesAre DEF AFLayout, Like, AFFlags, AFFields
<1>1. af[1].flags = set \cap AFFlags
  BY <1>0 DEF AFLayout, Like
<1>2. /\ OpcrOffset(w) = OpcrOffset(af)
      /\ SpliceCountdownOffset(w) = SpliceCountdownOffset(af)
      /\ TransportPrivateDataOffset(w) = TransportPrivateDataOffset(af)
  BY <1>1 DEF AFLayout, TransportPrivateDataOffset, SpliceCountdownOffset, OpcrOffset, AFHas
<1>3. \A f \in AFFlags : AFHas(af, f) <=> f \in set
  BY <1>1 DEF AFHas
<1>4. CASE field \in AFEFlags
  <2> DEFINE r == AdaptationFieldExtension(af)
  <2>1. Result = IF AFHas(af, "extension")
                 THEN IF r.status = "ok" THEN AFERead(r.bytes, field) ELSE r
                 ELSE FieldNotPresent
    BY <1>4 DEF AFRead, Then
  <2>2. AFHas(af, "extension") <=> "extension" \in set
    BY <1>3 DEF AFFlags
  <2>3. CASE "extension" \notin set
    <3>1. field \notin set
      BY <1>4, <2>3
    <3>2. QED BY <2>1, <2>2, <2>3, <3>1
  <2>4. CASE "extension" \in set
    <3>1. Reads(r, WrittenExtension(set), bad, whole)
      BY <2>4, AFExtensionReads
    <3> HIDE DEF r
    <3>2. CASE r.status = "ok" /\ Copy(r.bytes, WrittenExtension(set), bad)
      <4> DEFINE ext == r.bytes
      <4>0. Copy(ext, WrittenExtension(set), bad)
        BY <3>2
      <4> HIDE DEF ext
      <4>1. AFERead(ext, field) =
              IF field \in set THEN Ok(Field(field, AFSize(field, private)))
                               ELSE FieldNotPresent
        BY <1>4, <4>0, AFEReads
      <4>2. QED BY <2>1, <2>2, <2>4, <3>2, <4>1 DEF ext
    <3>3. CASE ~whole /\ r = NotEnoughData
      <4>1. Result = NotEnoughData
        BY <2>1, <2>2, <2>4, <3>3, ResultIs
      <4>2. QED BY <3>3, <4>1
    <3>4. QED BY <3>1, <3>2, <3>3 DEF Reads
  <2>5. QED BY <2>3, <2>4
<1>5. CASE field \notin AFEFlags /\ field \notin set
  BY <1>3, <1>5 DEF AFRead, AFFields
<1>6. SUFFICES ASSUME field \notin AFEFlags, field \in set, AFHas(af, field)
               PROVE  Correct(Result, field, AFSize(field, private), whole)
  BY <1>3, <1>4, <1>5 DEF Correct, AFFields
<1> HIDE DEF Result
<1>7. CASE field = "pcr"
  <2>1. Result = Slice(af, 1, 1 + 6)
    BY <1>6, <1>7 DEF AFRead, PCR_SIZE, Result
  <2>2. Holds(w, 1, Field("pcr", 6))
    BY <1>6, <1>7 DEF AFLayout
  <2>3. Correct(Slice(af, 1, 1 + 6), "pcr", 6, whole)
    BY <1>0, <1>7, <2>2, FieldReads
  <2>4. QED BY <1>7, <2>1, <2>3, AFESizes
<1>8. CASE field = "opcr"
  <2> DEFINE at == OpcrOffset(af)
  <2>1. Result = Slice(af, at, at + 6)
    BY <1>6, <1>8 DEF AFRead, PCR_SIZE, Result
  <2>2. Holds(w, at, Field("opcr", 6))
    BY <1>2, <1>6, <1>8 DEF AFLayout
  <2> HIDE DEF at
  <2>3. Correct(Slice(af, at, at + 6), "opcr", 6, whole)
    BY <1>0, <1>8, <2>2, FieldReads
  <2>4. QED BY <1>8, <2>1, <2>3, AFESizes
<1>9. CASE field = "splice"
  <2> DEFINE at == SpliceCountdownOffset(af)
  <2>1. Result = Slice(af, at, at + 1)
    BY <1>6, <1>9 DEF AFRead, Result
  <2>2. Holds(w, at, Field("splice", 1))
    BY <1>2, <1>6, <1>9 DEF AFLayout
  <2> HIDE DEF at
  <2>3. Correct(Slice(af, at, at + 1), "splice", 1, whole)
    BY <1>0, <1>9, <2>2, FieldReads
  <2>4. QED BY <1>9, <2>1, <2>3, AFESizes
<1>10. CASE field = "private"
  <2> DEFINE at == TransportPrivateDataOffset(af)
             x == Field("private", private)
  <2>1. Result = Counted(af, at)
    BY <1>6, <1>10 DEF AFRead, TransportPrivateData, Result
  <2>2. Holds(w, at, Block("private", x))
    BY <1>2, <1>6, <1>10 DEF AFLayout
  <2>3. x \in Seq(Bytes)
    BY <1>0, PiecesAre, FlagsAreNames
  <2> HIDE DEF at, x
  <2>4. Reads(Counted(af, at), x, bad, whole)
    BY <1>0, <2>2, <2>3, CountedReads
  <2>5. Correct(Counted(af, at), "private", private, whole)
    BY <1>0, <1>10, <2>4, ReadsField DEF x
  <2>6. QED BY <1>10, <2>1, <2>5, AFESizes
<1>11. QED BY <1>6, <1>7, <1>8, <1>9, <1>10 DEF AFFields, AFFlags
===============================================================================
