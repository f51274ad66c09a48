-------------------------- MODULE HeaderFieldsProofs --------------------------
(***************************************************************************)
(* Proofs that the fields of adaptation fields and of PES headers are read *)
(* as they were written, for every set of fields, every length of private  *)
(* data, stuffing and payload, and whatever one thing goes wrong.          *)
(***************************************************************************)
EXTENDS HeaderFields, HeaderLayoutProofs

-------------------------------------------------------------------------------
(* The PES header.                                                         *)

(* What is held behind the start of a held part is held by the part.       *)
LEMMA HoldsInPart ==
  ASSUME NEW w \in Seq(Bytes), NEW x \in Seq(Bytes), NEW y \in Seq(Bytes),
         NEW at, NEW off \in Nat, Holds(w, at, x), Holds(w, at + off, y),
         off + Len(y) <= Len(x)
  PROVE  Holds(x, off, y)
<1>1. at \in Nat /\ Len(x) \in Nat /\ Len(y) \in Nat
  BY LenProperties DEF Holds
<1>2. ASSUME NEW i \in 1..Len(y) PROVE x[off + i] = y[i]
  <2>1. off + i \in 1..Len(x) /\ at + (off + i) = (at + off) + i
    BY <1>1
  <2>2. w[at + (off + i)] = x[off + i] /\ w[(at + off) + i] = y[i]
    BY <2>1 DEF Holds
  <2>3. QED BY <2>1, <2>2
<1>3. QED BY <1>2 DEF Holds

(* The flags byte of a held part, and a byte of a held field.              *)
LEMMA HeldByte ==
  ASSUME NEW w \in Seq(Bytes), NEW x \in Seq(Bytes), NEW at, Holds(w, at, x),
         NEW i \in 1..Len(x)
  PROVE  w[at + i] = x[i]
BY DEF Holds

PesExtensionLayout(w, set) ==
  /\ w \in Seq(Bytes) /\ Len(w) \in Nat /\ Len(w) >= 1
  /\ w[1].flags = set \cap ExtensionFlags
  /\ "private_data" \in set => Holds(w, 1, Field("private_data", 16))
  /\ "pack_header" \in set
       => Holds(w, PrivateDataEnd(w), Block("pack_field_length", Field("pack_header", 14)))
  /\ PackHeaderEnd(w) = PrivateDataEnd(w) + (IF "pack_header" \in set THEN 15 ELSE 0)
  /\ "sequence_counter" \in set
       => Holds(w, PackHeaderEnd(w), Field("sequence_counter", 2))
  /\ "p_std_buffer" \in set => Holds(w, SequenceCounterEnd(w), Field("p_std_buffer", 2))
  /\ "extension_2" \in set => Holds(w, PStdBufferEnd(w), WrittenExtension2(set))

Extension2Layout(w, set) ==
  /\ w \in Seq(Bytes) /\ Len(w) \in Nat /\ Len(w) >= 2
  /\ w[1] = Byte("extension 2 marker", 1)
  /\ "stream_id_extension" \in set
       => w[2].flags = {} /\ Holds(w, 1, Field("stream_id_extension", 1))
  /\ "tref" \in set /\ "stream_id_extension" \notin set
       => w[2].flags = {"stream_id_extension_flag"} /\ Holds(w, 2, Field("tref", 5))
  /\ "tref" \notin set /\ "stream_id_extension" \notin set => w[2].flags = Extension2Flags

LEMMA Extension2IsLaidOut ==
  ASSUME NEW set, ~(Extension2Fields \subseteq set)
  PROVE  Extension2Layout(WrittenExtension2(set), set)
<1> DEFINE marker == Field("extension 2 marker", 1)
           id == Field("stream_id_extension", 1)
           flag == FlagsByte("extension 2 flags", {"stream_id_extension_flag"})
           tref == Field("tref", 5)
           both == FlagsByte("extension 2 flags", Extension2Flags)
<1>0. /\ "extension 2 marker" \in Names /\ "extension 2 flags" \in Names
      /\ "stream_id_extension" \in Names /\ "tref" \in Names
  BY NamesAre DEF Extension2Fields
<1>1. marker \in Seq(Bytes) /\ Len(marker) = 1 /\ marker[1] = Byte("extension 2 marker", 1)
  <2>1. 1 \in 1..1
    OBVIOUS
  <2>2. QED BY <1>0, <2>1, FieldPiece
<1>2. id \in Seq(Bytes) /\ Len(id) = 1 /\ id[1].flags = {}
  <2>1. 1 \in 1..1
    OBVIOUS
  <2>2. id \in Seq(Bytes) /\ Len(id) = 1 /\ id[1] = Byte("stream_id_extension", 1)
    BY <1>0, <2>1, FieldPiece
  <2>3. Byte("stream_id_extension", 1).flags = {}
    BY DEF Byte, NewByte
  <2>4. QED BY <2>2, <2>3
<1>3. flag \in Seq(Bytes) /\ Len(flag) = 1 /\ flag[1].flags = {"stream_id_extension_flag"}
  BY <1>0, FlagsAreNames, FlagsPiece
<1>4. both \in Seq(Bytes) /\ Len(both) = 1 /\ both[1].flags = Extension2Flags
  BY <1>0, FlagsAreNames, FlagsPiece
<1>5. tref \in Seq(Bytes) /\ Len(tref) = 5
  BY <1>0, FieldPiece
<1>6. WrittenExtension2(set) =
        IF "stream_id_extension" \in set THEN marker \o id
        ELSE IF "tref" \in set THEN marker \o flag \o tref ELSE marker \o both
  BY DEF WrittenExtension2, TIMESTAMP_SIZE, Extension2Fields
<1> HIDE DEF marker, id, flag, tref, both
<1>7. /\ Len(marker) = 1 /\ Len(id) = 1 /\ Len(flag) = 1 /\ Len(both) = 1 /\ Len(tref) = 5
      /\ marker \in Seq(Bytes) /\ id \in Seq(Bytes) /\ flag \in Seq(Bytes)
      /\ both \in Seq(Bytes) /\ tref \in Seq(Bytes)
  BY <1>1, <1>2, <1>3, <1>4, <1>5, Zenon
<1>8. CASE "stream_id_extension" \in set
  <2> DEFINE w == marker \o id
  <2>0. /\ w \in Seq(Bytes) /\ Len(w) = Len(marker) + Len(id)
        /\ Holds(w, 0, marker) /\ Holds(w, Len(marker), id)
    BY <1>7, TwoParts
  <2> HIDE DEF w
  <2>1. w \in Seq(Bytes) /\ Len(w) = 2 /\ Holds(w, 0, marker) /\ Holds(w, 1, id)
    BY <1>7, <2>0
  <2>2. w[1] = marker[1] /\ w[2] = id[1]
    <3>1. 1 \in 1..Len(marker) /\ 1 \in 1..Len(id)
      BY <1>7
    <3>2. QED BY <2>1, <3>1 DEF Holds
  <2>3. WrittenExtension2(set) = w
    BY <1>6, <1>8 DEF w
  <2>4. w[1] = Byte("extension 2 marker", 1) /\ w[2].flags = {}
    BY <1>1, <1>2, <2>2, Zenon
  <2>5. w \in Seq(Bytes) /\ Len(w) \in Nat /\ Len(w) >= 2
    BY <2>1
  <2>6. Holds(w, 1, Field("stream_id_extension", 1))
    BY <2>1 DEF id
  <2>7. QED BY <1>8, <2>6, <2>3, <2>4, <2>5, Zenon DEF Extension2Layout
<1>9. CASE "stream_id_extension" \notin set /\ "tref" \in set
  <2> DEFINE w == marker \o flag \o tref
  <2>0. /\ w \in Seq(Bytes) /\ Len(w) = Len(marker) + Len(flag) + Len(tref)
        /\ Holds(w, 0, marker) /\ Holds(w, Len(marker), flag)
        /\ Holds(w, Len(marker) + Len(flag), tref)
    BY <1>7, ThreeParts
  <2> HIDE DEF w
  <2>1. /\ w \in Seq(Bytes) /\ Len(w) = 7 /\ Holds(w, 0, marker) /\ Holds(w, 1, flag)
        /\ Holds(w, 2, tref)
    BY <1>7, <2>0
  <2>2. w[1] = marker[1] /\ w[2] = flag[1]
    <3>1. 1 \in 1..Len(marker) /\ 1 \in 1..Len(flag)
      BY <1>7
    <3>2. QED BY <2>1, <3>1 DEF Holds
  <2>3. WrittenExtension2(set) = w
    BY <1>6, <1>9 DEF w
  <2>4. w[1] = Byte("extension 2 marker", 1) /\ w[2].flags = {"stream_id_extension_flag"}
    BY <1>1, <1>3, <2>2, Zenon
  <2>5. w \in Seq(Bytes) /\ Len(w) \in Nat /\ Len(w) >= 2
    BY <2>1
  <2>6. Holds(w, 2, Field("tref", 5))
    BY <2>1 DEF tref
  <2>7. QED BY <1>9, <2>6, <2>3, <2>4, <2>5, Zenon DEF Extension2Layout
<1>10. CASE "stream_id_extension" \notin set /\ "tref" \notin set
  <2> DEFINE w == marker \o both
  <2>0. /\ w \in Seq(Bytes) /\ Len(w) = Len(marker) + Len(both)
        /\ Holds(w, 0, marker) /\ Holds(w, Len(marker), both)
    BY <1>7, TwoParts
  <2> HIDE DEF w
  <2>1. w \in Seq(Bytes) /\ Len(w) = 2 /\ Holds(w, 0, marker) /\ Holds(w, 1, both)
    BY <1>7, <2>0
  <2>2. w[1] = marker[1] /\ w[2] = both[1]
    <3>1. 1 \in 1..Len(marker) /\ 1 \in 1..Len(both)
      BY <1>7
    <3>2. QED BY <2>1, <3>1 DEF Holds
  <2>3. WrittenExtension2(set) = w
    BY <1>6, <1>10 DEF w
  <2>4. w[1] = Byte("extension 2 marker", 1) /\ w[2].flags = Extension2Flags
    BY <1>1, <1>4, <2>2, Zenon
  <2>5. w \in Seq(Bytes) /\ Len(w) \in Nat /\ Len(w) >= 2
    BY <2>1
  <2>6. QED BY <1>10, <2>3, <2>4, <2>5, Zenon DEF Extension2Layout
<1>11. QED BY <1>8, <1>9, <1>10

(* An extension in front of other bytes.                                   *)
LEMMA PesExtensionIsLaidOut ==
  ASSUME NEW set, ~(Extension2Fields \subseteq set)
  PROVE  /\ WrittenPesExtension(set) \in Seq(Bytes)
         /\ \A w \in Seq(Bytes) :
              Holds(w, 0, WrittenPesExtension(set)) => PesExtensionLayout(w, set)
<1> DEFINE flags == set \cap ExtensionFlags
           header == Field("pack_header", 14)
           ext2 == WrittenExtension2(set)
           a == FlagsByte("extension flags", flags)
           b == OptionalField(set, "private_data", 16)
           c == IF "pack_header" \in set THEN Block("pack_field_length", header) ELSE << >>
           d == OptionalField(set, "sequence_counter", 2)
           e == OptionalField(set, "p_std_buffer", 2)
           f == IF "extension_2" \in set THEN ext2 ELSE << >>
           v == a \o b \o c \o d \o e \o f
<1>0. /\ "extension flags" \in Names /\ "private_data" \in Names /\ "pack_header" \in Names
      /\ "pack_field_length" \in Names /\ "sequence_counter" \in Names
      /\ "p_std_buffer" \in Names
  BY NamesAre DEF ExtensionFlags
<1>1. flags \in SUBSET FlagNames
  BY FlagsAreNames
<1>2. a \in Seq(Bytes) /\ Len(a) = 1
  BY <1>0, <1>1, PiecesAre
<1>3. Optional(b, set, "private_data", 16)
  BY <1>0, OptionalIs
<1>4. Optional(d, set, "sequence_counter", 2)
  BY <1>0, OptionalIs
<1>5. Optional(e, set, "p_std_buffer", 2)
  BY <1>0, OptionalIs
<1>6. header \in Seq(Bytes) /\ Len(header) = 14
  BY <1>0, PiecesAre, FlagsAreNames
<1>7. WrittenPesExtension(set) = v
  <2>1. Block("pack_field_length", header) = LengthByte("pack_field_length", 14) \o header
    BY <1>6 DEF Block
  <2>2. QED BY <2>1, PesSizes
            DEF WrittenPesExtension, PRIVATE_DATA_SIZE, PACK_HEADER_SIZE
<1> HIDE DEF header
<1>8. /\ c \in Seq(Bytes) /\ Len(c) = (IF "pack_header" \in set THEN 15 ELSE 0)
      /\ "pack_header" \in set => c = Block("pack_field_length", header) /\ c[1].len = 14
  <2> DEFINE block == Block("pack_field_length", header)
  <2>1. /\ block \in Seq(Bytes) /\ Len(block) = 1 + Len(header)
        /\ block[1].len = Len(header)
    BY <1>0, <1>6, BlockIs
  <2> HIDE DEF block
  <2>2. block \in Seq(Bytes) /\ Len(block) = 15 /\ block[1].len = 14
    BY <1>6, <2>1
  <2>3. c = IF "pack_header" \in set THEN block ELSE << >>
    BY DEF block
  <2> HIDE DEF c
  <2>4. /\ c \in Seq(Bytes) /\ Len(c) = (IF "pack_header" \in set THEN 15 ELSE 0)
        /\ "pack_header" \in set => c = block /\ c[1].len = 14
    BY <2>2, <2>3, EmptySeq
  <2>5. QED BY <2>4 DEF block
<1>9. f \in Seq(Bytes) /\ ("extension_2" \in set => f = ext2)
  <2>1. ext2 \in Seq(Bytes)
    BY Extension2IsLaidOut DEF Extension2Layout
  <2> HIDE DEF ext2
  <2>2. QED BY <2>1, EmptySeq
<1>10. \A flag \in ExtensionFlags : flag \in flags <=> flag \in set
  OBVIOUS
<1> HIDE DEF flags, b, d, e
<1>11. \A w \in Seq(Bytes) : Holds(w, 0, a) => w[1].flags = flags /\ Len(w) >= 1
  BY <1>0, <1>1, FlagsArePutFirst
<1> HIDE DEF a, c, f, ext2
<1>12. /\ v \in Seq(Bytes)
       /\ Holds(v, 0, a) /\ Holds(v, Len(a), b) /\ Holds(v, Len(a) + Len(b), c)
       /\ Holds(v, Len(a) + Len(b) + Len(c), d)
       /\ Holds(v, Len(a) + Len(b) + Len(c) + Len(d), e)
       /\ Holds(v, Len(a) + Len(b) + Len(c) + Len(d) + Len(e), f)
  <2>1. b \in Seq(Bytes) /\ d \in Seq(Bytes) /\ e \in Seq(Bytes)
    BY <1>3, <1>4, <1>5 DEF Optional
  <2>2. a \in Seq(Bytes) /\ c \in Seq(Bytes) /\ f \in Seq(Bytes)
    BY <1>2, <1>8, <1>9
  <2>3. SixLaid(a, b, c, d, e, f)
    BY <2>1, <2>2, SixParts
  <2>4. QED BY <2>3 DEF SixLaid
<1> HIDE DEF v
<1>13. SUFFICES ASSUME NEW w \in Seq(Bytes), Holds(w, 0, v) PROVE PesExtensionLayout(w, set)
  BY <1>7, <1>12
<1>14. /\ Holds(w, 0, a) /\ Holds(w, Len(a), b) /\ Holds(w, Len(a) + Len(b), c)
       /\ Holds(w, Len(a) + Len(b) + Len(c), d)
       /\ Holds(w, Len(a) + Len(b) + Len(c) + Len(d), e)
       /\ Holds(w, Len(a) + Len(b) + Len(c) + Len(d) + Len(e), f)
  <2>1. b \in Seq(Bytes) /\ d \in Seq(Bytes) /\ e \in Seq(Bytes)
    BY <1>3, <1>4, <1>5 DEF Optional
  <2>2. a \in Seq(Bytes) /\ c \in Seq(Bytes) /\ f \in Seq(Bytes)
    BY <1>2, <1>8, <1>9
  <2>3. QED BY <1>12, <1>13, <2>1, <2>2, HoldsAtStart
<1>15. w[1].flags = flags /\ Len(w) >= 1 /\ Len(w) \in Nat
  BY <1>11, <1>14, LenProperties
<1>16. \A flag \in ExtensionFlags : Has(w, flag) <=> flag \in set
  BY <1>10, <1>15 DEF Has
<1>17. /\ Has(w, "private_data") <=> "private_data" \in set
       /\ Has(w, "pack_header") <=> "pack_header" \in set
       /\ Has(w, "sequence_counter") <=> "sequence_counter" \in set
       /\ Has(w, "p_std_buffer") <=> "p_std_buffer" \in set
  BY <1>16 DEF ExtensionFlags
<1>18. PrivateDataEnd(w) = Len(a) + Len(b)
  BY <1>2, <1>3, <1>17 DEF Optional, PrivateDataEnd, PRIVATE_DATA_SIZE
<1>19. PackHeaderEnd(w) = Len(a) + Len(b) + Len(c)
  <2> DEFINE start == PrivateDataEnd(w)
  <2>1. start \in Nat /\ start = Len(a) + Len(b)
    BY <1>18 DEF PrivateDataEnd, PRIVATE_DATA_SIZE
  <2>2. CASE "pack_header" \notin set
    <3>1. PackHeaderEnd(w) = start
      BY <1>17, <2>2 DEF PackHeaderEnd
    <3>2. QED BY <1>8, <2>1, <2>2, <3>1
  <2>3. CASE "pack_header" \in set
    <3>1. Holds(w, start, c) /\ Len(c) = 15 /\ c[1].len = 14 /\ 1 \in 1..Len(c)
      BY <1>8, <1>14, <2>1, <2>3
    <3> HIDE DEF start
    <3>2. w[start + 1] = c[1] /\ start + 15 <= Len(w)
      BY <1>8, <3>1 DEF Holds
    <3>3. PackHeaderEnd(w) = start + 1 + 14
      BY <1>15, <1>17, <2>1, <2>3, <3>1, <3>2 DEF PackHeaderEnd, start
    <3>4. QED BY <2>1, <3>1, <3>3
  <2>4. QED BY <2>2, <2>3
<1>20. /\ SequenceCounterEnd(w) = Len(a) + Len(b) + Len(c) + Len(d)
       /\ PStdBufferEnd(w) = Len(a) + Len(b) + Len(c) + Len(d) + Len(e)
  <2>1. Len(a) + Len(b) + Len(c) \in Nat
    BY <1>2, <1>3, <1>8 DEF Optional
  <2>2. SequenceCounterEnd(w) = Len(a) + Len(b) + Len(c) + Len(d)
    BY <1>4, <1>17, <1>19, <2>1, PesSizes DEF Optional, SequenceCounterEnd, Past, NoOffset
  <2>3. Len(a) + Len(b) + Len(c) + Len(d) \in Nat
    BY <1>4, <2>1 DEF Optional
  <2>4. PStdBufferEnd(w) = Len(a) + Len(b) + Len(c) + Len(d) + Len(e)
    <3> DEFINE start == SequenceCounterEnd(w)
    <3>1. start \in Nat /\ start # NoOffset
      BY <2>2, <2>3 DEF NoOffset
    <3>2. PStdBufferEnd(w) = IF "p_std_buffer" \in set THEN start + 2 ELSE start
      BY <1>17, <3>1, PesSizes DEF PStdBufferEnd, Past
    <3> HIDE DEF start
    <3>3. PStdBufferEnd(w) = start + Len(e)
      BY <1>5, <3>1, <3>2 DEF Optional
    <3>4. QED BY <2>2, <3>3 DEF start
  <2>5. QED BY <2>2, <2>4
<1>21. "private_data" \in set => Holds(w, 1, Field("private_data", 16))
  BY <1>2, <1>3, <1>14 DEF Optional
<1>22. /\ "pack_header" \in set
            => Holds(w, PrivateDataEnd(w), Block("pack_field_length", header))
       /\ PackHeaderEnd(w) = PrivateDataEnd(w) + (IF "pack_header" \in set THEN 15 ELSE 0)
  BY <1>8, <1>14, <1>18, <1>19
<1>23. /\ "sequence_counter" \in set
            => Holds(w, PackHeaderEnd(w), Field("sequence_counter", 2))
       /\ "p_std_buffer" \in set => Holds(w, SequenceCounterEnd(w), Field("p_std_buffer", 2))
       /\ "extension_2" \in set => Holds(w, PStdBufferEnd(w), ext2)
  BY <1>4, <1>5, <1>9, <1>14, <1>19, <1>20 DEF Optional
<1>24. QED
  BY <1>7, <1>12, <1>15, <1>21, <1>22, <1>23 DEF PesExtensionLayout, flags, header, ext2

(* The optional fields end before the header data does.                    *)
InHeader(w, at, x) == Holds(w, at, x) /\ at + Len(x) <= HeaderEnd(w)

HeaderLayout(w, set) ==
  /\ "pts" \in set => InHeader(w, 3, Field("pts", 5))
  /\ "dts" \in set => InHeader(w, 8, Field("dts", 5))
  /\ "escr" \in set => InHeader(w, PtsDtsEnd(w), Field("escr", 6))
  /\ "es_rate" \in set => InHeader(w, EscrEnd(w), Field("es_rate", 3))
  /\ "dsm_trick_mode" \in set => InHeader(w, EsRateEnd(w), Field("dsm_trick_mode", 1))
  /\ "additional_copy_info" \in set
       => InHeader(w, DsmTrickModeEnd(w), Field("additional_copy_info", 1))
  /\ "crc" \in set => InHeader(w, AdditionalCopyInfoEnd(w), Field("crc", 2))
  /\ "pes_extension" \in set => InHeader(w, PesCrcEnd(w), WrittenPesExtension(set))
  /\ PesCrcEnd(w) <= HeaderEnd(w)

LEMMA HeldInHeader ==
  ASSUME NEW w \in Seq(Bytes), NEW f \in Seq(Bytes), NEW x \in Seq(Bytes), NEW off,
         Holds(w, 3, f), Holds(f, off, x), HeaderEnd(w) \in Nat, 3 + Len(f) <= HeaderEnd(w)
  PROVE  InHeader(w, 3 + off, x)
<1>1. Holds(w, 3 + off, x)
  BY HoldsWithin
<1>2. (3 + off) + Len(x) <= HeaderEnd(w)
  BY LenProperties DEF Holds
<1>3. QED BY <1>1, <1>2 DEF InHeader

LEMMA HeaderIsLaidOut ==
  ASSUME NEW set, NEW w \in Seq(Bytes), ~(Extension2Fields \subseteq set),
         "dts" \in set => "pts" \in set
  PROVE  /\ WrittenPesFields(set) \in Seq(Bytes)
         /\ (/\ Holds(w, 3, WrittenPesFields(set)) /\ HeaderEnd(w) \in Nat
             /\ 3 + Len(WrittenPesFields(set)) <= HeaderEnd(w)
             /\ w[2].flags = set \cap PesFlags) => HeaderLayout(w, set)
<1> DEFINE ext == WrittenPesExtension(set)
           a == OptionalField(set, "pts", 5)
           b == OptionalField(set, "dts", 5)
           c == OptionalField(set, "escr", 6)
           d == OptionalField(set, "es_rate", 3)
           e == OptionalField(set, "dsm_trick_mode", 1)
           f == OptionalField(set, "additional_copy_info", 1)
           g == OptionalField(set, "crc", 2)
           h == IF "pes_extension" \in set THEN ext ELSE << >>
           v == a \o b \o c \o d \o e \o f \o g \o h
<1>0. /\ "pts" \in Names /\ "dts" \in Names /\ "escr" \in Names /\ "es_rate" \in Names
      /\ "dsm_trick_mode" \in Names /\ "additional_copy_info" \in Names /\ "crc" \in Names
  BY NamesAre DEF PesFlags
<1>1. Optional(a, set, "pts", 5)
  BY <1>0, OptionalIs
<1>2. Optional(b, set, "dts", 5)
  BY <1>0, OptionalIs
<1>3. Optional(c, set, "escr", 6)
  BY <1>0, OptionalIs
<1>4. Optional(d, set, "es_rate", 3)
  BY <1>0, OptionalIs
<1>5. Optional(e, set, "dsm_trick_mode", 1)
  BY <1>0, OptionalIs
<1>6. Optional(f, set, "additional_copy_info", 1)
  BY <1>0, OptionalIs
<1>7. Optional(g, set, "crc", 2)
  BY <1>0, OptionalIs
<1>8. WrittenPesFields(set) = v
  BY PesSizes DEF WrittenPesFields, TIMESTAMP_SIZE
<1>9. h \in Seq(Bytes) /\ ("pes_extension" \in set => h = ext)
  <2>1. ext \in Seq(Bytes)
    BY PesExtensionIsLaidOut
  <2> HIDE DEF ext
  <2>2. QED BY <2>1, EmptySeq
<1> HIDE DEF a, b, c, d, e, f, g, h, ext
<1>10. /\ a \in Seq(Bytes) /\ b \in Seq(Bytes) /\ c \in Seq(Bytes) /\ d \in Seq(Bytes)
       /\ e \in Seq(Bytes) /\ f \in Seq(Bytes) /\ g \in Seq(Bytes) /\ h \in Seq(Bytes)
  BY <1>1, <1>2, <1>3, <1>4, <1>5, <1>6, <1>7, <1>9 DEF Optional
<1>11. EightLaid(a, b, c, d, e, f, g, h)
  BY <1>10, EightParts
<1>12. /\ v \in Seq(Bytes)
       /\ Len(v) = Len(a) + Len(b) + Len(c) + Len(d) + Len(e) + Len(f) + Len(g) + Len(h)
       /\ Holds(v, 0, a) /\ Holds(v, Len(a), b) /\ Holds(v, Len(a) + Len(b), c)
       /\ Holds(v, Len(a) + Len(b) + Len(c), d)
       /\ Holds(v, Len(a) + Len(b) + Len(c) + Len(d), e)
       /\ Holds(v, Len(a) + Len(b) + Len(c) + Len(d) + Len(e), f)
       /\ Holds(v, Len(a) + Len(b) + Len(c) + Len(d) + Len(e) + Len(f), g)
       /\ Holds(v, Len(a) + Len(b) + Len(c) + Len(d) + Len(e) + Len(f) + Len(g), h)
  BY <1>11 DEF EightLaid
<1> HIDE DEF v
<1>13. SUFFICES ASSUME Holds(w, 3, v), HeaderEnd(w) \in Nat, 3 + Len(v) <= HeaderEnd(w),
                       w[2].flags = set \cap PesFlags
                PROVE  HeaderLayout(w, set)
  BY <1>8, <1>12
<1>14. \A flag \in PesFlags : PesHas(w, flag) <=> flag \in set
  BY <1>13 DEF PesHas
<1>15. /\ PesHas(w, "pts") <=> "pts" \in set
       /\ PesHas(w, "dts") <=> "dts" \in set
       /\ PesHas(w, "escr") <=> "escr" \in set
       /\ PesHas(w, "es_rate") <=> "es_rate" \in set
       /\ PesHas(w, "dsm_trick_mode") <=> "dsm_trick_mode" \in set
       /\ PesHas(w, "additional_copy_info") <=> "additional_copy_info" \in set
       /\ PesHas(w, "crc") <=> "crc" \in set
  BY <1>14 DEF PesFlags
<1>16. /\ Len(a) \in Nat /\ Len(b) \in Nat /\ Len(c) \in Nat /\ Len(d) \in Nat
       /\ Len(e) \in Nat /\ Len(f) \in Nat /\ Len(g) \in Nat /\ Len(h) \in Nat
  BY <1>10, LenProperties
<1>17. PtsDtsEnd(w) = 3 + (Len(a) + Len(b))
  BY <1>1, <1>2, <1>15 DEF Optional, PtsDtsEnd, FIXED_HEADER_SIZE, TIMESTAMP_SIZE
<1>18. /\ SizeIf(w, "escr") = Len(c) /\ SizeIf(w, "es_rate") = Len(d)
       /\ SizeIf(w, "dsm_trick_mode") = Len(e)
       /\ SizeIf(w, "additional_copy_info") = Len(f) /\ SizeIf(w, "crc") = Len(g)
  BY <1>3, <1>4, <1>5, <1>6, <1>7, <1>15, PesSizes DEF Optional, SizeIf
<1>19. /\ Len(a) + Len(b) \in Nat /\ Len(a) + Len(b) + Len(c) \in Nat
       /\ Len(a) + Len(b) + Len(c) + Len(d) \in Nat
       /\ Len(a) + Len(b) + Len(c) + Len(d) + Len(e) \in Nat
       /\ Len(a) + Len(b) + Len(c) + Len(d) + Len(e) + Len(f) \in Nat
  BY <1>16
<1>20a. EscrEnd(w) = 3 + (Len(a) + Len(b) + Len(c))
  <2>1. EscrEnd(w) = PtsDtsEnd(w) + SizeIf(w, "escr")
    BY DEF EscrEnd
  <2>2. PtsDtsEnd(w) = 3 + (Len(a) + Len(b))
    BY <1>17
  <2>3. SizeIf(w, "escr") = Len(c)
    BY <1>18
  <2> DEFINE sum == Len(a) + Len(b)
             size == Len(c)
  <2>4. sum \in Nat /\ size \in Nat
    BY <1>16, <1>19
  <2> HIDE DEF sum, size
  <2>5. EscrEnd(w) = (3 + sum) + size
    BY <2>1, <2>2, <2>3 DEF sum, size
  <2>6. (3 + sum) + size = 3 + (sum + size)
    BY <2>4
  <2>7. QED BY <2>5, <2>6 DEF sum, size
<1>20b. EsRateEnd(w) = 3 + (Len(a) + Len(b) + Len(c) + Len(d))
  <2>1. EsRateEnd(w) = EscrEnd(w) + SizeIf(w, "es_rate")
    BY DEF EsRateEnd
  <2>2. EscrEnd(w) = 3 + (Len(a) + Len(b) + Len(c))
    BY <1>20a
  <2>3. SizeIf(w, "es_rate") = Len(d)
    BY <1>18
  <2> DEFINE sum == Len(a) + Len(b) + Len(c)
             size == Len(d)
  <2>4. sum \in Nat /\ size \in Nat
    BY <1>16, <1>19
  <2> HIDE DEF sum, size
  <2>5. EsRateEnd(w) = (3 + sum) + size
    BY <2>1, <2>2, <2>3 DEF sum, size
  <2>6. (3 + sum) + size = 3 + (sum + size)
    BY <2>4
  <2>7. QED BY <2>5, <2>6 DEF sum, size
<1>20c. DsmTrickModeEnd(w) = 3 + (Len(a) + Len(b) + Len(c) + Len(d) + Len(e))
  <2>1. DsmTrickModeEnd(w) = EsRateEnd(w) + SizeIf(w, "dsm_trick_mode")
    BY DEF DsmTrickModeEnd
  <2>2. EsRateEnd(w) = 3 + (Len(a) + Len(b) + Len(c) + Len(d))
    BY <1>20b
  <2>3. SizeIf(w, "dsm_trick_mode") = Len(e)
    BY <1>18
  <2> DEFINE sum == Len(a) + Len(b) + Len(c) + Len(d)
             size == Len(e)
  <2>4. sum \in Nat /\ size \in Nat
    BY <1>16, <1>19
  <2> HIDE DEF sum, size
  <2>5. DsmTrickModeEnd(w) = (3 + sum) + size
    BY <2>1, <2>2, <2>3 DEF sum, size
  <2>6. (3 + sum) + size = 3 + (sum + size)
    BY <2>4
  <2>7. QED BY <2>5, <2>6 DEF sum, size
<1>20d. AdditionalCopyInfoEnd(w) = 3 + (Len(a) + Len(b) + Len(c) + Len(d) + Len(e) + Len(f))
  <2>1. AdditionalCopyInfoEnd(w) = DsmTrickModeEnd(w) + SizeIf(w, "additional_copy_info")
    BY DEF AdditionalCopyInfoEnd
  <2>2. DsmTrickModeEnd(w) = 3 + (Len(a) + Len(b) + Len(c) + Len(d) + Len(e))
    BY <1>20c
  <2>3. SizeIf(w, "additional_copy_info") = Len(f)
    BY <1>18
  <2> DEFINE sum == Len(a) + Len(b) + Len(c) + Len(d) + Len(e)
             size == Len(f)
  <2>4. sum \in Nat /\ size \in Nat
    BY <1>16, <1>19
  <2> HIDE DEF sum, size
  <2>5. AdditionalCopyInfoEnd(w) = (3 + sum) + size
    BY <2>1, <2>2, <2>3 DEF sum, size
  <2>6. (3 + sum) + size = 3 + (sum + size)
    BY <2>4
  <2>7. QED BY <2>5, <2>6 DEF sum, size
<1>20e. PesCrcEnd(w) = 3 + (Len(a) + Len(b) + Len(c) + Len(d) + Len(e) + Len(f) + Len(g))
  <2>1. PesCrcEnd(w) = AdditionalCopyInfoEnd(w) + SizeIf(w, "crc")
    BY DEF PesCrcEnd
  <2>2. AdditionalCopyInfoEnd(w) = 3 + (Len(a) + Len(b) + Len(c) + Len(d) + Len(e) + Len(f))
    BY <1>20d
  <2>3. SizeIf(w, "crc") = Len(g)
    BY <1>18
  <2> DEFINE sum == Len(a) + Len(b) + Len(c) + Len(d) + Len(e) + Len(f)
             size == Len(g)
  <2>4. sum \in Nat /\ size \in Nat
    BY <1>16, <1>19
  <2> HIDE DEF sum, size
  <2>5. PesCrcEnd(w) = (3 + sum) + size
    BY <2>1, <2>2, <2>3 DEF sum, size
  <2>6. (3 + sum) + size = 3 + (sum + size)
    BY <2>4
  <2>7. QED BY <2>5, <2>6 DEF sum, size
<1>21. ASSUME NEW off, NEW x \in Seq(Bytes), Holds(v, off, x)
       PROVE  InHeader(w, 3 + off, x)
  BY <1>12, <1>13, <1>21, HeldInHeader
<1>22. /\ InHeader(w, 3 + 0, a) /\ InHeader(w, 3 + Len(a), b)
       /\ InHeader(w, PtsDtsEnd(w), c) /\ InHeader(w, EscrEnd(w), d)
       /\ InHeader(w, EsRateEnd(w), e) /\ InHeader(w, DsmTrickModeEnd(w), f)
       /\ InHeader(w, AdditionalCopyInfoEnd(w), g) /\ InHeader(w, PesCrcEnd(w), h)
  BY <1>10, <1>12, <1>17, <1>20a, <1>20b, <1>20c, <1>20d, <1>20e, <1>21
<1>23. PesCrcEnd(w) <= HeaderEnd(w)
  <2> DEFINE sum == Len(a) + Len(b) + Len(c) + Len(d) + Len(e) + Len(f) + Len(g)
  <2>1. sum \in Nat
    BY <1>16
  <2>2. PesCrcEnd(w) = 3 + sum
    BY <1>20e
  <2>3. Len(v) = sum + Len(h)
    BY <1>12
  <2> HIDE DEF sum
  <2>4. QED BY <1>13, <1>16, <2>1, <2>2, <2>3
<1>24. "pts" \in set => InHeader(w, 3, Field("pts", 5))
  BY <1>1, <1>22 DEF Optional
<1>25. "dts" \in set => InHeader(w, 8, Field("dts", 5))
  BY <1>1, <1>2, <1>22 DEF Optional
<1>26. /\ "escr" \in set => InHeader(w, PtsDtsEnd(w), Field("escr", 6))
       /\ "es_rate" \in set => InHeader(w, EscrEnd(w), Field("es_rate", 3))
       /\ "dsm_trick_mode" \in set => InHeader(w, EsRateEnd(w), Field("dsm_trick_mode", 1))
  BY <1>3, <1>4, <1>5, <1>22 DEF Optional
<1>27. /\ "additional_copy_info" \in set
            => InHeader(w, DsmTrickModeEnd(w), Field("additional_copy_info", 1))
       /\ "crc" \in set => InHeader(w, AdditionalCopyInfoEnd(w), Field("crc", 2))
       /\ "pes_extension" \in set => InHeader(w, PesCrcEnd(w), ext)
  BY <1>6, <1>7, <1>9, <1>22 DEF Optional
<1>28. QED BY <1>23, <1>24, <1>25, <1>26, <1>27 DEF HeaderLayout, ext

-------------------------------------------------------------------------------
(* Reading a PES header.                                                   *)

LEMMA SubSeqHeld ==
  ASSUME NEW w \in Seq(Bytes), NEW from \in Nat, NEW to \in Nat, from <= to, to <= Len(w)
  PROVE  LET x == SubSeq(w, from + 1, to) IN
         x \in Seq(Bytes) /\ Len(x) = to - from /\ Holds(w, from, x)
<1> DEFINE x == SubSeq(w, from + 1, to)
<1>1. x \in Seq(Bytes) /\ Len(x) = to - from /\ \A i \in 1..(to - from) : x[i] = w[from + i]
  BY SubSeqIs
<1> HIDE DEF x
<1>2. from + Len(x) <= Len(w)
  BY <1>1, LenProperties
<1>3. QED BY <1>1, <1>2 DEF Holds, x

LEMMA SameHeader ==
  ASSUME NEW w \in Seq(Bytes), NEW pes, NEW bad, Like(pes, w, bad), Len(pes) >= 3
  PROVE  /\ HeaderEnd(pes) = HeaderEnd(w) /\ \A f : PesHas(pes, f) <=> PesHas(w, f)
         /\ PtsDtsEnd(pes) = PtsDtsEnd(w) /\ EscrEnd(pes) = EscrEnd(w)
         /\ EsRateEnd(pes) = EsRateEnd(w) /\ DsmTrickModeEnd(pes) = DsmTrickModeEnd(w)
         /\ AdditionalCopyInfoEnd(pes) = AdditionalCopyInfoEnd(w)
         /\ PesCrcEnd(pes) = PesCrcEnd(w)
<1>1. 2 \in 1..Len(pes) /\ 3 \in 1..Len(pes)
  BY LenProperties DEF Like
<1>2. pes[2].flags = w[2].flags /\ pes[3].len = w[3].len
  BY <1>1 DEF Like
<1>3. HeaderEnd(pes) = HeaderEnd(w)
  BY <1>2 DEF HeaderEnd
<1>4. \A f : PesHas(pes, f) <=> PesHas(w, f)
  BY <1>2 DEF PesHas
<1>5. PtsDtsEnd(pes) = PtsDtsEnd(w)
  BY <1>4 DEF PtsDtsEnd
<1>6. \A f : SizeIf(pes, f) = SizeIf(w, f)
  BY <1>4 DEF SizeIf
<1>7. EscrEnd(pes) = EscrEnd(w)
  BY <1>5, <1>6 DEF EscrEnd
<1>8. EsRateEnd(pes) = EsRateEnd(w)
  BY <1>6, <1>7 DEF EsRateEnd
<1>9. DsmTrickModeEnd(pes) = DsmTrickModeEnd(w)
  BY <1>6, <1>8 DEF DsmTrickModeEnd
<1>10. AdditionalCopyInfoEnd(pes) = AdditionalCopyInfoEnd(w)
  BY <1>6, <1>9 DEF AdditionalCopyInfoEnd
<1>11. PesCrcEnd(pes) = PesCrcEnd(w)
  BY <1>6, <1>10 DEF PesCrcEnd
<1>12. QED BY <1>3, <1>4, <1>5, <1>7, <1>8, <1>9, <1>10, <1>11

LEMMA HeaderSliceReads ==
  ASSUME NEW w \in Seq(Bytes), NEW pes, NEW bad, Like(pes, w, bad), Checked(pes),
         NEW x \in Seq(Bytes), NEW at, InHeader(w, at, x)
  PROVE  Reads(HeaderSlice(pes, at, at + Len(x)), x, bad, TRUE)
<1> DEFINE to == at + Len(x)
           y == SubSeq(pes, at + 1, to)
<1>1. /\ pes \in Seq(Bytes) /\ at \in Nat /\ Len(x) \in Nat /\ Len(pes) \in Nat
      /\ Holds(w, at, x) /\ HeaderEnd(pes) \in Nat /\ HeaderEnd(pes) <= Len(pes)
  BY LenProperties DEF InHeader, Holds, Checked
<1>2. HeaderEnd(pes) = HeaderEnd(w)
  BY SameHeader DEF Checked
<1>3. to \in Nat /\ at <= to /\ to <= HeaderEnd(pes) /\ to <= Len(pes)
  BY <1>1, <1>2 DEF InHeader
<1>4. Copy(y, x, bad)
  BY <1>1, <1>3, PartIsCopy
<1> HIDE DEF to
<1>5. HeaderSlice(pes, at, to) = Ok(y)
  BY <1>1, <1>3, IndexIs DEF HeaderSlice
<1> HIDE DEF y
<1>6. Reads(Ok(y), x, bad, TRUE)
  BY <1>4, ResultIs DEF Reads
<1>7. QED BY <1>5, <1>6 DEF to

LEMMA FieldAtReads ==
  ASSUME NEW w \in Seq(Bytes), NEW pes, NEW bad, Like(pes, w, bad), Checked(pes),
         NEW set, NEW field \in Names, NEW n \in Nat, NEW at, bad # field,
         PesSize(field) = n, PesHas(pes, field) <=> field \in set,
         field \in set => InHeader(w, at, Field(field, n))
  PROVE  FieldAt(pes, field, at) = IF field \in set THEN Ok(Field(field, n))
                                                    ELSE FieldNotPresent
<1>1. CASE field \notin set
  BY <1>1 DEF FieldAt
<1>2. CASE field \in set
  <2> DEFINE x == Field(field, n)
             r == HeaderSlice(pes, at, at + n)
  <2>1. x \in Seq(Bytes) /\ Len(x) = n /\ InHeader(w, at, x)
    BY <1>2, FieldPiece
  <2>2. FieldAt(pes, field, at) = r
    BY <1>2 DEF FieldAt
  <2> HIDE DEF x
  <2>3. Reads(HeaderSlice(pes, at, at + Len(x)), x, bad, TRUE)
    BY <2>1, HeaderSliceReads
  <2>4. Reads(r, Field(field, n), bad, TRUE)
    BY <2>1, <2>3 DEF x
  <2> HIDE DEF r
  <2>5. Correct(r, field, n, TRUE)
    BY <2>4, ReadsField
  <2>6. QED BY <1>2, <2>2, <2>5 DEF Correct
<1>3. QED BY <1>1, <1>2

LEMMA PtsDtsReads ==
  ASSUME NEW set, NEW w \in Seq(Bytes), NEW pes, NEW bad, Like(pes, w, bad), Checked(pes),
         HeaderLayout(w, set), w[2].flags = set \cap PesFlags,
         "dts" \in set => "pts" \in set,
         NEW field \in {"pts", "dts"}, bad # field
  PROVE  PtsDts(pes, field) = IF field \in set THEN Ok(Field(field, 5)) ELSE FieldNotPresent
<1>1. \A f \in PesFlags : PesHas(w, f) <=> f \in set
  BY DEF PesHas
<1>2. /\ PesHas(pes, "pts") <=> "pts" \in set
      /\ PesHas(pes, "dts") <=> "dts" \in set
      /\ PesHas(pes, field) <=> field \in set
  BY <1>1, SameHeader DEF Checked, PesFlags
<1>3. CASE field \notin set
  BY <1>2, <1>3 DEF PtsDts
<1>4. CASE field \in set
  <2> DEFINE end == PtsDtsEnd(pes)
             both == HeaderSlice(pes, 3, end)
             at == IF field = "pts" THEN 0 ELSE 5
             one == Index(both.bytes, at, at + 5)
             x == SubSeq(w, 3 + 1, end)
  <2>0. field \in Names
    BY NamesAre DEF PesFlags
  <2>1. PtsDts(pes, field) = IF both.status = "ok"
                             THEN IF one.status = "ok" THEN TimestampFromBytes(one.bytes)
                                                       ELSE one
                             ELSE both
    BY <1>2, <1>4 DEF PtsDts, Then, FIXED_HEADER_SIZE, TIMESTAMP_SIZE
  <2>2. /\ at \in Nat /\ at + 5 <= end - 3
        /\ end = IF "dts" \in set THEN 13 ELSE 8
    BY <1>2, <1>4 DEF PtsDtsEnd, FIXED_HEADER_SIZE, TIMESTAMP_SIZE
  <2>3. Len(Field("pts", 5)) = 5 /\ Len(Field("dts", 5)) = 5 /\ Field(field, 5) \in Seq(Bytes)
        /\ Len(Field(field, 5)) = 5
    BY <2>0, NamesAre, FieldPiece DEF PesFlags
  <2>4. end <= HeaderEnd(w) /\ end <= Len(w) /\ end \in Nat /\ 3 <= end
    <3>1. HeaderEnd(w) = HeaderEnd(pes) /\ HeaderEnd(pes) \in Nat
          /\ HeaderEnd(pes) <= Len(pes) /\ Len(pes) <= Len(w)
      BY SameHeader DEF Checked, Like
    <3>2. end <= HeaderEnd(w)
      <4>1. "pts" \in set /\ ("dts" \in set => InHeader(w, 8, Field("dts", 5)))
            /\ InHeader(w, 3, Field("pts", 5))
        BY <1>4 DEF HeaderLayout
      <4>2. "dts" \in set => 8 + Len(Field("dts", 5)) <= HeaderEnd(w)
        BY <4>1 DEF InHeader
      <4>3. 3 + Len(Field("pts", 5)) <= HeaderEnd(w)
        BY <4>1 DEF InHeader
      <4>4. ("dts" \in set => 8 + 5 <= HeaderEnd(w)) /\ 3 + 5 <= HeaderEnd(w)
        <5>1. Len(Field("pts", 5)) = 5 /\ Len(Field("dts", 5)) = 5
          BY <2>3
        <5>2. QED BY <4>2, <4>3, <5>1, Zenon
      <4>5. 8 + 5 = 13 /\ 3 + 5 = 8
        OBVIOUS
      <4>6. QED BY <2>2, <4>4, <4>5
    <3>3. Len(pes) \in Nat /\ Len(w) \in Nat
      BY LenProperties DEF Checked
    <3>4. QED BY <2>2, <3>1, <3>2, <3>3
  <2>5. Holds(w, 3 + at, Field(field, 5))
    BY <1>4 DEF HeaderLayout, InHeader
  <2> HIDE DEF end, at
  <2>6. x \in Seq(Bytes) /\ Len(x) = end - 3 /\ Holds(w, 3, x)
    BY <2>4, SubSeqHeld
  <2> HIDE DEF x
  <2>7. InHeader(w, 3, x) /\ 3 + Len(x) = end
    BY <2>4, <2>6 DEF InHeader
  <2>8. Reads(both, x, bad, TRUE)
    BY <2>7, <2>6, HeaderSliceReads
  <2> HIDE DEF both
  <2> DEFINE y == both.bytes
  <2>9. both.status = "ok" /\ Copy(y, x, bad)
    BY <2>8 DEF Reads
  <2> HIDE DEF y
  <2>10. Holds(x, at, Field(field, 5))
    <3> DEFINE z == Field(field, 5)
    <3>1. z \in Seq(Bytes) /\ Len(z) = 5 /\ Holds(w, 3 + at, z)
      BY <2>3, <2>5
    <3> HIDE DEF z
    <3>2. at + Len(z) <= Len(x) /\ at \in Nat
      BY <2>2, <2>6, <3>1
    <3>3. Holds(x, at, z)
      BY <2>6, <3>1, <3>2, HoldsInPart
    <3>4. QED BY <3>3 DEF z
  <2>11. Correct(Slice(y, at, at + 5), field, 5, Len(y) = Len(x))
    BY <2>0, <2>6, <2>9, <2>10, FieldReads DEF Copy
  <2>12. Slice(y, at, at + 5) = Index(y, at, at + 5)
    BY <2>2, <2>6, <2>9 DEF Slice, Copy
  <2>13. one = Ok(Field(field, 5))
    BY <2>9, <2>11, <2>12 DEF Correct, Copy, y
  <2> HIDE DEF one
  <2>14. TimestampFromBytes(Field(field, 5)) = Ok(Field(field, 5))
    BY <2>0, FieldMarks
  <2>15. QED BY <1>4, <2>1, <2>9, <2>13, <2>14, ResultIs
<1>5. QED BY <1>3, <1>4

-------------------------------------------------------------------------------
(* The PES extension.                                                      *)

Extension2Marker == "extension 2 marker"

LEMMA SameExtension ==
  ASSUME NEW v \in Seq(Bytes), NEW ext, NEW bad, Copy(ext, v, bad), Len(v) >= 1
  PROVE  /\ ext \in Seq(Bytes) /\ Len(ext) = Len(v) /\ \A f : Has(ext, f) <=> Has(v, f)
         /\ PrivateDataEnd(ext) = PrivateDataEnd(v) /\ PackHeaderEnd(ext) = PackHeaderEnd(v)
         /\ SequenceCounterEnd(ext) = SequenceCounterEnd(v)
         /\ PStdBufferEnd(ext) = PStdBufferEnd(v)
<1>1. ext \in Seq(Bytes) /\ Len(ext) = Len(v) /\ Len(v) \in Nat
  BY LenProperties DEF Copy, Like
<1>2. \A i \in 1..Len(v) : ext[i].flags = v[i].flags /\ ext[i].len = v[i].len
  BY <1>1 DEF Copy, Like
<1>3. 1 \in 1..Len(v)
  BY <1>1
<1>4. \A f : Has(ext, f) <=> Has(v, f)
  BY <1>2, <1>3 DEF Has
<1>5. PrivateDataEnd(ext) = PrivateDataEnd(v) /\ PrivateDataEnd(v) \in Nat
  BY <1>4 DEF PrivateDataEnd, PRIVATE_DATA_SIZE
<1>6. PackHeaderEnd(ext) = PackHeaderEnd(v)
  <2> DEFINE start == PrivateDataEnd(v)
  <2>1. /\ PackHeaderEnd(ext) = IF ~Has(v, "pack_header") THEN start
                                ELSE IF start >= Len(v) THEN NoOffset
                                ELSE start + 1 + ext[start + 1].len
        /\ PackHeaderEnd(v) = IF ~Has(v, "pack_header") THEN start
                              ELSE IF start >= Len(v) THEN NoOffset
                              ELSE start + 1 + v[start + 1].len
    BY <1>1, <1>4, <1>5 DEF PackHeaderEnd
  <2> HIDE DEF start
  <2>2. ~(start >= Len(v)) => start + 1 \in 1..Len(v)
    BY <1>1, <1>5 DEF start
  <2>3. QED BY <1>2, <2>1, <2>2
<1>7. SequenceCounterEnd(ext) = SequenceCounterEnd(v)
  BY <1>4, <1>6 DEF SequenceCounterEnd, Past
<1>8. PStdBufferEnd(ext) = PStdBufferEnd(v)
  BY <1>4, <1>7 DEF PStdBufferEnd, Past
<1>9. QED BY <1>1, <1>4, <1>5, <1>6, <1>7, <1>8

LEMMA ExtensionFieldReads ==
  ASSUME NEW v \in Seq(Bytes), NEW ext, NEW bad, Copy(ext, v, bad), NEW field \in Names,
         NEW n \in Nat, bad # field, NEW at, Holds(v, at, Field(field, n))
  PROVE  /\ at \in Nat /\ ExtensionSlice(ext, at, at + n) = Ok(Field(field, n))
         /\ PesSize(field) = n => ExtensionField(ext, field, at) = Ok(Field(field, n))
<1>1. Like(ext, v, bad) /\ Len(ext) = Len(v)
  BY DEF Copy
<1>2. Correct(Slice(ext, at, at + n), field, n, Len(ext) = Len(v))
  BY <1>1, FieldReads
<1>3. ExtensionSlice(ext, at, at + n) = Slice(ext, at, at + n)
  BY DEF ExtensionSlice, Slice
<1>4. ExtensionSlice(ext, at, at + n) = Ok(Field(field, n))
  BY <1>1, <1>2, <1>3 DEF Correct
<1>5. at \in Nat /\ at # NoOffset
  BY DEF Holds, NoOffset
<1>6. QED BY <1>4, <1>5 DEF ExtensionField

LEMMA ExtensionFieldAtReads ==
  ASSUME NEW v \in Seq(Bytes), NEW ext, NEW bad, Copy(ext, v, bad), NEW field \in Names,
         PesSize(field) \in Nat, bad # field, NEW at, Holds(v, at, Field(field, PesSize(field)))
  PROVE  /\ ExtensionField(ext, field, at) = Ok(Field(field, PesSize(field)))
         /\ ExtensionSlice(ext, at, at + PesSize(field)) = Ok(Field(field, PesSize(field)))
<1> DEFINE n == PesSize(field)
<1>1. n \in Nat /\ Holds(v, at, Field(field, n)) /\ PesSize(field) = n
  OBVIOUS
<1> HIDE DEF n
<1>2. ExtensionField(ext, field, at) = Ok(Field(field, n))
  BY <1>1, ExtensionFieldReads
<1>3. ExtensionSlice(ext, at, at + n) = Ok(Field(field, n))
  BY <1>1, ExtensionFieldReads
<1>4. QED BY <1>2, <1>3 DEF n

LEMMA PackHeaderReads ==
  ASSUME NEW set, NEW v, PesExtensionLayout(v, set), NEW ext, NEW bad, Copy(ext, v, bad),
         "pack_header" \in set, bad # "pack_header"
  PROVE  PackHeader(ext) = Ok(Field("pack_header", 14))
<1> DEFINE x == Field("pack_header", 14)
           all == Block("pack_field_length", x)
           start == PrivateDataEnd(v)
<1>0. "pack_field_length" \in Names /\ "pack_header" \in Names
  BY NamesAre DEF ExtensionFlags
<1>1. x \in Seq(Bytes) /\ Len(x) = 14
  BY <1>0, FieldPiece
<1>2. \A where \in SUBSET (1..14) : Marked(x, where) = Ok(x)
  BY <1>0, FieldMarks
<1> HIDE DEF x
<1>3. all \in Seq(Bytes) /\ Len(all) = 15 /\ Holds(all, 1, x)
  <2>1. all \in Seq(Bytes) /\ Len(all) = 1 + Len(x) /\ Holds(all, 1, x)
    BY <1>0, <1>1, BlockIs
  <2> HIDE DEF all
  <2>2. QED BY <1>1, <2>1
<1>4. Holds(v, start, all) /\ v \in Seq(Bytes) /\ Len(v) >= 1
  BY DEF PesExtensionLayout, x
<1> HIDE DEF all
<1>5. PackHeaderEnd(v) = start + 15 /\ start \in Nat
  BY <1>4 DEF PesExtensionLayout, Holds
<1>6. Holds(v, start + 1, x)
  BY <1>1, <1>3, <1>4, HoldsWithin
<1>7. PackHeaderEnd(ext) = start + 15 /\ PrivateDataEnd(ext) = start
  BY <1>4, <1>5, SameExtension
<1> HIDE DEF start
<1>8. ExtensionSlice(ext, start + 1, (start + 1) + 14) = Ok(x)
  BY <1>0, <1>4, <1>6, ExtensionFieldReads DEF x
<1>9. ExtensionSlice(ext, PrivateDataEnd(ext) + 1, PackHeaderEnd(ext)) = Ok(x)
  BY <1>5, <1>7, <1>8
<1>10. PackHeaderEnd(ext) # NoOffset
  BY <1>5, <1>7 DEF NoOffset
<1>11. PackHeader(ext) = IF Len(x) < 14 THEN NotEnoughData ELSE Marked(x, 1..5)
  BY <1>9, <1>10, ResultIs DEF PackHeader, Then, PACK_HEADER_SIZE
<1>12. Marked(x, 1..5) = Ok(x)
  BY <1>2
<1>13. ~(Len(x) < 14)
  BY <1>1
<1>14. PackHeader(ext) = Ok(x)
  BY <1>11, <1>12, <1>13
<1>15. QED BY <1>14 DEF x

LEMMA Extension2Reads ==
  ASSUME NEW set, NEW v, PesExtensionLayout(v, set), NEW ext, NEW bad, Copy(ext, v, bad),
         ~(Extension2Fields \subseteq set), "extension_2" \in set,
         NEW field \in Extension2Fields, bad # field, bad # Extension2Marker
  PROVE  Extension2(ext, field) =
           IF field \in set THEN Ok(Field(field, PesSize(field))) ELSE FieldNotPresent
<1> DEFINE start == PStdBufferEnd(v)
           x == WrittenExtension2(set)
           id == Field("stream_id_extension", 1)
           tref == Field("tref", 5)
<1>0. "stream_id_extension" \in Names /\ "tref" \in Names
  BY NamesAre DEF Extension2Fields
<1>1. Extension2Layout(x, set)
  BY Extension2IsLaidOut
<1>2. Holds(v, start, x) /\ v \in Seq(Bytes) /\ Len(v) >= 1 /\ Len(v) \in Nat
  BY DEF PesExtensionLayout
<1> HIDE DEF x
<1>3. x \in Seq(Bytes) /\ Len(x) \in Nat /\ Len(x) >= 2
  BY <1>1 DEF Extension2Layout
<1>3a. x[1].of = Extension2Marker /\ x[1].ok = TRUE
  <2>1. x[1] = Byte(Extension2Marker, 1)
    BY <1>1 DEF Extension2Layout, Extension2Marker
  <2>2. QED BY <2>1 DEF Byte, NewByte
<1>4. start \in Nat /\ start + Len(x) <= Len(v)
  BY <1>2 DEF Holds
<1>5. v[start + 1] = x[1] /\ v[start + 2] = x[2]
  <2>1. 1 \in 1..Len(x) /\ 2 \in 1..Len(x)
    BY <1>3
  <2>2. QED BY <1>2, <2>1 DEF Holds
<1>6. PStdBufferEnd(ext) = start /\ Len(ext) = Len(v) /\ ext \in Seq(Bytes)
  BY <1>2, SameExtension
<1> HIDE DEF start
<1>7. start + 1 \in 1..Len(v) /\ start + 2 \in 1..Len(v) /\ start + 1 < Len(v)
  BY <1>2, <1>3, <1>4
<1>8. ext[start + 1].ok = TRUE
  <2>1. v[start + 1].of = Extension2Marker /\ v[start + 1].ok = TRUE
    BY <1>3a, <1>5
  <2>2. ext[start + 1] = v[start + 1]
    BY <1>6, <1>7, <2>1 DEF Copy, Like
  <2>3. QED BY <2>1, <2>2
<1>9. ext[start + 2].flags = x[2].flags
  BY <1>5, <1>6, <1>7 DEF Copy, Like
<1>10. start # NoOffset /\ ~(start >= Len(ext)) /\ ~(start + 1 >= Len(ext))
  <2>1. start # NoOffset
    BY <1>4 DEF NoOffset
  <2>2. ~(start >= Len(v)) /\ ~(start + 1 >= Len(v))
    BY <1>2, <1>4, <1>7
  <2>3. QED BY <1>6, <2>1, <2>2
<1> DEFINE flags == x[2].flags
<1>11. Extension2(ext, field) =
         IF field = "stream_id_extension"
         THEN IF "stream_id_extension_flag" \in flags THEN FieldNotPresent
              ELSE Index(ext, start + 1, start + 2)
         ELSE IF "stream_id_extension_flag" \notin flags
                 \/ "tref_extension_flag" \in flags THEN FieldNotPresent
         ELSE Then(ExtensionSlice(ext, start + 2, start + 2 + TIMESTAMP_SIZE),
                   TimestampFromBytes)
  BY <1>6, <1>8, <1>9, <1>10 DEF Extension2
<1>12. CASE "stream_id_extension" \in set
  <2>1. "tref" \notin set /\ flags = {} /\ Holds(x, 1, id)
    BY <1>1, <1>12 DEF Extension2Layout, Extension2Fields
  <2>2. CASE field = "stream_id_extension"
    <3>1. id \in Seq(Bytes)
      BY <1>0, FieldPiece
    <3>2. Holds(v, start + 1, id)
      BY <1>2, <1>3, <2>1, <3>1, HoldsWithin
    <3>3. ExtensionSlice(ext, start + 1, (start + 1) + 1) = Ok(id)
      <4>1. PesSize("stream_id_extension") = 1 /\ bad # "stream_id_extension"
        BY <2>2, PesSizes
      <4>2. Holds(v, start + 1, Field("stream_id_extension", PesSize("stream_id_extension")))
        BY <3>2, <4>1
      <4>3. PesSize("stream_id_extension") \in Nat
        BY <4>1
      <4> DEFINE at == start + 1
      <4> HIDE DEF at
      <4>4. ExtensionSlice(ext, at, at + PesSize("stream_id_extension"))
              = Ok(Field("stream_id_extension", PesSize("stream_id_extension")))
        BY <1>0, <1>2, <4>1, <4>2, <4>3, ExtensionFieldAtReads DEF at
      <4>5. QED BY <4>1, <4>4 DEF at
    <3>4. Index(ext, start + 1, start + 2) = Ok(id)
      <4>1. (start + 1) + 1 = start + 2 /\ ~(start + 2 > Len(ext))
        <5>1. (start + 1) + 1 = start + 2 /\ ~(start + 2 > Len(v))
          BY <1>4, <1>7, <1>2
        <5>2. QED BY <1>6, <5>1
      <4>2. QED BY <3>3, <4>1 DEF ExtensionSlice
    <3>5. Extension2(ext, field) = Ok(id)
      BY <1>11, <2>1, <2>2, <3>4
    <3>6. PesSize(field) = 1
      BY <2>2, PesSizes
    <3>7. QED BY <1>12, <2>2, <3>5, <3>6
  <2>3. CASE field = "tref"
    BY <1>11, <2>1, <2>3
  <2>4. QED BY <2>2, <2>3 DEF Extension2Fields
<1>13. CASE "stream_id_extension" \notin set /\ "tref" \in set
  <2>1. flags = {"stream_id_extension_flag"} /\ Holds(x, 2, tref)
    BY <1>1, <1>13 DEF Extension2Layout
  <2>2. CASE field = "stream_id_extension"
    BY <1>11, <1>13, <2>1, <2>2
  <2>3. CASE field = "tref"
    <3>1. tref \in Seq(Bytes)
      BY <1>0, FieldPiece
    <3>2. Holds(v, start + 2, tref)
      BY <1>2, <1>3, <2>1, <3>1, HoldsWithin
    <3>3. ExtensionSlice(ext, start + 2, start + 2 + TIMESTAMP_SIZE) = Ok(tref)
      <4>1. PesSize("tref") = 5 /\ bad # "tref"
        BY <2>3, PesSizes
      <4>2. Holds(v, start + 2, Field("tref", PesSize("tref")))
        BY <3>2, <4>1
      <4>3. PesSize("tref") \in Nat
        BY <4>1
      <4> DEFINE at == start + 2
      <4> HIDE DEF at
      <4>4. ExtensionSlice(ext, at, at + PesSize("tref")) = Ok(Field("tref", PesSize("tref")))
        BY <1>0, <1>2, <4>1, <4>2, <4>3, ExtensionFieldAtReads DEF at
      <4>5. QED BY <4>1, <4>4 DEF at, TIMESTAMP_SIZE
    <3>4. TimestampFromBytes(tref) = Ok(tref)
      BY <1>0, FieldMarks
    <3>5. Then(ExtensionSlice(ext, start + 2, start + 2 + TIMESTAMP_SIZE),
               TimestampFromBytes) = Ok(tref)
      <4> HIDE DEF tref
      <4>1. QED BY <3>3, <3>4, ResultIs DEF Then
    <3>6. Extension2(ext, field) = Ok(tref)
      BY <1>11, <2>1, <2>3, <3>5
    <3>7. PesSize(field) = 5
      BY <2>3, PesSizes
    <3>8. QED BY <1>13, <2>3, <3>6, <3>7
  <2>4. QED BY <2>2, <2>3 DEF Extension2Fields
<1>14. CASE "stream_id_extension" \notin set /\ "tref" \notin set
  <2>1. flags = Extension2Flags
    BY <1>1, <1>14 DEF Extension2Layout
  <2>2. "stream_id_extension_flag" \in flags /\ "tref_extension_flag" \in flags
    BY <2>1 DEF Extension2Flags
  <2>3. field \notin set
    BY <1>14 DEF Extension2Fields
  <2>4. QED BY <1>11, <2>2, <2>3
<1>15. QED BY <1>12, <1>13, <1>14

LEMMA FewMarks ==
  ASSUME NEW field \in Names
  PROVE  /\ Marked(Field(field, 2), {1}) = Ok(Field(field, 2))
         /\ Marked(Field(field, 2), {1, 2}) = Ok(Field(field, 2))
         /\ Marked(Field(field, 1), {1}) = Ok(Field(field, 1))
<1>1. \A n \in 1..2 : Field(field, 2)[n].ok = TRUE
  BY DEF Field, Byte, NewByte
<1>2. \A n \in 1..1 : Field(field, 1)[n].ok = TRUE
  BY DEF Field, Byte, NewByte
<1>3. Field(field, 1)[1].ok = TRUE /\ Field(field, 2)[1].ok = TRUE /\ Field(field, 2)[2].ok = TRUE
  BY <1>1, <1>2
<1>4. QED BY <1>3 DEF Marked

LEMMA ExtensionReads ==
  ASSUME NEW set, NEW v, PesExtensionLayout(v, set), NEW ext, NEW bad, Copy(ext, v, bad),
         ~(Extension2Fields \subseteq set),
         NEW field \in (ExtensionFlags \ {"extension_2"}) \cup Extension2Fields, bad # field,
         field \in Extension2Fields => bad # Extension2Marker,
         field \in Extension2Fields /\ field \in set => "extension_2" \in set
  PROVE  ExtensionRead(ext, field) =
           IF field \in set THEN Ok(Field(field, PesSize(field))) ELSE FieldNotPresent
<1>0. v \in Seq(Bytes) /\ Len(v) >= 1 /\ \A f \in ExtensionFlags : Has(v, f) <=> f \in set
  BY DEF PesExtensionLayout, Has
<1>1. /\ \A f \in ExtensionFlags : Has(ext, f) <=> f \in set
      /\ PackHeaderEnd(ext) = PackHeaderEnd(v)
      /\ SequenceCounterEnd(ext) = SequenceCounterEnd(v)
  BY <1>0, SameExtension
<1>2. CASE field \in Extension2Fields
  <2>1. Has(ext, "extension_2") <=> "extension_2" \in set
    BY <1>1 DEF ExtensionFlags
  <2>2. CASE "extension_2" \in set
    <3>1. ExtensionRead(ext, field) = Extension2(ext, field)
      BY <1>2, <2>1, <2>2 DEF ExtensionRead
    <3>2. bad # Extension2Marker
      BY <1>2
    <3>3. Extension2(ext, field) =
            IF field \in set THEN Ok(Field(field, PesSize(field))) ELSE FieldNotPresent
      BY <1>2, <2>2, <3>2, Extension2Reads
    <3>4. QED BY <3>1, <3>3
  <2>3. CASE "extension_2" \notin set
    BY <1>2, <2>1, <2>3 DEF ExtensionRead
  <2>4. QED BY <2>2, <2>3
<1>3. CASE field \notin Extension2Fields
  <2>0. field \in ExtensionFlags /\ field \in Names /\ field # "extension_2"
    BY <1>3, NamesAre
  <2>1. CASE field \notin set
    BY <1>1, <1>3, <2>0, <2>1 DEF ExtensionRead
  <2>2. CASE field \in set
    <3>1. Has(ext, field)
      BY <1>1, <2>0, <2>2
    <3>2. CASE field = "private_data"
      <4>1. ExtensionRead(ext, field) = ExtensionField(ext, field, 1)
        BY <1>3, <3>1, <3>2 DEF ExtensionRead
      <4>2. Holds(v, 1, Field(field, PesSize(field))) /\ PesSize(field) = 16
        BY <2>2, <3>2, PesSizes DEF PesExtensionLayout
      <4>3. PesSize(field) \in Nat
        BY <4>2
      <4>4. ExtensionField(ext, field, 1) = Ok(Field(field, PesSize(field)))
        BY <1>0, <2>0, <4>2, <4>3, ExtensionFieldAtReads
      <4>5. QED BY <2>2, <4>1, <4>4
    <3>3. CASE field = "pack_header"
      <4>1. ExtensionRead(ext, field) = PackHeader(ext)
        BY <1>3, <3>1, <3>3 DEF ExtensionRead
      <4>2. PackHeader(ext) = Ok(Field("pack_header", 14))
        BY <2>2, <3>3, PackHeaderReads
      <4>3. QED BY <2>2, <3>3, <4>1, <4>2, PesSizes
    <3>4. CASE field = "sequence_counter"
      <4> DEFINE x == Field(field, 2)
      <4> DEFINE at == PackHeaderEnd(v)
      <4>1. Holds(v, PackHeaderEnd(v), x) /\ PesSize(field) = 2
        BY <2>2, <3>4, PesSizes DEF PesExtensionLayout
      <4>2. ExtensionField(ext, field, PackHeaderEnd(ext)) = Ok(x)
        <5>1. PesSize(field) \in Nat /\ x = Field(field, PesSize(field))
          BY <4>1
        <5> HIDE DEF x
        <5>2. Holds(v, at, Field(field, PesSize(field)))
          BY <4>1, <5>1 DEF at
        <5> HIDE DEF at
        <5>3. ExtensionField(ext, field, at) = Ok(Field(field, PesSize(field)))
          BY <1>0, <2>0, <5>1, <5>2, ExtensionFieldAtReads
        <5>4. QED BY <1>1, <5>1, <5>3 DEF at
      <4>3. Marked(x, {1, 2}) = Ok(x)
        BY <2>0, FewMarks
      <4> HIDE DEF x
      <4>4. ExtensionRead(ext, field) = Ok(x)
        BY <1>3, <3>1, <3>4, <4>2, <4>3, ResultIs DEF ExtensionRead, Then
      <4>5. QED BY <2>2, <4>1, <4>4 DEF x
    <3>5. CASE field = "p_std_buffer"
      <4> DEFINE x == Field(field, 2)
      <4> DEFINE at == SequenceCounterEnd(v)
      <4>1. Holds(v, SequenceCounterEnd(v), x) /\ PesSize(field) = 2
        BY <2>2, <3>5, PesSizes DEF PesExtensionLayout
      <4>2. ExtensionField(ext, field, SequenceCounterEnd(ext)) = Ok(x)
        <5>1. PesSize(field) \in Nat /\ x = Field(field, PesSize(field))
          BY <4>1
        <5> HIDE DEF x
        <5>2. Holds(v, at, Field(field, PesSize(field)))
          BY <4>1, <5>1 DEF at
        <5> HIDE DEF at
        <5>3. ExtensionField(ext, field, at) = Ok(Field(field, PesSize(field)))
          BY <1>0, <2>0, <5>1, <5>2, ExtensionFieldAtReads
        <5>4. QED BY <1>1, <5>1, <5>3 DEF at
      <4>3. Marked(x, {1}) = Ok(x)
        BY <2>0, FewMarks
      <4> HIDE DEF x
      <4>4. ExtensionRead(ext, field) = Ok(x)
        BY <1>3, <3>1, <3>5, <4>2, <4>3, ResultIs DEF ExtensionRead, Then
      <4>5. QED BY <2>2, <4>1, <4>4 DEF x
    <3>6. QED BY <2>0, <3>2, <3>3, <3>4, <3>5 DEF ExtensionFlags
  <2>3. QED BY <2>1, <2>2
<1>4. QED BY <1>2, <1>3

LEMMA ExtensionIsCopied ==
  ASSUME NEW set, NEW w \in Seq(Bytes), NEW pes, NEW bad, Like(pes, w, bad), Checked(pes),
         HeaderLayout(w, set), w[2].flags = set \cap PesFlags,
         ~(Extension2Fields \subseteq set), "pes_extension" \in set
  PROVE  \E v, ext :
           /\ v \in Seq(Bytes) /\ PesExtension(pes) = Ok(ext)
           /\ Copy(ext, v, bad) /\ PesExtensionLayout(v, set)
<1> DEFINE x == WrittenPesExtension(set)
           at == PesCrcEnd(w)
           to == HeaderEnd(w)
           v == SubSeq(w, at + 1, to)
           r == HeaderSlice(pes, at, to)
           ext == r.bytes
<1>1. PesHas(pes, "pes_extension") /\ PesCrcEnd(pes) = at /\ HeaderEnd(pes) = to
  <2>1. "pes_extension" \in w[2].flags
    BY DEF PesFlags
  <2>2. QED BY <2>1, SameHeader DEF Checked, PesHas
<1>2. x \in Seq(Bytes) /\ \A y \in Seq(Bytes) : Holds(y, 0, x) => PesExtensionLayout(y, set)
  BY PesExtensionIsLaidOut
<1>3. Holds(w, at, x) /\ at + Len(x) <= to
  BY DEF HeaderLayout, InHeader
<1>4. /\ to \in Nat /\ at \in Nat /\ Len(x) \in Nat /\ Len(w) \in Nat /\ Len(pes) \in Nat
      /\ to <= Len(w) /\ at <= to
  <2>1. at \in Nat /\ Len(x) \in Nat /\ Len(w) \in Nat /\ Len(pes) \in Nat
    BY <1>2, <1>3, LenProperties DEF Holds, Checked
  <2>2. to \in Nat /\ to <= Len(pes) /\ Len(pes) <= Len(w)
    BY <1>1 DEF Checked, Like
  <2>3. QED BY <1>3, <2>1, <2>2
<1>5. PesExtension(pes) = Then(r, LAMBDA e : IF e = << >> THEN NotEnoughData ELSE Ok(e))
  BY <1>1 DEF PesExtension
<1> HIDE DEF x, at, to
<1>6. v \in Seq(Bytes) /\ Len(v) = to - at /\ Holds(w, at, v)
  BY <1>4, SubSeqHeld
<1> HIDE DEF v
<1>7. Holds(v, 0, x)
  <2>1. 0 + Len(x) <= Len(v) /\ at + 0 = at /\ 0 \in Nat
    BY <1>3, <1>4, <1>6
  <2> DEFINE off == 0
  <2> HIDE DEF off
  <2>2. off \in Nat /\ off + Len(x) <= Len(v) /\ Holds(w, at + off, x)
    BY <1>3, <2>1 DEF off
  <2>3. Holds(v, off, x)
    BY <1>2, <1>6, <2>2, HoldsInPart
  <2>4. QED BY <2>3 DEF off
<1>8. PesExtensionLayout(v, set)
  BY <1>2, <1>6, <1>7
<1>9. at + Len(v) = to /\ InHeader(w, at, v)
  BY <1>4, <1>6 DEF InHeader, to
<1>10. Reads(r, v, bad, TRUE)
  <2>1. Reads(HeaderSlice(pes, at, at + Len(v)), v, bad, TRUE)
    BY <1>6, <1>9, HeaderSliceReads
  <2>2. QED BY <1>9, <2>1
<1> HIDE DEF r
<1>11. r.status = "ok" /\ Copy(ext, v, bad)
  BY <1>10 DEF Reads
<1>12. ext # << >>
  <2>1. Len(ext) >= 1
    BY <1>8, <1>11 DEF Copy, PesExtensionLayout
  <2>2. QED BY <2>1
<1>13. PesExtension(pes) = Ok(ext)
  BY <1>5, <1>11, <1>12 DEF Then
<1>14. QED BY <1>6, <1>8, <1>11, <1>13

(* What was written of a field of parsed contents.                         *)
PesField(set, field) ==
  IF field \in set THEN Ok(Field(field, PesSize(field))) ELSE FieldNotPresent

(* A bad marker in a byte of `bad' is not one in the field.                *)
Spared(field, bad) ==
  bad # field /\ (field \in Extension2Fields => bad # Extension2Marker)

(* What the standard allows to be written of a PES header.                 *)
Allowed(set) ==
  /\ "dts" \in set => "pts" \in set
  /\ set \cap (ExtensionFlags \cup Extension2Fields) # {} => "pes_extension" \in set
  /\ set \cap Extension2Fields # {} => "extension_2" \in set
  /\ ~(Extension2Fields \subseteq set)

LEMMA ParsedReads ==
  ASSUME NEW set, Allowed(set), NEW w \in Seq(Bytes), NEW pes, NEW bad, Like(pes, w, bad),
         Checked(pes), HeaderLayout(w, set), w[2].flags = set \cap PesFlags,
         NEW field \in PesFields, Spared(field, bad)
  PROVE  ParsedRead(pes, field) = PesField(set, field)
<1>0. bad # field /\ field \in Names
  BY NamesAre DEF Spared, PesFields
<1>1. /\ \A f \in PesFlags : PesHas(pes, f) <=> f \in set
      /\ PtsDtsEnd(pes) = PtsDtsEnd(w) /\ EscrEnd(pes) = EscrEnd(w)
      /\ EsRateEnd(pes) = EsRateEnd(w) /\ DsmTrickModeEnd(pes) = DsmTrickModeEnd(w)
      /\ AdditionalCopyInfoEnd(pes) = AdditionalCopyInfoEnd(w)
  BY SameHeader DEF Checked, PesHas
<1>2. ASSUME NEW at, PesSize(field) \in Nat, field \in PesFlags,
             field \in set => InHeader(w, at, Field(field, PesSize(field)))
      PROVE  FieldAt(pes, field, at) = PesField(set, field)
  <2> DEFINE n == PesSize(field)
  <2>1. n \in Nat /\ PesSize(field) = n /\ (field \in set => InHeader(w, at, Field(field, n)))
    BY <1>2
  <2>2. PesHas(pes, field) <=> field \in set
    BY <1>1, <1>2
  <2> HIDE DEF n
  <2>3. FieldAt(pes, field, at) = IF field \in set THEN Ok(Field(field, n)) ELSE FieldNotPresent
    BY <1>0, <2>1, <2>2, FieldAtReads
  <2>4. QED BY <2>3 DEF PesField, n
<1>3. CASE field \in {"pts", "dts"}
  <2>1. ParsedRead(pes, field) = PtsDts(pes, field)
    BY <1>3 DEF ParsedRead
  <2>2. PtsDts(pes, field) = IF field \in set THEN Ok(Field(field, 5)) ELSE FieldNotPresent
    BY <1>0, <1>3, PtsDtsReads DEF Allowed
  <2>3. PesSize(field) = 5
    BY <1>3, PesSizes
  <2>4. QED BY <2>1, <2>2, <2>3 DEF PesField
<1>4. CASE field = "escr"
  <2>1. ParsedRead(pes, field) = FieldAt(pes, field, PtsDtsEnd(w))
    BY <1>1, <1>4 DEF ParsedRead
  <2>2. PesSize(field) \in Nat /\ field \in PesFlags
        /\ (field \in set => InHeader(w, PtsDtsEnd(w), Field(field, PesSize(field))))
    BY <1>4, PesSizes DEF HeaderLayout, PesFlags
  <2>3. QED BY <1>2, <2>1, <2>2
<1>5. CASE field = "es_rate"
  <2>1. ParsedRead(pes, field) = FieldAt(pes, field, EscrEnd(w))
    BY <1>1, <1>5 DEF ParsedRead
  <2>2. PesSize(field) \in Nat /\ field \in PesFlags
        /\ (field \in set => InHeader(w, EscrEnd(w), Field(field, PesSize(field))))
    BY <1>5, PesSizes DEF HeaderLayout, PesFlags
  <2>3. QED BY <1>2, <2>1, <2>2
<1>6. CASE field = "dsm_trick_mode"
  <2>1. ParsedRead(pes, field) = FieldAt(pes, field, EsRateEnd(w))
    BY <1>1, <1>6 DEF ParsedRead
  <2>2. PesSize(field) \in Nat /\ field \in PesFlags
        /\ (field \in set => InHeader(w, EsRateEnd(w), Field(field, PesSize(field))))
    BY <1>6, PesSizes DEF HeaderLayout, PesFlags
  <2>3. QED BY <1>2, <2>1, <2>2
<1>7. CASE field = "additional_copy_info"
  <2> DEFINE r == FieldAt(pes, field, DsmTrickModeEnd(w))
             x == Field(field, 1)
  <2>1. ParsedRead(pes, field) = Then(r, LAMBDA bytes : Marked(bytes, {1}))
    BY <1>1, <1>7 DEF ParsedRead
  <2>2. PesSize(field) \in Nat /\ field \in PesFlags /\ PesSize(field) = 1
        /\ (field \in set => InHeader(w, DsmTrickModeEnd(w), Field(field, PesSize(field))))
    BY <1>7, PesSizes DEF HeaderLayout, PesFlags
  <2>3. r = PesField(set, field)
    BY <1>2, <2>2
  <2>4. Marked(x, {1}) = Ok(x)
    BY <1>0, FewMarks
  <2>5. PesField(set, field) = IF field \in set THEN Ok(x) ELSE FieldNotPresent
    BY <2>2 DEF PesField
  <2> HIDE DEF r, x
  <2>6. ParsedRead(pes, field) = IF field \in set THEN Ok(x) ELSE FieldNotPresent
    BY <2>1, <2>3, <2>4, <2>5, ResultIs DEF Then
  <2>7. QED BY <2>5, <2>6
<1>8. CASE field = "crc"
  <2>1. ParsedRead(pes, field) = FieldAt(pes, field, AdditionalCopyInfoEnd(w))
    BY <1>1, <1>8 DEF ParsedRead
  <2>2. PesSize(field) \in Nat /\ field \in PesFlags
        /\ (field \in set => InHeader(w, AdditionalCopyInfoEnd(w), Field(field, PesSize(field))))
    BY <1>8, PesSizes DEF HeaderLayout, PesFlags
  <2>3. QED BY <1>2, <2>1, <2>2
<1>9. CASE field \in (ExtensionFlags \ {"extension_2"}) \cup Extension2Fields
  <2>1. ParsedRead(pes, field) =
          Then(PesExtension(pes), LAMBDA ext : ExtensionRead(ext, field))
    BY <1>9 DEF ParsedRead, ExtensionFlags, Extension2Fields
  <2>2. CASE "pes_extension" \in set
    <3>1. PICK v, ext :
            /\ v \in Seq(Bytes) /\ PesExtension(pes) = Ok(ext)
            /\ Copy(ext, v, bad) /\ PesExtensionLayout(v, set)
      BY <2>2, ExtensionIsCopied DEF Allowed
    <3>2. /\ ~(Extension2Fields \subseteq set)
          /\ field \in Extension2Fields => bad # Extension2Marker
          /\ field \in Extension2Fields /\ field \in set => "extension_2" \in set
      BY DEF Allowed, Spared
    <3>3. ExtensionRead(ext, field) = PesField(set, field)
      BY <1>0, <1>9, <3>1, <3>2, ExtensionReads DEF PesField
    <3>4. QED BY <2>1, <3>1, <3>3, ResultIs DEF Then
  <2>3. CASE "pes_extension" \notin set
    <3>1. field \notin set
      BY <1>9, <2>3 DEF Allowed
    <3>2. ~PesHas(pes, "pes_extension")
      BY <1>1, <2>3 DEF PesFlags
    <3>3. PesExtension(pes) = FieldNotPresent
      BY <3>2 DEF PesExtension
    <3>4. QED BY <2>1, <3>1, <3>3, ResultIs DEF Then, PesField
  <2>4. QED BY <2>2, <2>3
<1>10. QED
  BY <1>3, <1>4, <1>5, <1>6, <1>7, <1>8, <1>9 DEF PesFields, PesFlags

-------------------------------------------------------------------------------
(* The whole PES header.                                                   *)

CheckBits == "check bits"

PesLayout(w, set, payload) ==
  LET rw == SubSeq(w, 7, Len(w)) IN
  /\ w \in Seq(Bytes) /\ Len(w) \in Nat /\ Len(w) >= 6
  /\ \A n \in 1..3 : w[n].ok = TRUE /\ w[n].of = "start_code"
  /\ w[4].flags = set \cap {"parsed"}
  /\ rw \in Seq(Bytes) /\ Len(rw) = Len(w) - 6
  /\ "parsed" \notin set => Holds(rw, 0, Field("payload", payload)) /\ Len(rw) = payload
  /\ "parsed" \in set =>
       /\ Len(rw) >= 3 /\ rw[1].ok = TRUE /\ rw[1].of = CheckBits
       /\ rw[2].flags = set \cap PesFlags
       /\ HeaderEnd(rw) \in Nat /\ Len(rw) = HeaderEnd(rw) + payload
       /\ HeaderLayout(rw, set)
       /\ Holds(rw, HeaderEnd(rw), Field("payload", payload))

(* The contents in front of the payload.                                   *)
WrittenContents(set, stuffing) ==
  IF "parsed" \in set
  THEN Field("check bits", 1) \o FlagsByte("flags", set \cap PesFlags)
         \o LengthByte("PES_header_data_length", Len(WrittenPesFields(set)) + stuffing)
         \o WrittenPesFields(set) \o Field("stuffing", stuffing)
  ELSE << >>

LEMMA PesIsWritten ==
  ASSUME NEW set, NEW stuffing, NEW payload
  PROVE  WrittenPes(set, stuffing, payload) =
           Field("start_code", 3) \o FlagsByte("stream_id", set \cap {"parsed"})
             \o Field("pes_packet_length", 2) \o WrittenContents(set, stuffing)
             \o Field("payload", payload)
BY DEF WrittenPes, WrittenContents

(* A length byte.                                                          *)
LEMMA LengthPiece ==
  ASSUME NEW field \in Names, NEW n \in Nat
  PROVE  /\ LengthByte(field, n) \in Seq(Bytes) /\ Len(LengthByte(field, n)) = 1
         /\ LengthByte(field, n)[1].len = n
<1>1. /\ LengthByte(field, n) \in Seq(Bytes) /\ Len(LengthByte(field, n)) = 1
      /\ LengthByte(field, n)[1] = NewByte(field, 1, {}, n)
  BY FlagsAreNames, PiecesAre
<1>2. NewByte(field, 1, {}, n).len = n
  BY DEF NewByte
<1>3. QED BY <1>1, <1>2

ContentsLayout(v, set, stuffing) ==
  /\ v \in Seq(Bytes) /\ Len(v) \in Nat
  /\ Len(v) = 3 + (Len(WrittenPesFields(set)) + stuffing)
  /\ v[1].ok = TRUE /\ v[1].of = CheckBits
  /\ v[2].flags = set \cap PesFlags
  /\ v[3].len = Len(WrittenPesFields(set)) + stuffing
  /\ Holds(v, 3, WrittenPesFields(set))

LEMMA ContentsAreLaidOut ==
  ASSUME NEW set, NEW stuffing \in Nat, Allowed(set), "parsed" \in set
  PROVE  ContentsLayout(WrittenContents(set, stuffing), set, stuffing)
<1> DEFINE fields == WrittenPesFields(set)
           total == Len(fields) + stuffing
           a == Field("check bits", 1)
           b == FlagsByte("flags", set \cap PesFlags)
           c == LengthByte("PES_header_data_length", total)
           d == Field("stuffing", stuffing)
           v == WrittenContents(set, stuffing)
<1>0. /\ CheckBits \in Names /\ "flags" \in Names /\ "PES_header_data_length" \in Names
      /\ "stuffing" \in Names
  BY NamesAre DEF CheckBits
<1>1. fields \in Seq(Bytes)
  <2>1. \A w \in Seq(Bytes) : WrittenPesFields(set) \in Seq(Bytes)
    BY HeaderIsLaidOut DEF Allowed
  <2>2. << >> \in Seq(Bytes)
    BY EmptySeq
  <2>3. QED BY <2>1, <2>2
<1>2. Len(fields) \in Nat
  BY <1>1, LenProperties
<1>3. total \in Nat
  BY <1>2
<1>4. v = a \o b \o c \o fields \o d
  BY DEF WrittenContents
<1> HIDE DEF fields, total, v
<1>5. a \in Seq(Bytes) /\ Len(a) = 1
  BY <1>0, FieldPiece DEF CheckBits
<1>6. a[1].ok = TRUE /\ a[1].of = CheckBits
  <2>1. a = Field(CheckBits, 1)
    BY DEF CheckBits
  <2>2. \A n \in 1..1 : Field(CheckBits, 1)[n].ok = TRUE /\ Field(CheckBits, 1)[n].of = CheckBits
    BY DEF Field, Byte, NewByte
  <2>3. 1 \in 1..1
    OBVIOUS
  <2>4. QED BY <2>1, <2>2, <2>3
<1>7. b \in Seq(Bytes) /\ Len(b) = 1 /\ b[1].flags = set \cap PesFlags
  <2>1. set \cap PesFlags \in SUBSET FlagNames
    BY FlagsAreNames
  <2>2. QED BY <1>0, <2>1, FlagsPiece
<1>8. c \in Seq(Bytes) /\ Len(c) = 1 /\ c[1].len = total
  BY <1>0, <1>3, LengthPiece
<1>9. d \in Seq(Bytes) /\ Len(d) = stuffing
  BY <1>0, FieldPiece
<1> HIDE DEF a, b, c, d
<1> DEFINE x == a \o b \o c \o fields \o d
<1>10. /\ x \in Seq(Bytes) /\ Len(x) = Len(a) + Len(b) + Len(c) + Len(fields) + Len(d)
       /\ Holds(x, 0, a) /\ Holds(x, Len(a), b) /\ Holds(x, Len(a) + Len(b), c)
       /\ Holds(x, Len(a) + Len(b) + Len(c), fields)
  <2>1. /\ a \in Seq(Bytes) /\ b \in Seq(Bytes) /\ c \in Seq(Bytes)
        /\ fields \in Seq(Bytes) /\ d \in Seq(Bytes)
    BY <1>1, <1>5, <1>7, <1>8, <1>9
  <2>2. LET z == a \o b \o c \o fields \o d IN
        /\ z \in Seq(Bytes) /\ Len(z) = Len(a) + Len(b) + Len(c) + Len(fields) + Len(d)
        /\ Holds(z, 0, a)
        /\ Holds(z, Len(a), b)
        /\ Holds(z, Len(a) + Len(b), c)
        /\ Holds(z, Len(a) + Len(b) + Len(c), fields)
        /\ Holds(z, Len(a) + Len(b) + Len(c) + Len(fields), d)
    BY <2>1, FiveParts
  <2>3. QED BY <2>2
<1> HIDE DEF x
<1>11. Len(x) = 3 + total /\ Len(x) \in Nat
  <2>1. Len(x) = 1 + 1 + 1 + Len(fields) + stuffing
    BY <1>5, <1>7, <1>8, <1>9, <1>10
  <2> DEFINE n == Len(fields)
  <2>2. n \in Nat /\ Len(x) = 1 + 1 + 1 + n + stuffing
    BY <1>2, <2>1
  <2> HIDE DEF n
  <2>3. Len(x) = 3 + (n + stuffing) /\ Len(x) \in Nat
    BY <2>2
  <2>4. QED BY <2>3 DEF n, total
<1>12. Holds(x, 0, a) /\ Holds(x, 1, b) /\ Holds(x, 2, c) /\ Holds(x, 3, fields)
  <2>1. Len(a) = 1 /\ Len(a) + Len(b) = 2 /\ Len(a) + Len(b) + Len(c) = 3
    BY <1>5, <1>7, <1>8
  <2>2. QED BY <1>10, <2>1
<1>13. x[1] = a[1] /\ x[2] = b[1] /\ x[3] = c[1]
  <2>1. 1 \in 1..Len(a) /\ 1 \in 1..Len(b) /\ 1 \in 1..Len(c)
    BY <1>5, <1>7, <1>8
  <2>2. x[0 + 1] = a[1] /\ x[1 + 1] = b[1] /\ x[2 + 1] = c[1]
    BY <1>12, <2>1 DEF Holds
  <2>3. QED BY <2>2
<1>14. /\ x[1].ok = TRUE /\ x[1].of = CheckBits /\ x[2].flags = set \cap PesFlags
       /\ x[3].len = total
  BY <1>6, <1>7, <1>8, <1>13
<1>15. v = x
  BY <1>4 DEF x
<1>16. QED
  BY <1>10, <1>11, <1>12, <1>14, <1>15 DEF ContentsLayout, v, fields, total

LEMMA PesIsLaidOut ==
  ASSUME NEW set, NEW stuffing \in Nat, NEW payload \in Nat, Allowed(set)
  PROVE  PesLayout(WrittenPes(set, stuffing, payload), set, payload)
<1> DEFINE a == Field("start_code", 3)
           b == FlagsByte("stream_id", set \cap {"parsed"})
           c == Field("pes_packet_length", 2)
           d == WrittenContents(set, stuffing)
           e == Field("payload", payload)
           w == WrittenPes(set, stuffing, payload)
           rw == SubSeq(w, 7, Len(w))
<1>0. /\ "start_code" \in Names /\ "stream_id" \in Names /\ "pes_packet_length" \in Names
      /\ "payload" \in Names
  BY NamesAre
<1>1. a \in Seq(Bytes) /\ Len(a) = 3
  BY <1>0, FieldPiece
<1>2. \A n \in 1..3 : a[n].ok = TRUE /\ a[n].of = "start_code"
  BY DEF Field, Byte, NewByte
<1>3. b \in Seq(Bytes) /\ Len(b) = 1 /\ b[1].flags = set \cap {"parsed"}
  <2>1. set \cap {"parsed"} \in SUBSET FlagNames
    BY FlagsAreNames
  <2>2. QED BY <1>0, <2>1, FlagsPiece
<1>4. c \in Seq(Bytes) /\ Len(c) = 2
  BY <1>0, FieldPiece
<1>5. d \in Seq(Bytes)
  <2>1. CASE "parsed" \in set
    BY <2>1, ContentsAreLaidOut DEF ContentsLayout
  <2>2. CASE "parsed" \notin set
    BY <2>2, EmptySeq DEF WrittenContents
  <2>3. QED BY <2>1, <2>2
<1>6. e \in Seq(Bytes) /\ Len(e) = payload
  BY <1>0, FieldPiece
<1>7. w = a \o b \o c \o d \o e
  BY PesIsWritten
<1> HIDE DEF a, b, c, d, e, w
<1> DEFINE x == a \o b \o c \o d \o e
<1>8. /\ x \in Seq(Bytes) /\ Len(x) = Len(a) + Len(b) + Len(c) + Len(d) + Len(e)
      /\ Holds(x, 0, a) /\ Holds(x, Len(a), b)
      /\ Holds(x, Len(a) + Len(b) + Len(c), d)
      /\ Holds(x, Len(a) + Len(b) + Len(c) + Len(d), e)
  <2>1. /\ a \in Seq(Bytes) /\ b \in Seq(Bytes) /\ c \in Seq(Bytes) /\ d \in Seq(Bytes)
        /\ e \in Seq(Bytes)
    BY <1>1, <1>3, <1>4, <1>5, <1>6
  <2>2. LET z == a \o b \o c \o d \o e IN
        /\ z \in Seq(Bytes) /\ Len(z) = Len(a) + Len(b) + Len(c) + Len(d) + Len(e)
        /\ Holds(z, 0, a)
        /\ Holds(z, Len(a), b)
        /\ Holds(z, Len(a) + Len(b), c)
        /\ Holds(z, Len(a) + Len(b) + Len(c), d)
        /\ Holds(z, Len(a) + Len(b) + Len(c) + Len(d), e)
    BY <2>1, FiveParts
  <2>3. QED BY <2>2
<1> HIDE DEF x
<1>9. w = x /\ Len(d) \in Nat /\ w \in Seq(Bytes)
  BY <1>5, <1>7, <1>8, LenProperties DEF x
<1>10. /\ Len(a) = 3 /\ Len(a) + Len(b) + Len(c) = 6
       /\ Len(a) + Len(b) + Len(c) + Len(d) = 6 + Len(d)
       /\ Len(x) = 6 + Len(d) + payload
  BY <1>1, <1>3, <1>4, <1>6, <1>8
<1>11. /\ Len(w) = 6 + Len(d) + payload /\ Holds(w, 0, a) /\ Holds(w, 3, b)
       /\ Holds(w, 6, d) /\ Holds(w, 6 + Len(d), e)
  BY <1>8, <1>9, <1>10
<1>12. Len(w) \in Nat /\ Len(w) >= 6 /\ 6 <= Len(w)
  BY <1>9, <1>11
<1>13. \A n \in 1..3 : w[n].ok = TRUE /\ w[n].of = "start_code"
  <2>1. ASSUME NEW n \in 1..3 PROVE w[n] = a[n]
    <3>1. n \in 1..Len(a) /\ 0 + n = n
      BY <1>1
    <3>2. w[0 + n] = a[n]
      BY <1>11, <3>1 DEF Holds
    <3>3. QED BY <3>1, <3>2
  <2>2. QED BY <1>2, <2>1
<1>14. w[4].flags = set \cap {"parsed"}
  <2>1. 1 \in 1..Len(b)
    BY <1>3
  <2>2. w[3 + 1] = b[1]
    BY <1>11, <2>1 DEF Holds
  <2>3. QED BY <1>3, <2>2
<1>15. rw \in Seq(Bytes) /\ Len(rw) = Len(w) - 6 /\ Holds(w, 6, rw)
  <2> DEFINE to == Len(w)
             from == 6
  <2>1. to \in Nat /\ 6 <= to /\ to <= Len(w)
    BY <1>12
  <2>2. rw = SubSeq(w, 6 + 1, to)
    OBVIOUS
  <2> HIDE DEF to
  <2>3. from \in Nat /\ from <= to
    BY <2>1
  <2> HIDE DEF from, rw
  <2>4. LET y == SubSeq(w, from + 1, to) IN
        y \in Seq(Bytes) /\ Len(y) = to - from /\ Holds(w, from, y)
    BY <1>9, <2>1, <2>3, SubSeqHeld
  <2>5. QED BY <2>2, <2>4 DEF from, to
<1> HIDE DEF rw
<1>16. Len(rw) = Len(d) + payload /\ Len(rw) \in Nat
  BY <1>9, <1>11, <1>15
<1>17. Holds(rw, 0, d) /\ Holds(rw, Len(d), e)
  <2> DEFINE none == 0
             six == 6
             n == Len(d)
  <2>1. none \in Nat /\ none + Len(d) <= Len(rw) /\ six + none = six
    BY <1>9, <1>16
  <2>2. n \in Nat /\ n + Len(e) <= Len(rw)
    BY <1>6, <1>9, <1>16
  <2>3. Holds(w, six, rw) /\ Holds(w, six, d) /\ Holds(w, six + n, e)
    BY <1>11, <1>15
  <2> HIDE DEF none, six, n
  <2>4. Holds(rw, none, d)
    BY <1>5, <1>9, <1>15, <2>1, <2>3, HoldsInPart
  <2>5. Holds(rw, n, e)
    BY <1>6, <1>9, <1>15, <2>2, <2>3, HoldsInPart
  <2>6. QED BY <2>4, <2>5 DEF none, n
<1>18. CASE "parsed" \notin set
  <2>1. d = << >> /\ Len(d) = 0
    BY <1>18, EmptySeq DEF d, WrittenContents
  <2>2. Holds(rw, 0, e) /\ Len(rw) = payload
    BY <1>16, <1>17, <2>1
  <2>3. QED
    BY <1>9, <1>12, <1>13, <1>14, <1>15, <1>18, <2>2 DEF PesLayout, w, rw, e
<1>19. CASE "parsed" \in set
  <2> DEFINE fields == WrittenPesFields(set)
             total == Len(fields) + stuffing
  <2>1. ContentsLayout(d, set, stuffing)
    BY <1>19, ContentsAreLaidOut DEF d
  <2>2. /\ fields \in Seq(Bytes)
        /\ (/\ Holds(rw, 3, fields) /\ HeaderEnd(rw) \in Nat
            /\ 3 + Len(fields) <= HeaderEnd(rw)
            /\ rw[2].flags = set \cap PesFlags) => HeaderLayout(rw, set)
    BY <1>15, HeaderIsLaidOut DEF Allowed
  <2>3. Len(fields) \in Nat
    BY <2>2, LenProperties
  <2>4. /\ Len(d) = 3 + total /\ d[1].ok = TRUE /\ d[1].of = CheckBits
        /\ d[2].flags = set \cap PesFlags /\ d[3].len = total /\ Holds(d, 3, fields)
    BY <2>1 DEF ContentsLayout
  <2>5. total \in Nat /\ Len(fields) <= total
    BY <2>3
  <2> HIDE DEF fields, total
  <2>6. rw[1] = d[1] /\ rw[2] = d[2] /\ rw[3] = d[3]
    <3>1. 1 \in 1..Len(d) /\ 2 \in 1..Len(d) /\ 3 \in 1..Len(d)
      BY <2>4, <2>5
    <3>2. rw[0 + 1] = d[1] /\ rw[0 + 2] = d[2] /\ rw[0 + 3] = d[3]
      BY <1>17, <3>1 DEF Holds
    <3>3. QED BY <3>2
  <2>7. HeaderEnd(rw) = 3 + total
    BY <2>4, <2>6 DEF HeaderEnd, FIXED_HEADER_SIZE
  <2>8. HeaderEnd(rw) \in Nat /\ 3 + Len(fields) <= HeaderEnd(rw) /\ HeaderEnd(rw) = Len(d)
    BY <2>3, <2>4, <2>5, <2>7
  <2>9. Holds(rw, 3, fields)
    BY <1>5, <1>15, <1>17, <2>2, <2>4, HoldsAtStart
  <2>10. rw[1].ok = TRUE /\ rw[1].of = CheckBits /\ rw[2].flags = set \cap PesFlags
    BY <2>4, <2>6
  <2>11. HeaderLayout(rw, set)
    BY <2>2, <2>8, <2>9, <2>10
  <2>12. Holds(rw, HeaderEnd(rw), e) /\ Len(rw) = HeaderEnd(rw) + payload /\ Len(rw) >= 3
    BY <1>16, <1>17, <2>4, <2>5, <2>8
  <2>13. QED
    BY <1>9, <1>12, <1>13, <1>14, <1>15, <1>19, <2>8, <2>10, <2>11, <2>12
       DEF PesLayout, w, rw, e
<1>20. QED BY <1>18, <1>19

Incomplete == {"NotEnoughData", "HeaderLengthExceedsBuffer"}

LEMMA ContentsRead ==
  ASSUME NEW set, NEW payload \in Nat, NEW w \in Seq(Bytes), NEW s, NEW bad, Like(s, w, bad),
         bad # CheckBits, Len(w) \in Nat, Len(w) >= 3, w[1].ok = TRUE, w[1].of = CheckBits,
         HeaderEnd(w) \in Nat, Len(w) = HeaderEnd(w) + payload, HeaderLayout(w, set)
  PROVE  \/ ParsedContents(s) = Ok(s) /\ Checked(s)
         \/ Len(s) # Len(w) /\ ParsedContents(s).status \in Incomplete
<1>1. s \in Seq(Bytes) /\ Len(s) \in Nat /\ Len(s) <= Len(w)
  BY LenProperties DEF Like
<1>2. CASE Len(s) < 3
  <2>1. ParsedContents(s) = NotEnoughData
    BY <1>2 DEF ParsedContents, FIXED_HEADER_SIZE
  <2>2. Len(s) # Len(w)
    BY <1>1, <1>2
  <2>3. QED BY <2>1, <2>2, ResultIs DEF Incomplete
<1>3. CASE ~(Len(s) < 3)
  <2>0. Len(s) >= 3
    BY <1>1, <1>3
  <2>1. s[1].ok = TRUE
    <3>1. 1 \in 1..Len(s)
      BY <1>1, <2>0
    <3>2. s[1] = w[1]
      BY <3>1 DEF Like
    <3>3. QED BY <3>2
  <2>2. HeaderEnd(s) = HeaderEnd(w) /\ PesCrcEnd(s) = PesCrcEnd(w)
    BY <2>0, SameHeader
  <2>3. PesCrcEnd(w) <= HeaderEnd(w)
    BY DEF HeaderLayout
  <2>4. CASE HeaderEnd(s) > Len(s)
    <3>1. ParsedContents(s) = Err("HeaderLengthExceedsBuffer")
      BY <1>3, <2>1, <2>4 DEF ParsedContents, FIXED_HEADER_SIZE
    <3>2. Len(s) # Len(w)
      BY <1>1, <2>2, <2>4
    <3>3. QED BY <3>1, <3>2, ResultIs DEF Incomplete
  <2>5. CASE ~(HeaderEnd(s) > Len(s))
    <3>1. PesCrcEnd(s) <= HeaderEnd(s) /\ HeaderEnd(s) \in Nat /\ HeaderEnd(s) <= Len(s)
      BY <1>1, <2>2, <2>3, <2>5
    <3>2. Checked(s)
      BY <1>1, <2>0, <3>1 DEF Checked
    <3>3. PesCrcEnd(s) \in Int
      BY <1>1, <2>0, HeaderOffsets
    <3>4. ~(PesCrcEnd(s) > HeaderEnd(s))
      BY <3>1, <3>3
    <3>5. ParsedContents(s) = Ok(s)
      BY <1>3, <2>1, <2>5, <3>4 DEF ParsedContents, FIXED_HEADER_SIZE
    <3>6. QED BY <3>2, <3>5
  <2>6. QED BY <2>4, <2>5
<1>4. QED BY <1>2, <1>3

(* The six bytes in front of the contents.                                 *)
LEMMA PesStart ==
  ASSUME NEW set, NEW payload, NEW w, PesLayout(w, set, payload), NEW s, NEW bad,
         Like(s, w, bad), bad # "start_code"
  PROVE  LET rest == SubSeq(s, 7, Len(s))
             rw == SubSeq(w, 7, Len(w)) IN
         \/ Len(s) # Len(w) /\ PesHeaderFromBytes(s) = NotEnoughData
         \/ /\ PesHeaderFromBytes(s) = Ok(s) /\ Index(s, 6, Len(s)) = Ok(rest)
            /\ IsParsed(s) <=> "parsed" \in set
            /\ Like(rest, rw, bad) /\ Len(s) >= 6
            /\ Len(rest) = Len(rw) <=> Len(s) = Len(w)
<1> DEFINE rest == SubSeq(s, 7, Len(s))
           rw == SubSeq(w, 7, Len(w))
<1>1. /\ w \in Seq(Bytes) /\ s \in Seq(Bytes) /\ Len(w) \in Nat /\ Len(s) \in Nat
      /\ Len(w) >= 6 /\ Len(s) <= Len(w) /\ rw \in Seq(Bytes) /\ Len(rw) = Len(w) - 6
  BY LenProperties DEF PesLayout, Like
<1>2. CASE Len(s) < 6
  <2>1. PesHeaderFromBytes(s) = NotEnoughData
    BY <1>2 DEF PesHeaderFromBytes
  <2>2. Len(s) # Len(w)
    BY <1>1, <1>2
  <2>3. QED BY <2>1, <2>2
<1>3. CASE ~(Len(s) < 6)
  <2>1. \A n \in 1..3 : s[n].ok = TRUE
    <3>1. SUFFICES ASSUME NEW n \in 1..3 PROVE s[n].ok = TRUE
      OBVIOUS
    <3>2. w[n].ok = TRUE /\ w[n].of = "start_code"
      BY DEF PesLayout
    <3>3. n \in 1..Len(s)
      BY <1>1, <1>3
    <3>4. s[n] = w[n]
      BY <3>2, <3>3 DEF Like
    <3>5. QED BY <3>2, <3>4
  <2>2. PesHeaderFromBytes(s) = Ok(s)
    BY <1>3, <2>1 DEF PesHeaderFromBytes
  <2>3. IsParsed(s) <=> "parsed" \in set
    <3>1. 4 \in 1..Len(s)
      BY <1>1, <1>3
    <3>2. s[4].flags = w[4].flags
      BY <3>1 DEF Like
    <3>3. w[4].flags = set \cap {"parsed"}
      BY DEF PesLayout
    <3>4. QED BY <3>2, <3>3 DEF IsParsed
  <2>4. 6 <= Len(s)
    BY <1>1, <1>3
  <2> DEFINE from == 6
             to == Len(s)
  <2>5. from \in Nat /\ to \in Nat /\ from <= to /\ to <= Len(s) /\ Len(s) >= 6
    BY <1>1, <2>4
  <2>6. rest = SubSeq(s, from + 1, to)
    OBVIOUS
  <2>7. /\ rw \in Seq(Bytes) /\ Len(rw) = Len(w) - from
        /\ \A i \in 1..(Len(w) - from) : rw[i] = w[from + i]
    <3> DEFINE end == Len(w)
    <3>1. end \in Nat /\ from \in Nat /\ from <= end /\ end <= Len(w)
      BY <1>1
    <3>2. rw = SubSeq(w, from + 1, end)
      OBVIOUS
    <3> HIDE DEF from, end, rw
    <3>3. /\ SubSeq(w, from + 1, end) \in Seq(Bytes)
          /\ Len(SubSeq(w, from + 1, end)) = end - from
          /\ \A i \in 1..(end - from) : SubSeq(w, from + 1, end)[i] = w[from + i]
      BY <1>1, <3>1, SubSeqIs
    <3>4. QED BY <3>2, <3>3 DEF end
  <2>8. Index(s, from, to) = Ok(rest) /\ rest \in Seq(Bytes) /\ Len(rest) = to - from
        /\ \A i \in 1..(to - from) : rest[i] = s[from + i]
    <3> HIDE DEF from, to, rest
    <3>1. Index(s, from, to) = Ok(SubSeq(s, from + 1, to))
      BY <1>1, <2>5, IndexIs
    <3>2. /\ SubSeq(s, from + 1, to) \in Seq(Bytes)
          /\ Len(SubSeq(s, from + 1, to)) = to - from
          /\ \A i \in 1..(to - from) : SubSeq(s, from + 1, to)[i] = s[from + i]
      BY <1>1, <2>5, SubSeqIs
    <3>3. QED BY <2>6, <3>1, <3>2
  <2> HIDE DEF rest, rw
  <2>9. Len(rest) <= Len(rw) /\ (Len(rest) = Len(rw) <=> Len(s) = Len(w))
    BY <1>1, <2>5, <2>7, <2>8
  <2>10. ASSUME NEW i \in 1..Len(rest)
         PROVE  /\ rest[i].flags = rw[i].flags /\ rest[i].len = rw[i].len
                /\ rw[i].of # bad => rest[i] = rw[i]
    <3>1. /\ i \in 1..(to - from) /\ i \in 1..(Len(w) - from)
          /\ from + i \in 1..Len(s)
      BY <1>1, <2>5, <2>8, <2>10
    <3> HIDE DEF from, to
    <3>2. rest[i] = s[from + i] /\ rw[i] = w[from + i]
      BY <2>7, <2>8, <3>1
    <3>3. QED BY <3>1, <3>2 DEF Like
  <2>11. Like(rest, rw, bad)
    BY <2>8, <2>9, <2>10 DEF Like
  <2>12. Index(s, 6, Len(s)) = Ok(rest)
    BY <2>8
  <2>13. QED BY <2>2, <2>3, <2>5, <2>9, <2>11, <2>12 DEF rest, rw
<1>4. QED BY <1>2, <1>3

LEMMA PesReads ==
  ASSUME NEW set, Allowed(set), "parsed" \in set \/ set = {}, NEW payload \in Nat,
         NEW w, PesLayout(w, set, payload), NEW s, NEW bad, Like(s, w, bad),
         bad # "start_code", bad # CheckBits, NEW field \in PesFields
  PROVE  /\ Spared(field, bad) =>
              \/ PesRead(s, field) = PesField(set, field)
              \/ Len(s) # Len(w) /\ PesRead(s, field).status \in Incomplete
         /\ bad # "payload" /\ Len(s) = Len(w)
              => PesPayload(s) = Ok(Field("payload", payload))
<1> DEFINE rest == SubSeq(s, 7, Len(s))
           rw == SubSeq(w, 7, Len(w))
           x == Field("payload", payload)
           parsed == ParsedContents(rest)
<1>0. x \in Seq(Bytes) /\ Len(x) = payload /\ "payload" \in Names
  BY NamesAre, FieldPiece
<1>1. CASE Len(s) # Len(w) /\ PesHeaderFromBytes(s) = NotEnoughData
  <2>1. PesRead(s, field) = NotEnoughData
    BY <1>1, ResultIs DEF PesRead, WithContents, Then
  <2>2. QED BY <1>1, <2>1, ResultIs DEF Incomplete
<1>2. CASE /\ PesHeaderFromBytes(s) = Ok(s) /\ Index(s, 6, Len(s)) = Ok(rest)
           /\ IsParsed(s) <=> "parsed" \in set
           /\ Like(rest, rw, bad) /\ Len(s) >= 6
           /\ Len(rest) = Len(rw) <=> Len(s) = Len(w)
  <2>1. /\ PesRead(s, field) = IF "parsed" \in set
                               THEN IF parsed.status = "ok" THEN ParsedRead(parsed.bytes, field)
                                                            ELSE parsed
                               ELSE FieldNotPresent
        /\ PesPayload(s) = IF "parsed" \in set
                           THEN IF parsed.status = "ok" THEN Payload(parsed.bytes) ELSE parsed
                           ELSE Ok(rest)
    BY <1>2, ResultIs DEF PesRead, PesPayload, WithContents, Then
  <2>2. rw \in Seq(Bytes) /\ rest \in Seq(Bytes) /\ Len(rest) \in Nat
    BY <1>2, LenProperties DEF PesLayout, Like
  <2>3. Like(rest, rw, bad) /\ (Len(rest) = Len(rw) <=> Len(s) = Len(w))
    BY <1>2
  <2>4. CASE "parsed" \notin set
    <3>1. Holds(rw, 0, x) /\ Len(rw) = payload
      BY <2>4 DEF PesLayout
    <3>2. field \notin set
      BY <2>4
    <3>3. PesRead(s, field) = PesField(set, field)
      BY <2>1, <2>4, <3>2 DEF PesField
    <3>4. ASSUME bad # "payload", Len(s) = Len(w) PROVE PesPayload(s) = Ok(x)
      <4> HIDE DEF rest, rw, x
      <4>1. \A i \in 1..payload : rw[i] = x[i]
        <5>1. \A i \in 1..Len(x) : rw[0 + i] = x[i]
          BY <3>1 DEF Holds
        <5>2. \A i \in 1..payload : 0 + i = i
          OBVIOUS
        <5>3. QED BY <1>0, <5>1, <5>2
      <4>2. Len(rest) = payload
        BY <2>3, <3>1, <3>4
      <4>3. Copy(rest, x, bad)
        <5>1. \A i \in 1..Len(rest) : /\ rest[i].flags = x[i].flags /\ rest[i].len = x[i].len
                                      /\ x[i].of # bad => rest[i] = x[i]
          BY <2>3, <4>1, <4>2 DEF Like
        <5>2. Len(rest) = Len(x) /\ Len(rest) <= Len(x)
          BY <1>0, <4>2
        <5>3. QED BY <2>2, <5>1, <5>2 DEF Like, Copy
      <4>4. rest = x
        BY <1>0, <3>4, <4>3, FieldCopy DEF x
      <4>5. QED BY <2>1, <2>4, <4>4
    <3>5. QED BY <3>3, <3>4
  <2>5. CASE "parsed" \in set
    <3>1. /\ Len(rw) \in Nat /\ Len(rw) >= 3 /\ rw[1].ok = TRUE /\ rw[1].of = CheckBits
          /\ rw[2].flags = set \cap PesFlags
          /\ HeaderEnd(rw) \in Nat /\ Len(rw) = HeaderEnd(rw) + payload
          /\ HeaderLayout(rw, set)
          /\ Holds(rw, HeaderEnd(rw), x)
      BY <2>2, <2>5, LenProperties DEF PesLayout
    <3> HIDE DEF rest, rw, x
    <3>2. \/ parsed = Ok(rest) /\ Checked(rest)
          \/ Len(rest) # Len(rw) /\ parsed.status \in Incomplete
      BY <2>2, <2>3, <3>1, ContentsRead
    <3> HIDE DEF parsed
    <3>3. CASE Len(rest) # Len(rw) /\ parsed.status \in Incomplete
      <4>1. parsed.status # "ok"
        BY <3>3 DEF Incomplete
      <4>2. PesRead(s, field) = parsed
        BY <2>1, <2>5, <4>1
      <4>3. QED BY <2>3, <3>3, <4>2
    <3>4. CASE parsed = Ok(rest) /\ Checked(rest)
      <4>1. parsed.status = "ok" /\ parsed.bytes = rest
        BY <3>4, ResultIs
      <4>2. Spared(field, bad) => PesRead(s, field) = PesField(set, field)
        <5>1. PesRead(s, field) = ParsedRead(rest, field)
          BY <2>1, <2>5, <4>1
        <5>2. Spared(field, bad) => ParsedRead(rest, field) = PesField(set, field)
          BY <2>2, <2>3, <3>1, <3>4, ParsedReads
        <5>3. QED BY <5>1, <5>2
      <4>3. ASSUME bad # "payload", Len(s) = Len(w) PROVE PesPayload(s) = Ok(x)
        <5> DEFINE at == HeaderEnd(rw)
                   to == Len(rest)
                   y == SubSeq(rest, at + 1, to)
        <5>1. HeaderEnd(rest) = at
          BY <2>2, <2>3, <3>4, SameHeader DEF Checked
        <5>2. at \in Nat /\ to \in Nat /\ at + Len(x) = to /\ at <= to
          BY <1>0, <2>2, <2>3, <3>1, <4>3
        <5>3. PesPayload(s) = Index(rest, at, to)
          BY <2>1, <2>5, <4>1, <5>1 DEF Payload
        <5>4. Holds(rw, at, x) /\ to = Len(rest)
          BY <3>1
        <5> HIDE DEF at, to
        <5>5. Copy(SubSeq(rest, at + 1, at + Len(x)), x, bad)
          <6>1. at + Len(x) <= Len(rest)
            BY <5>2, <5>4
          <6>2. QED BY <1>0, <2>2, <2>3, <5>4, <6>1, PartIsCopy
        <5>6. Copy(y, x, bad)
          BY <5>2, <5>5
        <5>7. Index(rest, at, to) = Ok(y)
          BY <2>2, <5>2, <5>4, IndexIs
        <5> HIDE DEF y
        <5>8. y = x
          BY <1>0, <4>3, <5>6, FieldCopy DEF x
        <5>9. QED BY <5>3, <5>7, <5>8
      <4>4. QED BY <4>2, <4>3 DEF x
    <3>5. QED BY <3>2, <3>3, <3>4
  <2>6. QED BY <2>4, <2>5
<1>3. QED BY <1>1, <1>2, PesStart

-------------------------------------------------------------------------------
(* The written buffer, and what became of it.                              *)

OriginalAF(w) ==
  /\ syntax = "adaptation" /\ written.private \in Nat
  /\ AFLayout(w, written.set, written.private)
  /\ written.set \cap AFEFlags # {} => "extension" \in written.set

OriginalPes(w) ==
  /\ syntax = "pes" /\ written.payload \in Nat
  /\ PesLayout(w, written.set, written.payload)
  /\ Allowed(written.set) /\ ("parsed" \in written.set \/ written.set = {})

Original(w) == OriginalAF(w) \/ OriginalPes(w)

Damaged(w) ==
  \/ damage = Undamaged /\ buf = w
  \/ damage.kind = "cut" /\ \E n \in 1..Len(w) - 1 : buf = SubSeq(w, 1, n)
  \/ /\ damage.kind = "marker"
     /\ \E n \in 1..Len(w) : damage.field = w[n].of /\ buf = [w EXCEPT ![n].ok = FALSE]
  \/ damage.kind \in {"length", "flag"}

(* The inductive invariant: the buffer is one of bytes, and it is the one  *)
(* that was written but for the one thing that went wrong.                 *)
FieldsInv ==
  /\ buf \in Seq(Bytes)
  /\ \E w \in Seq(Bytes) : Original(w) /\ Damaged(w)

LEMMA ExceptByte ==
  ASSUME NEW s \in Seq(Bytes), NEW n \in 1..Len(s), NEW b \in Bytes
  PROVE  LET t == [s EXCEPT ![n] = b] IN
         /\ t \in Seq(Bytes) /\ Len(t) = Len(s) /\ t[n] = b
         /\ \A i \in 1..Len(s) : i # n => t[i] = s[i]
BY ExceptSeq

LEMMA FieldsInitInv == FieldsInit => FieldsInv
<1> SUFFICES ASSUME FieldsInit PROVE FieldsInv
  OBVIOUS
<1>1. damage = Undamaged
  BY DEF FieldsInit
<1>2. CASE WriteAdaptation
  <2>1. PICK set \in AFWritings, private \in PrivateLengths, padding \in Paddings :
          /\ syntax = "adaptation"
          /\ written = [set |-> set, private |-> private, payload |-> 0]
          /\ buf = WrittenAF(set, private, padding)
    BY <1>2 DEF WriteAdaptation
  <2>2. private \in Nat /\ padding \in Nat /\ (set \cap AFEFlags # {} => "extension" \in set)
    BY FieldsAssumption
  <2>3. written.set = set /\ written.private = private /\ syntax = "adaptation"
    BY <2>1
  <2> DEFINE w == WrittenAF(set, private, padding)
  <2>4. AFLayout(w, set, private) /\ buf = w
    BY <2>1, <2>2, AFIsLaidOut
  <2> HIDE DEF w
  <2>5. w \in Seq(Bytes)
    BY <2>4 DEF AFLayout
  <2>6. OriginalAF(w)
    BY <2>2, <2>3, <2>4 DEF OriginalAF
  <2>7. QED BY <1>1, <2>4, <2>5, <2>6 DEF FieldsInv, Original, Damaged
<1>3. CASE WritePes
  <2>1. PICK set \in PesWritings, padding \in Paddings :
          /\ syntax = "pes"
          /\ written = [set |-> set, private |-> 0, payload |-> padding]
          /\ buf = WrittenPes(set, padding, padding)
    BY <1>3 DEF WritePes
  <2>2. padding \in Nat /\ Allowed(set) /\ ("parsed" \in set \/ set = {})
    BY FieldsAssumption DEF Allowed
  <2>3. written.set = set /\ written.payload = padding /\ syntax = "pes"
    BY <2>1
  <2> DEFINE w == WrittenPes(set, padding, padding)
  <2>4. PesLayout(w, set, padding) /\ buf = w
    BY <2>1, <2>2, PesIsLaidOut
  <2> HIDE DEF w
  <2>5. w \in Seq(Bytes)
    BY <2>4 DEF PesLayout
  <2>6. OriginalPes(w)
    BY <2>2, <2>3, <2>4 DEF OriginalPes
  <2>7. QED BY <1>1, <2>4, <2>5, <2>6 DEF FieldsInv, Original, Damaged
<1>4. QED BY <1>2, <1>3 DEF FieldsInit

LEMMA FieldsStepInv == FieldsInv /\ [FieldsNext]_fieldVars => FieldsInv'
<1> SUFFICES ASSUME FieldsInv, [FieldsNext]_fieldVars PROVE FieldsInv'
  OBVIOUS
<1>1. CASE UNCHANGED fieldVars
  BY <1>1 DEF FieldsInv, fieldVars, Original, OriginalAF, OriginalPes, Damaged
<1>2. ASSUME NEW kind, NEW n, Damage(kind, n), buf' \in Seq(Bytes),
             \/ kind = "cut" /\ n \in 1..Len(buf) - 1 /\ buf' = SubSeq(buf, 1, n)
             \/ kind = "marker" /\ n \in 1..Len(buf) /\ buf' = [buf EXCEPT ![n].ok = FALSE]
             \/ kind \in {"length", "flag"}
      PROVE  FieldsInv'
  <2>1. damage = Undamaged /\ damage'.kind = kind /\ damage'.field = buf[n].of
        /\ syntax' = syntax /\ written' = written
    BY <1>2 DEF Damage
  <2>2. damage.kind = "none"
    BY <2>1 DEF Undamaged
  <2>3. PICK w \in Seq(Bytes) : Original(w) /\ Damaged(w)
    BY DEF FieldsInv
  <2>4. buf = w
    BY <2>2, <2>3 DEF Damaged
  <2>5. Original(w)'
    BY <2>1, <2>3 DEF Original, OriginalAF, OriginalPes
  <2>6. Damaged(w)'
    BY <1>2, <2>1, <2>4 DEF Damaged
  <2>7. QED BY <1>2, <2>3, <2>5, <2>6 DEF FieldsInv
<1>0. buf \in Seq(Bytes) /\ Len(buf) \in Nat
  BY LenProperties DEF FieldsInv
<1>3. CASE Cut
  <2>1. PICK n \in 1..Len(buf) - 1 : Damage("cut", n) /\ buf' = SubSeq(buf, 1, n)
    BY <1>3 DEF Cut
  <2>2. buf' \in Seq(Bytes)
    <3> DEFINE from == 0
    <3>1. from \in Nat /\ n \in Nat /\ from <= n /\ n <= Len(buf) /\ from + 1 = 1
      BY <1>0
    <3> HIDE DEF from
    <3>2. SubSeq(buf, from + 1, n) \in Seq(Bytes)
      BY <1>0, <3>1, SubSeqIs
    <3>3. QED BY <2>1, <3>1, <3>2
  <2>3. QED BY <1>2, <2>1, <2>2
<1>4. CASE SpoilMarker
  <2>1. PICK n \in 1..Len(buf) : Damage("marker", n) /\ buf' = [buf EXCEPT ![n].ok = FALSE]
    BY <1>4 DEF SpoilMarker
  <2>2. buf' \in Seq(Bytes)
    <3> DEFINE b == [buf[n] EXCEPT !.ok = FALSE]
    <3>1. buf[n] \in Bytes
      BY <1>0, ElementOfSeq
    <3>2. b \in Bytes
      BY <3>1 DEF Bytes
    <3>3. buf' = [buf EXCEPT ![n] = b]
      BY <2>1
    <3> HIDE DEF b
    <3>4. QED BY <1>0, <3>2, <3>3, ExceptByte
  <2>3. QED BY <1>2, <2>1, <2>2
<1>5. CASE SpoilLength
  <2>1. PICK n \in 1..Len(buf), len \in Lengths :
          Damage("length", n) /\ buf' = [buf EXCEPT ![n].len = len]
    BY <1>5 DEF SpoilLength
  <2>2. buf' \in Seq(Bytes)
    <3> DEFINE b == [buf[n] EXCEPT !.len = len]
    <3>1. buf[n] \in Bytes /\ len \in Nat
      BY <1>0, ElementOfSeq, FieldsAssumption
    <3>2. b \in Bytes
      BY <3>1 DEF Bytes
    <3>3. buf' = [buf EXCEPT ![n] = b]
      BY <2>1
    <3> HIDE DEF b
    <3>4. QED BY <1>0, <3>2, <3>3, ExceptByte
  <2>3. QED BY <1>2, <2>1, <2>2
<1>6. CASE SpoilFlag
  <2>1. PICK n \in 1..Len(buf), flag \in AFFlags \cup AFEFlags \cup PesFlags
                                           \cup ExtensionFlags \cup Extension2Flags :
          /\ Damage("flag", n)
          /\ buf' = [buf EXCEPT ![n].flags = (@ \ {flag}) \cup ({flag} \ @)]
    BY <1>6 DEF SpoilFlag
  <2>2. buf' \in Seq(Bytes)
    <3> DEFINE now == (buf[n].flags \ {flag}) \cup ({flag} \ buf[n].flags)
               b == [buf[n] EXCEPT !.flags = now]
    <3>1. buf[n] \in Bytes
      BY <1>0, ElementOfSeq
    <3>2. now \in SUBSET FlagNames
      <4>1. buf[n].flags \in SUBSET FlagNames
        BY <3>1 DEF Bytes
      <4>2. flag \in FlagNames
        BY DEF FlagNames
      <4>3. QED BY <4>1, <4>2
    <3> HIDE DEF now
    <3>3. b \in Bytes
      BY <3>1, <3>2 DEF Bytes
    <3>4. buf' = [buf EXCEPT ![n] = b]
      BY <2>1 DEF now
    <3> HIDE DEF b
    <3>5. QED BY <1>0, <3>3, <3>4, ExceptByte
  <2>3. QED BY <1>2, <2>1, <2>2
<1>7. QED BY <1>1, <1>3, <1>4, <1>5, <1>6 DEF FieldsNext

LEMMA FieldsInvHolds == FieldsSpec => []FieldsInv
BY FieldsInitInv, FieldsStepInv, PTL DEF FieldsSpec

(* No accessor of AdaptationField, of PesParsedContents or of their        *)
(* extensions indexes outside of its buffer, wherever the buffer is cut    *)
(* and whatever a damaged length or flag says: what the constructors and   *)
(* the checks before each slice have found is enough.                      *)
THEOREM AccessorsNeverPanic == FieldsSpec => []NeverPanics
<1>1. FieldsInv => NeverPanics
  <2> SUFFICES ASSUME FieldsInv, NEW field \in Fields PROVE Read(field).status # "panic"
    BY DEF NeverPanics
  <2>1. buf \in Seq(Bytes) /\ syntax \in {"adaptation", "pes"}
    BY DEF FieldsInv, Original, OriginalAF, OriginalPes
  <2>2. CASE syntax = "adaptation"
    <3>1. field \in AFFields /\ Read(field) = AFRead(buf, field)
      BY <2>2 DEF Fields, Read, ReadFrom
    <3>2. QED BY <2>1, <3>1, AFReadSafe DEF Safe
  <2>3. CASE syntax = "pes"
    <3>1. \A f \in PesFields : Safe(PesRead(buf, f)) /\ Safe(PesPayload(buf))
      BY <2>1, PesReadSafe
    <3>2. "pts" \in PesFields
      BY DEF PesFields, PesFlags
    <3>3. CASE field = "payload"
      <4>1. Read(field) = PesPayload(buf)
        BY <2>3, <3>3 DEF Read, ReadFrom
      <4>2. QED BY <3>1, <3>2, <4>1 DEF Safe
    <3>4. CASE field # "payload"
      <4>1. Read(field) = PesRead(buf, field) /\ field \in PesFields
        BY <2>3, <3>4 DEF Read, ReadFrom, Fields
      <4>2. QED BY <3>1, <4>1 DEF Safe
    <3>5. QED BY <3>3, <3>4
  <2>4. QED BY <2>1, <2>2, <2>3
<1>2. QED BY <1>1, FieldsInvHolds, PTL

(* The bytes of a buffer whose lengths and flags are not damaged are those *)
(* that were written, but for markers in those of one field.               *)
NoField == "none"
Bad == IF damage.kind = "marker" THEN damage.field ELSE NoField

LEMMA BufferIsLike ==
  ASSUME NEW w \in Seq(Bytes), Damaged(w), damage = Undamaged \/ damage.kind \in {"cut", "marker"}
  PROVE  /\ Like(buf, w, Bad) /\ (damage.kind # "cut" => Len(buf) = Len(w))
         /\ Len(w) >= 1 => Len(buf) >= 1
<1>0. Len(w) \in Nat /\ (damage = Undamaged => damage.kind = "none")
  <2>1. Len(w) \in Nat
    BY LenProperties
  <2>2. ASSUME damage = Undamaged PROVE damage.kind = "none"
    BY <2>2 DEF Undamaged
  <2>3. QED BY <2>1, <2>2
<1>1. CASE damage = Undamaged
  <2>1. damage.kind = "none"
    BY <1>1 DEF Undamaged
  <2>2. buf = w
    BY <2>1 DEF Damaged
  <2>3. Like(buf, w, Bad)
    BY <1>0, <2>2 DEF Like
  <2>4. QED BY <2>2, <2>3
<1>2. CASE damage.kind = "cut"
  <2>1. PICK n \in 1..Len(w) - 1 : buf = SubSeq(w, 1, n)
    BY <1>0, <1>2 DEF Damaged
  <2>2. /\ buf \in Seq(Bytes) /\ Len(buf) = n /\ n <= Len(w) /\ n >= 1
        /\ \A i \in 1..n : buf[i] = w[i]
    <3> DEFINE from == 0
    <3>1. /\ from \in Nat /\ n \in Nat /\ from <= n /\ n <= Len(w) /\ from + 1 = 1 /\ n - from = n
          /\ \A i \in 1..n : from + i = i
      BY <1>0
    <3> HIDE DEF from
    <3>2. /\ SubSeq(w, from + 1, n) \in Seq(Bytes) /\ Len(SubSeq(w, from + 1, n)) = n - from
          /\ \A i \in 1..(n - from) : SubSeq(w, from + 1, n)[i] = w[from + i]
      BY <3>1, SubSeqIs
    <3>3. buf = SubSeq(w, from + 1, n) /\ n >= 1
      BY <2>1, <3>1
    <3>4. QED BY <3>1, <3>2, <3>3
  <2>3. Like(buf, w, Bad)
    BY <2>2 DEF Like
  <2>4. QED BY <1>2, <2>2, <2>3
<1>3. CASE damage.kind = "marker"
  <2>1. PICK n \in 1..Len(w) : damage.field = w[n].of /\ buf = [w EXCEPT ![n].ok = FALSE]
    BY <1>0, <1>3 DEF Damaged
  <2> DEFINE b == [w[n] EXCEPT !.ok = FALSE]
  <2>2. w[n] \in Bytes
    BY ElementOfSeq
  <2>3. b \in Bytes /\ b.flags = w[n].flags /\ b.len = w[n].len
    BY <2>2 DEF Bytes
  <2>4. buf = [w EXCEPT ![n] = b]
    BY <2>1
  <2> HIDE DEF b
  <2>5. /\ buf \in Seq(Bytes) /\ Len(buf) = Len(w) /\ buf[n] = b
        /\ \A i \in 1..Len(w) : i # n => buf[i] = w[i]
    BY <2>3, <2>4, ExceptByte
  <2>6. Bad = w[n].of
    BY <1>3, <2>1 DEF Bad
  <2>7. Like(buf, w, Bad)
    BY <1>0, <2>3, <2>5, <2>6 DEF Like
  <2>8. QED BY <2>5, <2>7
<1>4. QED BY <1>1, <1>2, <1>3

(* What is read of a field that no damaged marker is in.                   *)
Faithful(field) ==
  \/ Read(field) = Written(field)
  \/ damage.kind = "cut" /\ field # "payload" /\ Read(field).status \in Incomplete
  \/ damage.kind = "cut" /\ field = "payload"

LEMMA ReadsFaithfully ==
  ASSUME FieldsInv, damage = Undamaged \/ damage.kind \in {"cut", "marker"},
         NEW field \in Fields, damage.kind = "marker" => field \notin Marks(damage.field)
  PROVE  Faithful(field)
<1>1. PICK w \in Seq(Bytes) : Original(w) /\ Damaged(w)
  BY DEF FieldsInv
<1>2. /\ Like(buf, w, Bad) /\ (damage.kind # "cut" => Len(buf) = Len(w))
      /\ Len(w) >= 1 => Len(buf) >= 1
  BY <1>1, BufferIsLike
<1>3. CASE OriginalAF(w)
  <2>1. syntax = "adaptation" /\ field \in AFFields /\ field # "payload"
    BY <1>3 DEF OriginalAF, Fields, AFFields, AFFlags, AFEFlags
  <2>2. Bad # field
    <3>1. CASE damage.kind = "marker"
      <4>1. field \notin Marks(damage.field) /\ Bad = damage.field
        BY <3>1 DEF Bad
      <4>2. field \notin Marks(Bad) => Bad # field
        <5>1. field \notin {"check bits", "start_code", "extension 2 marker"}
          BY <2>1 DEF AFFields, AFFlags, AFEFlags
        <5>2. Bad = field => field \in Marks(Bad)
          BY <5>1 DEF Marks
        <5>3. QED BY <5>2
      <4>3. QED BY <4>1, <4>2
    <3>2. CASE damage.kind # "marker"
      BY <2>1, <3>2 DEF Bad, NoField, AFFields, AFFlags, AFEFlags
    <3>3. QED BY <3>1, <3>2
  <2>3. Len(w) >= 1 /\ written.private \in Nat /\ AFLayout(w, written.set, written.private)
        /\ (written.set \cap AFEFlags # {} => "extension" \in written.set)
    BY <1>3 DEF OriginalAF, AFLayout
  <2>4. \/ field \notin written.set /\ AFRead(buf, field) = FieldNotPresent
        \/ field \in written.set
           /\ AFRead(buf, field) = Ok(Field(field, AFSize(field, written.private)))
        \/ Len(buf) # Len(w) /\ AFRead(buf, field) = NotEnoughData
    <3> DEFINE set == written.set
               private == written.private
               bad == Bad
    <3>1. /\ Len(buf) >= 1 /\ private \in Nat /\ AFLayout(w, set, private)
          /\ (set \cap AFEFlags # {} => "extension" \in set)
          /\ Like(buf, w, bad) /\ bad # field
      BY <1>2, <2>2, <2>3
    <3> HIDE DEF set, private, bad
    <3>2. \/ field \notin set /\ AFRead(buf, field) = FieldNotPresent
          \/ field \in set /\ AFRead(buf, field) = Ok(Field(field, AFSize(field, private)))
          \/ Len(buf) # Len(w) /\ AFRead(buf, field) = NotEnoughData
      BY <2>1, <3>1, AFReads
    <3>3. QED BY <3>2 DEF set, private
  <2>5. Read(field) = AFRead(buf, field)
    BY <2>1 DEF Read, ReadFrom
  <2>6. Written(field) = IF field \notin written.set THEN FieldNotPresent
                         ELSE Ok(Field(field, AFSize(field, written.private)))
    BY <2>1 DEF Written
  <2>7. QED BY <1>2, <2>1, <2>4, <2>5, <2>6, ResultIs DEF Faithful, Incomplete
<1>4. CASE OriginalPes(w)
  <2>1. syntax = "pes" /\ field \in PesFields \cup {"payload"}
    BY <1>4 DEF OriginalPes, Fields
  <2>2. /\ Bad # "start_code" /\ Bad # CheckBits
        /\ field # "payload" => Spared(field, Bad)
        /\ field = "payload" => Bad # "payload"
    <3>1. CASE damage.kind = "marker"
      <4>1. field \notin Marks(damage.field) /\ Bad = damage.field
        BY <3>1 DEF Bad
      <4>2. Bad # "start_code" /\ Bad # CheckBits
        BY <2>1, <4>1 DEF Marks, CheckBits
      <4>3. Bad # Extension2Marker => Bad # field
        BY <4>1, <4>2 DEF Marks, CheckBits, Extension2Marker
      <4>4. Bad = Extension2Marker => field \notin Extension2Fields
        <5>1. Marks(Extension2Marker) = Extension2Fields
          BY DEF Marks, Extension2Marker
        <5>2. QED BY <4>1, <5>1
      <4>5. field # Extension2Marker
        BY <2>1 DEF Extension2Marker, PesFields, PesFlags, ExtensionFlags, Extension2Fields
      <4>6. QED BY <4>2, <4>3, <4>4, <4>5 DEF Spared
    <3>2. CASE damage.kind # "marker"
      <4>1. Bad = NoField
        BY <3>2 DEF Bad
      <4>2. field # NoField
        BY <2>1 DEF NoField, PesFields, PesFlags, ExtensionFlags, Extension2Fields
      <4>3. NoField # "start_code" /\ NoField # CheckBits /\ NoField # Extension2Marker
            /\ NoField # "payload"
        BY DEF NoField, CheckBits, Extension2Marker
      <4>4. QED BY <4>1, <4>2, <4>3 DEF Spared
    <3>3. QED BY <3>1, <3>2
  <2>3. /\ written.payload \in Nat /\ PesLayout(w, written.set, written.payload)
        /\ Allowed(written.set) /\ ("parsed" \in written.set \/ written.set = {})
    BY <1>4 DEF OriginalPes
  <2>4. ASSUME NEW f \in PesFields
        PROVE  /\ Spared(f, Bad) =>
                    \/ PesRead(buf, f) = PesField(written.set, f)
                    \/ Len(buf) # Len(w) /\ PesRead(buf, f).status \in Incomplete
               /\ Bad # "payload" /\ Len(buf) = Len(w)
                    => PesPayload(buf) = Ok(Field("payload", written.payload))
    <3> DEFINE set == written.set
               payload == written.payload
               bad == Bad
    <3>1. /\ payload \in Nat /\ PesLayout(w, set, payload)
          /\ Allowed(set) /\ ("parsed" \in set \/ set = {})
          /\ Like(buf, w, bad) /\ bad # "start_code" /\ bad # CheckBits
      BY <1>2, <2>2, <2>3
    <3> HIDE DEF set, payload, bad
    <3>2. /\ Spared(f, bad) =>
               \/ PesRead(buf, f) = PesField(set, f)
               \/ Len(buf) # Len(w) /\ PesRead(buf, f).status \in Incomplete
          /\ bad # "payload" /\ Len(buf) = Len(w)
               => PesPayload(buf) = Ok(Field("payload", payload))
      BY <3>1, PesReads
    <3>3. QED BY <3>2 DEF set, payload, bad
  <2>5. CASE field = "payload"
    <3>1. Read(field) = PesPayload(buf)
          /\ Written(field) = Ok(Field("payload", written.payload))
      BY <2>1, <2>5 DEF Read, ReadFrom, Written
    <3>2. "pts" \in PesFields
      BY DEF PesFields, PesFlags
    <3>3. Len(buf) = Len(w) => PesPayload(buf) = Ok(Field("payload", written.payload))
      BY <2>2, <2>4, <2>5, <3>2
    <3>4. QED BY <1>2, <2>5, <3>1, <3>3 DEF Faithful
  <2>6. CASE field # "payload"
    <3>1. Read(field) = PesRead(buf, field) /\ field \in PesFields
          /\ Written(field) = PesField(written.set, field)
      BY <2>1, <2>6 DEF Read, ReadFrom, Written, PesField
    <3>2. \/ PesRead(buf, field) = PesField(written.set, field)
          \/ Len(buf) # Len(w) /\ PesRead(buf, field).status \in Incomplete
      BY <2>2, <2>4, <2>6, <3>1
    <3>3. QED BY <1>2, <2>6, <3>1, <3>2 DEF Faithful
  <2>7. QED BY <2>5, <2>6
<1>5. QED BY <1>1, <1>3, <1>4 DEF Original

(* The offsets that the accessors of packet.rs and pes.rs add up from      *)
(* flags and lengths are those of the layout: each field is read as it was *)
(* written, and the others are reported as not present.                    *)
THEOREM EveryFieldReadsBack == FieldsSpec => []FieldsReadBack
<1>1. FieldsInv => FieldsReadBack
  <2> SUFFICES ASSUME FieldsInv, damage = Undamaged, NEW field \in Fields
               PROVE  Read(field) = Written(field)
    BY DEF FieldsReadBack
  <2>1. damage.kind = "none"
    BY DEF Undamaged
  <2>2. Faithful(field)
    BY <2>1, ReadsFaithfully
  <2>3. QED BY <2>1, <2>2 DEF Faithful
<1>2. QED BY <1>1, FieldsInvHolds, PTL

(* Of a header cut short, at any byte, an accessor returns the whole field *)
(* or an error that says that it is incomplete.                            *)
THEOREM NoFieldIsReadInPart == FieldsSpec => []CutIsNoticed
<1>1. FieldsInv => CutIsNoticed
  <2> SUFFICES ASSUME FieldsInv, damage.kind = "cut", NEW field \in Fields \ {"payload"}
               PROVE  \/ Read(field) = Written(field)
                      \/ Read(field).status \in {"NotEnoughData", "HeaderLengthExceedsBuffer"}
    BY DEF CutIsNoticed
  <2>1. Faithful(field)
    BY ReadsFaithfully
  <2>2. QED BY <2>1 DEF Faithful, Incomplete
<1>2. QED BY <1>1, FieldsInvHolds, PTL

(* A bad marker bit changes the result of no accessor of another field.    *)
THEOREM BadMarkersAreLocal == FieldsSpec => []MarkersAreLocal
<1>1. FieldsInv => MarkersAreLocal
  <2> SUFFICES ASSUME FieldsInv, damage.kind = "marker",
                      NEW field \in Fields \ Marks(damage.field)
               PROVE  Read(field) = Written(field)
    BY DEF MarkersAreLocal
  <2>1. Faithful(field)
    BY ReadsFaithfully
  <2>2. QED BY <2>1 DEF Faithful
<1>2. QED BY <1>1, FieldsInvHolds, PTL

-------------------------------------------------------------------------------
(* No byte is read twice.                                                  *)

(* Buffers in which no two bytes have the same number.                     *)
Apart(s) ==
  /\ s \in Seq(Bytes)
  /\ \A i, j \in 1..Len(s) : i # j => s[i].nr # s[j].nr

(* The bytes of a result are some of those from offset `lo' to `hi'.       *)
From(r, s, lo, hi) ==
  /\ r.status = "ok" \/ r.bytes = << >>
  /\ \A k \in 1..Len(r.bytes) :
       \E p \in 1..Len(s) : lo < p /\ p <= hi /\ r.bytes[k] = s[p]

NumbersOf(r) == {r.bytes[k].nr : k \in 1..Len(r.bytes)}

(* The results of some fields come from there, and share no byte.          *)
Laid(F, r, s, lo, hi) ==
  /\ \A f \in F : From(r[f], s, lo, hi)
  /\ \A f, g \in F : f # g => NumbersOf(r[f]) \cap NumbersOf(r[g]) = {}

LEMMA NoBytes ==
  /\ \A why : Err(why).bytes = << >>
  /\ NotEnoughData.bytes = << >> /\ FieldNotPresent.bytes = << >>
  /\ MarkerBitNotSet.bytes = << >>
BY DEF Err, NotEnoughData, FieldNotPresent, MarkerBitNotSet

LEMMA NothingIsFrom ==
  ASSUME NEW r, r.bytes = << >>, NEW s, NEW lo, NEW hi
  PROVE  From(r, s, lo, hi)
<1>1. Len(r.bytes) = 0
  OBVIOUS
<1>2. QED BY <1>1 DEF From

LEMMA NothingIsLaid ==
  ASSUME NEW F, NEW r, NEW s, NEW lo, NEW hi, \A f \in F : r[f].bytes = << >>
  PROVE  Laid(F, r, s, lo, hi)
<1>1. \A f \in F : From(r[f], s, lo, hi)
  BY NothingIsFrom
<1>2. ASSUME NEW f \in F PROVE NumbersOf(r[f]) = {}
  <2>1. Len(r[f].bytes) = 0
    OBVIOUS
  <2>2. QED BY <2>1 DEF NumbersOf
<1>3. QED BY <1>1, <1>2 DEF Laid

LEMMA PartIsFrom ==
  ASSUME NEW s \in Seq(Bytes), NEW from \in Nat, NEW to \in Nat, from <= to, to <= Len(s)
  PROVE  From(Ok(SubSeq(s, from + 1, to)), s, from, to)
<1> DEFINE part == SubSeq(s, from + 1, to)
<1>1. /\ Len(part) = to - from
      /\ \A i \in 1..(to - from) : part[i] = s[from + i]
  BY SubSeqIs
<1> HIDE DEF part
<1>2. ASSUME NEW k \in 1..Len(part)
      PROVE  \E p \in 1..Len(s) : from < p /\ p <= to /\ part[k] = s[p]
  <2> DEFINE p == from + k
  <2>1. k \in 1..(to - from)
    BY <1>1
  <2>2. p \in 1..Len(s) /\ from < p /\ p <= to
    BY <2>1, LenProperties
  <2>3. part[k] = s[p]
    BY <1>1, <2>1
  <2>4. QED BY <2>2, <2>3
<1>3. QED BY <1>2, ResultIs DEF From, part

LEMMA SliceIsFrom ==
  ASSUME NEW s \in Seq(Bytes), NEW from \in Nat, NEW to \in Nat, from <= to
  PROVE  /\ From(Slice(s, from, to), s, from, to)
         /\ From(ExtensionSlice(s, from, to), s, from, to)
         /\ From(HeaderSlice(s, from, to), s, from, to)
         /\ From(Index(s, from, to), s, from, to)
<1>1. CASE to <= Len(s)
  <2>1. Index(s, from, to) = Ok(SubSeq(s, from + 1, to))
    BY <1>1, IndexIs
  <2>2. From(Index(s, from, to), s, from, to)
    BY <1>1, <2>1, PartIsFrom
  <2>3. From(NotEnoughData, s, from, to)
    BY NoBytes, NothingIsFrom
  <2>4. QED BY <1>1, <2>2, <2>3, LenProperties DEF Slice, ExtensionSlice, HeaderSlice
<1>2. CASE ~(to <= Len(s))
  <2>1. /\ Slice(s, from, to).bytes = << >> /\ ExtensionSlice(s, from, to).bytes = << >>
        /\ HeaderSlice(s, from, to).bytes = << >> /\ Index(s, from, to).bytes = << >>
    BY <1>2, NoBytes, LenProperties DEF Slice, ExtensionSlice, HeaderSlice, Index
  <2>2. QED BY <2>1, NothingIsFrom
<1>3. QED BY <1>1, <1>2

LEMMA MarkedIsFrom ==
  ASSUME NEW r, NEW s, NEW lo, NEW hi, From(r, s, lo, hi), NEW where
  PROVE  /\ From(Marked(r.bytes, where), s, lo, hi)
         /\ From(TimestampFromBytes(r.bytes), s, lo, hi)
<1>1. From(Ok(r.bytes), s, lo, hi)
  BY ResultIs DEF From
<1>2. From(MarkerBitNotSet, s, lo, hi)
  BY NoBytes, NothingIsFrom
<1>3. QED BY <1>1, <1>2 DEF Marked, TimestampFromBytes

LEMMA FromWithin ==
  ASSUME NEW r, NEW s, NEW lo \in Nat, NEW hi \in Nat, From(r, s, lo, hi),
         NEW b \in Nat, b <= lo
  PROVE  /\ \A c \in Nat : hi <= c => From(r, s, b, c)
         /\ s \in Seq(Bytes) => From(r, s, b, Len(s))
<1>1. \A p \in 1..Len(s) : lo < p => b < p
  <2>1. \A p \in Int : lo < p => b < p
    OBVIOUS
  <2>2. QED BY <2>1
<1>2. ASSUME NEW c \in Nat, hi <= c PROVE From(r, s, b, c)
  <2>1. \A p \in 1..Len(s) : p <= hi => p <= c
    <3>1. \A p \in Int : p <= hi => p <= c
      BY <1>2
    <3>2. QED BY <3>1
  <2>2. QED BY <1>1, <2>1 DEF From
<1>3. ASSUME s \in Seq(Bytes) PROVE From(r, s, b, Len(s))
  <2>1. \A p \in 1..Len(s) : p <= Len(s)
    BY <1>3, LenProperties
  <2>2. QED BY <1>1, <2>1 DEF From
<1>4. QED BY <1>2, <1>3

LEMMA FromApart ==
  ASSUME NEW s, Apart(s), NEW lo \in Nat, NEW mid \in Nat, NEW hi \in Nat, NEW r, NEW q,
         From(r, s, lo, mid), From(q, s, mid, hi)
  PROVE  NumbersOf(r) \cap NumbersOf(q) = {}
<1>1. SUFFICES ASSUME NEW k \in 1..Len(r.bytes), NEW m \in 1..Len(q.bytes),
                      r.bytes[k].nr = q.bytes[m].nr
               PROVE  FALSE
  BY DEF NumbersOf
<1>2. PICK p \in 1..Len(s) : p <= mid /\ r.bytes[k] = s[p]
  BY DEF From
<1>3. PICK z \in 1..Len(s) : mid < z /\ q.bytes[m] = s[z]
  BY DEF From
<1>4. p # z
  BY <1>2, <1>3
<1>5. QED BY <1>1, <1>2, <1>3, <1>4 DEF Apart

(* Fields that are read from places one behind the other.                  *)
LEMMA LaidBehind ==
  ASSUME NEW s, Apart(s), NEW lo \in Nat, NEW mid \in Nat, NEW hi \in Nat,
         lo <= mid, mid <= hi, NEW r,
         NEW F, Laid(F, r, s, lo, mid), NEW G, Laid(G, r, s, mid, hi)
  PROVE  Laid(F \cup G, r, s, lo, hi)
<1>1. \A f \in F : From(r[f], s, lo, mid)
  BY DEF Laid
<1>2. \A g \in G : From(r[g], s, mid, hi)
  BY DEF Laid
<1>3. \A f \in F : From(r[f], s, lo, hi)
  <2>1. TAKE f \in F
  <2>2. From(r[f], s, lo, mid)
    BY <1>1
  <2>3. QED BY <2>2, FromWithin
<1>4. \A g \in G : From(r[g], s, lo, hi)
  <2>1. TAKE g \in G
  <2>2. From(r[g], s, mid, hi)
    BY <1>2
  <2>3. QED BY <2>2, FromWithin
<1>5. \A f \in F, g \in G : NumbersOf(r[f]) \cap NumbersOf(r[g]) = {}
  <2>1. TAKE f \in F, g \in G
  <2>2. From(r[f], s, lo, mid) /\ From(r[g], s, mid, hi)
    BY <1>1, <1>2
  <2>3. QED BY <2>2, FromApart
<1>6. \A f, g \in F \cup G : f # g => NumbersOf(r[f]) \cap NumbersOf(r[g]) = {}
  BY <1>5 DEF Laid
<1>7. QED BY <1>3, <1>4, <1>6 DEF Laid

LEMMA FirstLaid ==
  ASSUME NEW s, Apart(s), NEW lo \in Nat, NEW mid \in Nat, NEW hi \in Nat,
         lo <= mid, mid <= hi, NEW r,
         NEW f, From(r[f], s, lo, mid), NEW G, Laid(G, r, s, mid, hi)
  PROVE  Laid({f} \cup G, r, s, lo, hi)
<1>1. Laid({f}, r, s, lo, mid)
  BY DEF Laid
<1>2. QED BY <1>1, LaidBehind

LEMMA LaidWithin ==
  ASSUME NEW F, NEW r, NEW s \in Seq(Bytes), NEW lo \in Nat, NEW hi \in Nat,
         Laid(F, r, s, lo, hi), NEW b \in Nat, b <= lo
  PROVE  /\ Laid(F, r, s, b, Len(s))
         /\ \A c \in Nat : hi <= c => Laid(F, r, s, b, c)
<1>1. ASSUME NEW f \in F
      PROVE  /\ From(r[f], s, b, Len(s))
             /\ \A c \in Nat : hi <= c => From(r[f], s, b, c)
  <2>1. From(r[f], s, lo, hi)
    BY DEF Laid
  <2>2. QED BY <2>1, FromWithin
<1>2. QED BY <1>1 DEF Laid

(* What is read from a part of a buffer.                                   *)
LEMMA LaidInPart ==
  ASSUME NEW s, Apart(s), NEW from \in Nat, NEW to \in Nat, from <= to, to <= Len(s),
         NEW F, NEW r
  PROVE  LET x == SubSeq(s, from + 1, to) IN
         /\ Apart(x)
         /\ Laid(F, r, x, 0, Len(x)) => Laid(F, r, s, from, to)
<1> DEFINE x == SubSeq(s, from + 1, to)
<1>0. s \in Seq(Bytes) /\ Len(s) \in Nat
  BY LenProperties DEF Apart
<1>1. /\ x \in Seq(Bytes) /\ Len(x) = to - from
      /\ \A i \in 1..(to - from) : x[i] = s[from + i]
  BY <1>0, SubSeqIs
<1> HIDE DEF x
<1>2. \A i \in 1..Len(x) : from + i \in 1..Len(s) /\ from < from + i /\ from + i <= to
                           /\ x[i] = s[from + i]
  BY <1>0, <1>1
<1>3. Apart(x)
  <2>1. SUFFICES ASSUME NEW i \in 1..Len(x), NEW j \in 1..Len(x), i # j
                 PROVE  x[i].nr # x[j].nr
    BY <1>1 DEF Apart
  <2> DEFINE m == from + i
             n == from + j
  <2>2. m # n /\ m \in 1..Len(s) /\ n \in 1..Len(s) /\ x[i] = s[m] /\ x[j] = s[n]
    BY <1>2, <2>1
  <2> HIDE DEF m, n
  <2>3. QED BY <2>2 DEF Apart
<1>4. ASSUME NEW q, From(q, x, 0, Len(x)) PROVE From(q, s, from, to)
  <2>1. SUFFICES ASSUME NEW k \in 1..Len(q.bytes)
                 PROVE  \E p \in 1..Len(s) : from < p /\ p <= to /\ q.bytes[k] = s[p]
    BY <1>4 DEF From
  <2>2. PICK i \in 1..Len(x) : q.bytes[k] = x[i]
    BY <1>4 DEF From
  <2> DEFINE p == from + i
  <2>3. p \in 1..Len(s) /\ from < p /\ p <= to /\ x[i] = s[p]
    BY <1>2
  <2> HIDE DEF p
  <2>4. QED BY <2>2, <2>3
<1>5. ASSUME Laid(F, r, x, 0, Len(x)) PROVE Laid(F, r, s, from, to)
  <2>1. \A f \in F : From(r[f], x, 0, Len(x))
    BY <1>5 DEF Laid
  <2>2. QED BY <1>4, <1>5, <2>1 DEF Laid
<1>6. QED BY <1>3, <1>5 DEF x

LEMMA AFELaid ==
  ASSUME NEW x, Apart(x), NEW r, \A f \in AFEFlags : r[f] = AFERead(x, f)
  PROVE  Laid(AFEFlags, r, x, 0, Len(x))
<1> DEFINE pw == PiecewiseRateOffset(x)
           se == SeamlessSpliceOffset(x)
           end == se + 5
<1>0. x \in Seq(Bytes)
  BY DEF Apart
<1>1. /\ pw \in Nat /\ se \in Nat /\ end \in Nat /\ pw <= se /\ se <= end
      /\ AFHas(x, "ltw") => 3 <= pw
      /\ AFHas(x, "piecewise") => pw + 3 <= se
  BY DEF PiecewiseRateOffset, SeamlessSpliceOffset
<1>2. CASE x = << >>
  <2>1. \A f \in AFEFlags : r[f].bytes = << >>
    BY <1>2, NoBytes DEF AFERead
  <2>2. QED BY <2>1, NothingIsLaid
<1>3. CASE x # << >>
  <2>1. \A f \in AFEFlags : ~AFHas(x, f) => r[f].bytes = << >>
    BY <1>3, NoBytes DEF AFERead
  <2>2. \A f \in AFEFlags : ~AFHas(x, f) => \A lo, hi : From(r[f], x, lo, hi)
    BY <2>1, NothingIsFrom
  <2>3. From(r["ltw"], x, 0, pw)
    <3>1. CASE ~AFHas(x, "ltw")
      BY <2>2, <3>1 DEF AFEFlags
    <3>2. CASE AFHas(x, "ltw")
      <4>1. r["ltw"] = Slice(x, 1, 3)
        BY <1>3, <3>2 DEF AFERead, AFEFlags
      <4>2. From(Slice(x, 1, 3), x, 1, 3)
        BY <1>0, SliceIsFrom
      <4> HIDE DEF pw
      <4>3. From(r["ltw"], x, 1, 3)
        BY <4>1, <4>2
      <4>4. QED BY <1>1, <3>2, <4>3, FromWithin
    <3>3. QED BY <3>1, <3>2
  <2>4. From(r["piecewise"], x, pw, se)
    <3>1. CASE ~AFHas(x, "piecewise")
      BY <2>2, <3>1 DEF AFEFlags
    <3>2. CASE AFHas(x, "piecewise")
      <4> DEFINE to == pw + 3
      <4>1. r["piecewise"] = Slice(x, pw, to)
        BY <1>3, <3>2 DEF AFERead, AFEFlags
      <4>2. to \in Nat /\ pw <= to /\ to <= se
        BY <1>1, <3>2
      <4> HIDE DEF to, pw, se
      <4>3. From(Slice(x, pw, to), x, pw, to)
        BY <1>0, <1>1, <4>2, SliceIsFrom
      <4>4. From(r["piecewise"], x, pw, to)
        BY <4>1, <4>3
      <4>5. QED BY <1>1, <4>2, <4>4, FromWithin
    <3>3. QED BY <3>1, <3>2
  <2>5. From(r["seamless"], x, se, end)
    <3>1. CASE ~AFHas(x, "seamless")
      BY <2>2, <3>1 DEF AFEFlags
    <3>2. CASE AFHas(x, "seamless")
      <4> DEFINE all == Slice(x, se, end)
      <4>1. r["seamless"] = IF all.status = "ok" THEN TimestampFromBytes(all.bytes) ELSE all
        BY <1>3, <3>2 DEF AFERead, AFEFlags, Then
      <4> HIDE DEF se, end
      <4>2. From(all, x, se, end)
        BY <1>0, <1>1, SliceIsFrom
      <4> HIDE DEF all
      <4>3. QED BY <4>1, <4>2, MarkedIsFrom
    <3>3. QED BY <3>1, <3>2
  <2> HIDE DEF pw, se, end
  <2>6. Laid({}, r, x, end, end)
    BY DEF Laid
  <2>7. Laid({"seamless"} \cup {}, r, x, se, end)
    BY <1>1, <2>5, <2>6, FirstLaid
  <2>8. Laid({"piecewise"} \cup ({"seamless"} \cup {}), r, x, pw, end)
    BY <1>1, <2>4, <2>7, FirstLaid
  <2>9. Laid({"ltw"} \cup ({"piecewise"} \cup ({"seamless"} \cup {})), r, x, 0, end)
    BY <1>1, <2>3, <2>8, FirstLaid
  <2>10. AFEFlags = {"ltw"} \cup ({"piecewise"} \cup ({"seamless"} \cup {}))
    BY DEF AFEFlags
  <2>11. Laid(AFEFlags, r, x, 0, end)
    BY <2>9, <2>10
  <2>12. QED BY <1>0, <1>1, <2>11, LaidWithin
<1>4. QED BY <1>2, <1>3

(* What a length byte counts is read from behind it.                       *)
LEMMA CountedIsFrom ==
  ASSUME NEW s, Apart(s), NEW at \in Nat
  PROVE  \/ Counted(s, at).bytes = << >> /\ Counted(s, at).status # "ok"
         \/ /\ at + 1 <= Len(s) /\ s[at + 1].len \in Nat
            /\ (at + 1) + s[at + 1].len <= Len(s)
            /\ Counted(s, at) = Ok(SubSeq(s, (at + 1) + 1, (at + 1) + s[at + 1].len))
<1> DEFINE from == at + 1
           head == Slice(s, at, from)
<1>0. s \in Seq(Bytes) /\ Len(s) \in Nat /\ from \in Nat /\ at <= from
  BY LenProperties DEF Apart
<1>1. CASE ~(from <= Len(s))
  <2>1. head = NotEnoughData
    BY <1>0, <1>1 DEF Slice
  <2>2. Counted(s, at) = NotEnoughData
    BY <2>1, ResultIs DEF Counted, Then
  <2>3. QED BY <2>2, ResultIs, NoBytes
<1>2. CASE from <= Len(s)
  <2> DEFINE n == s[from].len
             to == from + n
  <2>1. from \in 1..Len(s)
    BY <1>0, <1>2
  <2>2. n \in Nat
    BY <1>0, <2>1, LenOfByte
  <2>3. head = Ok(SubSeq(s, at + 1, from))
    BY <1>0, <1>2, IndexIs DEF Slice
  <2>4. SubSeq(s, at + 1, from)[1] = s[from]
    <3> HIDE DEF from
    <3>1. from = at + 1 /\ 1 \in 1..(from - at)
      BY <1>0 DEF from
    <3>2. SubSeq(s, at + 1, from)[1] = s[at + 1]
      BY <1>0, <1>2, <3>1, SubSeqIs
    <3>3. QED BY <3>1, <3>2
  <2>5. Counted(s, at) = Slice(s, from, to)
    <3>1. Counted(s, at) = IF head.status = "ok"
                           THEN Slice(s, from, from + head.bytes[1].len) ELSE head
      BY DEF Counted, Then
    <3>2. head.status = "ok" /\ head.bytes[1] = s[from]
      BY <2>3, <2>4, ResultIs
    <3> HIDE DEF head
    <3>3. QED BY <3>1, <3>2
  <2>6. to \in Nat /\ from <= to
    BY <1>0, <2>2
  <2> HIDE DEF n, from, to
  <2>7. CASE to <= Len(s)
    <3>1. Counted(s, at) = Ok(SubSeq(s, from + 1, to))
      BY <1>0, <2>5, <2>6, <2>7, IndexIs DEF Slice
    <3>2. QED BY <1>0, <1>2, <2>2, <2>7, <3>1 DEF to, n, from
  <2>8. CASE ~(to <= Len(s))
    <3>1. Counted(s, at) = NotEnoughData
      BY <1>0, <2>5, <2>6, <2>8 DEF Slice
    <3>2. QED BY <3>1, ResultIs, NoBytes
  <2>9. QED BY <2>7, <2>8
<1>3. QED BY <1>1, <1>2

(* Where the extension is looked for: behind the private data.             *)
PrivateEnd(s) ==
  LET off == TransportPrivateDataOffset(s) IN
  IF AFHas(s, "private") /\ off + 1 <= Len(s) THEN (off + 1) + s[off + 1].len ELSE off

LEMMA PrivateEndIs ==
  ASSUME NEW s, Apart(s)
  PROVE  PrivateEnd(s) \in Nat /\ TransportPrivateDataOffset(s) <= PrivateEnd(s)
<1> DEFINE off == TransportPrivateDataOffset(s)
           i == off + 1
           n == s[i].len
<1>1. s \in Seq(Bytes) /\ Len(s) \in Nat /\ off \in Nat
  BY OffsetsAreNat, LenProperties DEF Apart
<1>2. PrivateEnd(s) = IF AFHas(s, "private") /\ i <= Len(s) THEN i + n ELSE off
  BY DEF PrivateEnd
<1> HIDE DEF off
<1>3. i <= Len(s) => i \in 1..Len(s)
  BY <1>1
<1>4. i \in Nat /\ off <= i
  BY <1>1
<1> HIDE DEF i
<1>5. i <= Len(s) => n \in Nat
  BY <1>1, <1>3, LenOfByte
<1> HIDE DEF n
<1>6. PrivateEnd(s) \in Nat /\ off <= PrivateEnd(s)
  BY <1>1, <1>2, <1>4, <1>5
<1>7. QED BY <1>6 DEF off

LEMMA PrivateIsFrom ==
  ASSUME NEW s, Apart(s), AFHas(s, "private")
  PROVE  From(TransportPrivateData(s), s, TransportPrivateDataOffset(s), PrivateEnd(s))
<1> DEFINE off == TransportPrivateDataOffset(s)
           r == Counted(s, off)
           end == PrivateEnd(s)
<1>1. s \in Seq(Bytes) /\ off \in Nat /\ end \in Nat /\ r = TransportPrivateData(s)
  BY OffsetsAreNat, PrivateEndIs DEF Apart, TransportPrivateData
<1>2. CASE r.bytes = << >>
  BY <1>1, <1>2, NothingIsFrom
<1>3. CASE r.bytes # << >>
  <2> DEFINE from == off + 1
             to == from + s[from].len
  <2>1. /\ from <= Len(s) /\ s[from].len \in Nat /\ to <= Len(s)
        /\ r = Ok(SubSeq(s, from + 1, to))
    BY <1>1, <1>3, CountedIsFrom
  <2>2. end = to
    BY <2>1 DEF PrivateEnd
  <2>3. from \in Nat /\ to \in Nat /\ from <= to /\ off <= from
    BY <1>1, <2>1
  <2> HIDE DEF off, from, to, end, r
  <2>4. From(r, s, from, to)
    BY <1>1, <2>1, <2>3, PartIsFrom
  <2>5. From(r, s, off, to)
    BY <1>1, <2>3, <2>4, FromWithin
  <2>6. QED BY <1>1, <2>2, <2>5 DEF off, end
<1>4. QED BY <1>2, <1>3

(* The extension is a part of the adaptation field behind the private data.*)
LEMMA ExtensionIsPart ==
  ASSUME NEW s, Apart(s)
  PROVE  LET r == AdaptationFieldExtension(s) IN
         \/ r.bytes = << >> /\ r.status # "ok"
         \/ \E from, to \in Nat : /\ PrivateEnd(s) <= from /\ from <= to /\ to <= Len(s)
                                  /\ r = Ok(SubSeq(s, from + 1, to))
<1> DEFINE off == TransportPrivateDataOffset(s)
           r == AdaptationFieldExtension(s)
           end == PrivateEnd(s)
<1>1. s \in Seq(Bytes) /\ Len(s) \in Nat /\ off \in Nat /\ end \in Nat
  BY OffsetsAreNat, PrivateEndIs, LenProperties DEF Apart
<1>2. ASSUME r = Counted(s, end)
      PROVE  \/ r.bytes = << >> /\ r.status # "ok"
             \/ \E from, to \in Nat : /\ end <= from /\ from <= to /\ to <= Len(s)
                                      /\ r = Ok(SubSeq(s, from + 1, to))
  <2> DEFINE from == end + 1
             to == from + s[from].len
  <2>1. CASE r.bytes = << >> /\ r.status # "ok"
    BY <2>1
  <2>2. CASE ~(r.bytes = << >> /\ r.status # "ok")
    <3> HIDE DEF r, end
    <3>1. /\ from <= Len(s) /\ s[from].len \in Nat /\ to <= Len(s)
          /\ r = Ok(SubSeq(s, from + 1, to))
      BY <1>1, <1>2, <2>2, CountedIsFrom
    <3>2. from \in Nat /\ to \in Nat /\ from <= to /\ end <= from
      BY <1>1, <3>1
    <3>3. QED BY <3>1, <3>2
  <2>3. QED BY <2>1, <2>2
<1>3. CASE ~AFHas(s, "private")
  <2>1. r = Counted(s, off) /\ end = off
    BY <1>3 DEF AdaptationFieldExtension, PrivateEnd
  <2>2. QED BY <1>2, <2>1
<1>4. CASE AFHas(s, "private")
  <2> DEFINE i == off + 1
             head == Slice(s, off, i)
  <2>1. r = IF head.status = "ok" THEN Counted(s, off + head.bytes[1].len + 1) ELSE head
    BY <1>4 DEF AdaptationFieldExtension, Then
  <2>2. i \in Nat /\ off <= i
    BY <1>1
  <2>3. CASE ~(i <= Len(s))
    <3>1. head = NotEnoughData
      BY <1>1, <2>2, <2>3 DEF Slice
    <3>2. QED BY <2>1, <3>1, ResultIs, NoBytes
  <2>4. CASE i <= Len(s)
    <3>1. head = Ok(SubSeq(s, off + 1, i))
      <4> HIDE DEF off, i
      <4>1. QED BY <1>1, <2>2, <2>4, IndexIs DEF Slice
    <3>2. SubSeq(s, off + 1, i)[1] = s[i]
      <4> HIDE DEF off
      <4>1. 1 \in 1..(i - off) /\ i = off + 1
        BY <1>1
      <4> HIDE DEF i
      <4>2. SubSeq(s, off + 1, i)[1] = s[off + 1]
        BY <1>1, <2>2, <2>4, <4>1, SubSeqIs
      <4>3. QED BY <4>1, <4>2
    <3>3. head.status = "ok" /\ head.bytes[1] = s[i]
      BY <3>1, <3>2, ResultIs
    <3>4. s[i].len \in Nat
      <4>1. i \in 1..Len(s)
        BY <1>1, <2>4
      <4> HIDE DEF i
      <4>2. QED BY <1>1, <4>1, LenOfByte
    <3> DEFINE n == s[i].len
    <3>5. end = i + n
      BY <1>4, <2>4 DEF PrivateEnd
    <3>6. r = Counted(s, off + n + 1)
      BY <2>1, <3>3
    <3>7. off + n + 1 = i + n
      BY <1>1, <3>4
    <3>8. QED BY <1>2, <3>5, <3>6, <3>7
  <2>5. QED BY <2>3, <2>4
<1>5. QED BY <1>3, <1>4

LEMMA AFLaid ==
  ASSUME NEW s, Apart(s), NEW r, \A f \in AFFields : r[f] = AFRead(s, f)
  PROVE  Laid(AFFields, r, s, 0, Len(s))
<1> DEFINE o2 == OpcrOffset(s)
           o3 == SpliceCountdownOffset(s)
           o4 == TransportPrivateDataOffset(s)
           end == PrivateEnd(s)
           ext == AdaptationFieldExtension(s)
<1>0. s \in Seq(Bytes) /\ Len(s) \in Nat
  BY LenProperties DEF Apart
<1>1. /\ o2 \in Nat /\ o3 \in Nat /\ o4 \in Nat /\ end \in Nat
      /\ o2 <= o3 /\ o3 <= o4 /\ o4 <= end
      /\ AFHas(s, "pcr") => 7 <= o2
      /\ AFHas(s, "opcr") => o2 + 6 <= o3
      /\ AFHas(s, "splice") => o3 + 1 <= o4
  BY PrivateEndIs DEF OpcrOffset, SpliceCountdownOffset, TransportPrivateDataOffset, PCR_SIZE
<1>2. /\ AFFields = {"pcr", "opcr", "splice", "private"} \cup AFEFlags
      /\ {"pcr", "opcr", "splice", "private"} \cap AFEFlags = {}
  BY DEF AFFields, AFFlags, AFEFlags
<1>3. ASSUME NEW f \in {"pcr", "opcr", "splice", "private"}, ~AFHas(s, f)
      PROVE  \A lo, hi : From(r[f], s, lo, hi)
  <2>1. r[f] = FieldNotPresent
    BY <1>2, <1>3 DEF AFRead
  <2>2. QED BY <2>1, NoBytes, NothingIsFrom
<1>4. From(r["pcr"], s, 0, o2)
  <2>1. CASE AFHas(s, "pcr")
    <3>1. r["pcr"] = Slice(s, 1, 7)
      BY <1>2, <2>1 DEF AFRead, AFEFlags, PCR_SIZE
    <3>2. From(Slice(s, 1, 7), s, 1, 7)
      BY <1>0, SliceIsFrom
    <3> HIDE DEF o2
    <3>3. From(r["pcr"], s, 1, 7)
      BY <3>1, <3>2
    <3>4. QED BY <1>1, <2>1, <3>3, FromWithin
  <2>2. QED BY <1>3, <2>1
<1>5. From(r["opcr"], s, o2, o3)
  <2>1. CASE AFHas(s, "opcr")
    <3> DEFINE to == o2 + 6
    <3>1. r["opcr"] = Slice(s, o2, to)
      BY <1>2, <2>1 DEF AFRead, AFEFlags, PCR_SIZE
    <3>2. to \in Nat /\ o2 <= to /\ to <= o3
      BY <1>1, <2>1
    <3> HIDE DEF o2, o3, to
    <3>3. From(Slice(s, o2, to), s, o2, to)
      BY <1>0, <1>1, <3>2, SliceIsFrom
    <3>4. From(r["opcr"], s, o2, to)
      BY <3>1, <3>3
    <3>5. QED BY <1>1, <3>2, <3>4, FromWithin
  <2>2. QED BY <1>3, <2>1
<1>6. From(r["splice"], s, o3, o4)
  <2>1. CASE AFHas(s, "splice")
    <3> DEFINE to == o3 + 1
    <3>1. r["splice"] = Slice(s, o3, to)
      BY <1>2, <2>1 DEF AFRead, AFEFlags
    <3>2. to \in Nat /\ o3 <= to /\ to <= o4
      BY <1>1, <2>1
    <3> HIDE DEF o3, o4, to
    <3>3. From(Slice(s, o3, to), s, o3, to)
      BY <1>0, <1>1, <3>2, SliceIsFrom
    <3>4. From(r["splice"], s, o3, to)
      BY <3>1, <3>3
    <3>5. QED BY <1>1, <3>2, <3>4, FromWithin
  <2>2. QED BY <1>3, <2>1
<1>7. From(r["private"], s, o4, end)
  <2>1. CASE AFHas(s, "private")
    <3>1. r["private"] = TransportPrivateData(s)
      BY <1>2, <2>1 DEF AFRead, AFEFlags
    <3>2. QED BY <2>1, <3>1, PrivateIsFrom
  <2>2. QED BY <1>3, <2>1
<1>8. PICK last \in Nat : end <= last /\ Laid(AFEFlags, r, s, end, last)
  <2>1. \A f \in AFEFlags : r[f] = IF AFHas(s, "extension")
                                   THEN IF ext.status = "ok" THEN AFERead(ext.bytes, f) ELSE ext
                                   ELSE FieldNotPresent
    BY <1>2 DEF AFRead, Then
  <2>2. \/ ext.bytes = << >> /\ ext.status # "ok"
        \/ \E from, to \in Nat : /\ end <= from /\ from <= to /\ to <= Len(s)
                                 /\ ext = Ok(SubSeq(s, from + 1, to))
    BY ExtensionIsPart
  <2> HIDE DEF ext, end
  <2>3. CASE ~AFHas(s, "extension") \/ (ext.bytes = << >> /\ ext.status # "ok")
    <3>1. \A f \in AFEFlags : r[f].bytes = << >>
      BY <2>1, <2>3, NoBytes
    <3>2. Laid(AFEFlags, r, s, end, end)
      BY <3>1, NothingIsLaid
    <3>3. QED BY <1>1, <3>2
  <2>4. CASE AFHas(s, "extension") /\ \E from, to \in Nat :
                /\ end <= from /\ from <= to /\ to <= Len(s)
                /\ ext = Ok(SubSeq(s, from + 1, to))
    <3>1. PICK from \in Nat, to \in Nat : /\ end <= from /\ from <= to /\ to <= Len(s)
                                          /\ ext = Ok(SubSeq(s, from + 1, to))
      BY <2>4
    <3> DEFINE x == SubSeq(s, from + 1, to)
    <3>2. \A f \in AFEFlags : r[f] = AFERead(x, f)
      BY <2>1, <2>4, <3>1, ResultIs
    <3>3. /\ Apart(x)
          /\ Laid(AFEFlags, r, x, 0, Len(x)) => Laid(AFEFlags, r, s, from, to)
      BY <3>1, LaidInPart
    <3> HIDE DEF x
    <3>4. Laid(AFEFlags, r, s, from, to)
      BY <3>2, <3>3, AFELaid
    <3>5. Laid(AFEFlags, r, s, end, to)
      BY <1>0, <1>1, <3>1, <3>4, LaidWithin
    <3>6. end <= to
      BY <1>1, <3>1
    <3>7. QED BY <3>5, <3>6
  <2>5. QED BY <2>2, <2>3, <2>4
<1> DEFINE F1 == {"private"} \cup AFEFlags
           F2 == {"splice"} \cup F1
           F3 == {"opcr"} \cup F2
           F4 == {"pcr"} \cup F3
<1>9. AFFields = F4
  BY <1>2
<1> HIDE DEF o2, o3, o4, end
<1>10. o4 <= last /\ o3 <= last /\ o2 <= last
  BY <1>1, <1>8
<1>11. Laid(F1, r, s, o4, last)
  BY <1>1, <1>7, <1>8, FirstLaid
<1> HIDE DEF F1
<1>12. Laid(F2, r, s, o3, last)
  BY <1>1, <1>6, <1>10, <1>11, FirstLaid
<1> HIDE DEF F2
<1>13. Laid(F3, r, s, o2, last)
  BY <1>1, <1>5, <1>10, <1>12, FirstLaid
<1> HIDE DEF F3
<1>14. Laid(F4, r, s, 0, last)
  BY <1>1, <1>4, <1>10, <1>13, FirstLaid
<1> HIDE DEF F4
<1>15. QED BY <1>0, <1>9, <1>14, LaidWithin

-------------------------------------------------------------------------------
(* The PES header.                                                         *)

InExtension == (ExtensionFlags \ {"extension_2"}) \cup Extension2Fields

LEMMA InExtensionIs ==
  /\ InExtension = {"private_data", "pack_header", "sequence_counter", "p_std_buffer",
                    "stream_id_extension", "tref"}
  /\ Extension2Fields = {"stream_id_extension", "tref"}
BY DEF InExtension, ExtensionFlags, Extension2Fields

LEMMA ExtensionFieldIsFrom ==
  ASSUME NEW x \in Seq(Bytes), NEW field, PesSize(field) \in Nat, NEW start \in Nat
  PROVE  From(ExtensionField(x, field, start), x, start, start + PesSize(field))
<1> DEFINE to == start + PesSize(field)
<1>1. to \in Nat /\ start <= to
  OBVIOUS
<1>2. ExtensionField(x, field, start) = ExtensionSlice(x, start, to)
  BY DEF ExtensionField, NoOffset
<1> HIDE DEF to
<1>3. From(ExtensionSlice(x, start, to), x, start, to)
  BY <1>1, SliceIsFrom
<1>4. QED BY <1>2, <1>3 DEF to

LEMMA Extension2IsFrom ==
  ASSUME NEW x \in Seq(Bytes), NEW start \in Nat, start = PStdBufferEnd(x)
  PROVE  /\ From(Extension2(x, "stream_id_extension"), x, start, start + 2)
         /\ From(Extension2(x, "tref"), x, start + 2, start + 7)
<1> DEFINE a == start + 1
           b == start + 2
           c == start + 7
           one == Index(x, a, b)
           tref == ExtensionSlice(x, b, c)
           flags == x[start + 2].flags
<1>1. \/ /\ Extension2(x, "stream_id_extension").bytes = << >>
         /\ Extension2(x, "tref").bytes = << >>
      \/ /\ Extension2(x, "stream_id_extension") =
              IF "stream_id_extension_flag" \in flags THEN FieldNotPresent ELSE one
         /\ Extension2(x, "tref") =
              IF \/ "stream_id_extension_flag" \notin flags
                 \/ "tref_extension_flag" \in flags THEN FieldNotPresent
              ELSE IF tref.status = "ok" THEN TimestampFromBytes(tref.bytes) ELSE tref
  <2>1. start # NoOffset /\ start + 2 + 5 = c
    BY DEF NoOffset
  <2>2. CASE start >= Len(x) \/ ~x[start + 1].ok \/ start + 1 >= Len(x)
    BY <2>1, <2>2, NoBytes DEF Extension2
  <2>3. CASE ~(start >= Len(x) \/ ~x[start + 1].ok \/ start + 1 >= Len(x))
    <3> HIDE DEF c
    <3>1. QED BY <2>1, <2>3 DEF Extension2, Then, TIMESTAMP_SIZE
  <2>4. QED BY <2>2, <2>3
<1>2. a \in Nat /\ b \in Nat /\ c \in Nat /\ start <= a /\ a <= b /\ b <= c
  OBVIOUS
<1> HIDE DEF a, b, c, flags
<1>3. From(one, x, a, b) /\ From(tref, x, b, c)
  BY <1>2, SliceIsFrom
<1> HIDE DEF one, tref
<1>4. From(one, x, start, b)
  BY <1>2, <1>3, FromWithin
<1>5. From(TimestampFromBytes(tref.bytes), x, b, c)
  BY <1>3, MarkedIsFrom
<1>6. \A lo, hi : From(FieldNotPresent, x, lo, hi)
  BY NoBytes, NothingIsFrom
<1>7. /\ From(Extension2(x, "stream_id_extension"), x, start, b)
      /\ From(Extension2(x, "tref"), x, b, c)
  <2>1. CASE /\ Extension2(x, "stream_id_extension").bytes = << >>
             /\ Extension2(x, "tref").bytes = << >>
    BY <2>1, NothingIsFrom
  <2>2. QED BY <1>1, <1>3, <1>4, <1>5, <1>6, <2>1
<1>8. QED BY <1>7 DEF b, c

LEMMA ExtensionLaid ==
  ASSUME NEW x, Apart(x), NEW r, \A f \in InExtension : r[f] = ExtensionRead(x, f)
  PROVE  Laid(InExtension, r, x, 0, Len(x))
<1> DEFINE e1 == PrivateDataEnd(x)
           e2 == PackHeaderEnd(x)
           e3 == SequenceCounterEnd(x)
           e4 == PStdBufferEnd(x)
           e5 == e4 + 2
           e6 == e4 + 7
<1>0. x \in Seq(Bytes) /\ Len(x) \in Nat
  BY LenProperties DEF Apart
<1>1. /\ r["private_data"] = IF Has(x, "private_data")
                              THEN ExtensionField(x, "private_data", 1) ELSE FieldNotPresent
      /\ r["pack_header"] = IF Has(x, "pack_header") THEN PackHeader(x) ELSE FieldNotPresent
      /\ r["sequence_counter"] =
           IF Has(x, "sequence_counter")
           THEN LET n == ExtensionField(x, "sequence_counter", e2) IN
                IF n.status = "ok" THEN Marked(n.bytes, {1, 2}) ELSE n
           ELSE FieldNotPresent
      /\ r["p_std_buffer"] =
           IF Has(x, "p_std_buffer")
           THEN LET n == ExtensionField(x, "p_std_buffer", e3) IN
                IF n.status = "ok" THEN Marked(n.bytes, {1}) ELSE n
           ELSE FieldNotPresent
      /\ r["stream_id_extension"] =
           IF Has(x, "extension_2") THEN Extension2(x, "stream_id_extension")
                                    ELSE FieldNotPresent
      /\ r["tref"] = IF Has(x, "extension_2") THEN Extension2(x, "tref") ELSE FieldNotPresent
  BY InExtensionIs DEF ExtensionRead, Then
<1>2. \A lo, hi : From(FieldNotPresent, x, lo, hi) /\ From(NotEnoughData, x, lo, hi)
  BY NoBytes, NothingIsFrom
<1>3. /\ e1 \in Nat /\ e2 \in Nat \cup {NoOffset} /\ e3 \in Nat \cup {NoOffset}
      /\ e4 \in Nat \cup {NoOffset}
      /\ Has(x, "pack_header") /\ e2 # NoOffset => e1 + 1 <= e2
  BY <1>0, ExtensionOffsets
<1>4. /\ Has(x, "private_data") => 17 <= e1
      /\ ~Has(x, "pack_header") => e2 = e1
      /\ e3 = IF e2 = NoOffset \/ ~Has(x, "sequence_counter") THEN e2 ELSE e2 + 2
      /\ e4 = IF e3 = NoOffset \/ ~Has(x, "p_std_buffer") THEN e3 ELSE e3 + 2
  BY PesSizes DEF PrivateDataEnd, PRIVATE_DATA_SIZE, PackHeaderEnd, SequenceCounterEnd,
                  PStdBufferEnd, Past
<1>5. From(r["private_data"], x, 0, e1)
  <2>1. CASE ~Has(x, "private_data")
    BY <1>1, <1>2, <2>1
  <2>2. CASE Has(x, "private_data")
    <3> DEFINE start == 1
               to == start + PesSize("private_data")
    <3>1. to = 17 /\ start \in Nat /\ PesSize("private_data") \in Nat
      BY PesSizes
    <3> HIDE DEF start
    <3>2. From(ExtensionField(x, "private_data", start), x, start, to)
      BY <1>0, <3>1, ExtensionFieldIsFrom
    <3>3. r["private_data"] = ExtensionField(x, "private_data", start)
      BY <1>1, <2>2 DEF start
    <3> HIDE DEF to, e1
    <3>4. From(r["private_data"], x, start, to)
      BY <3>2, <3>3
    <3>5. to \in Nat /\ to <= e1
      BY <1>4, <2>2, <3>1
    <3>6. QED BY <1>3, <3>1, <3>4, <3>5, FromWithin
  <2>3. QED BY <2>1, <2>2
<1>6. CASE e2 = NoOffset
  <2>1. e3 = NoOffset /\ e4 = NoOffset /\ Has(x, "pack_header")
    <3>1. e1 # NoOffset
      BY <1>3 DEF NoOffset
    <3> HIDE DEF e1, e2, e3, e4
    <3>2. QED BY <1>4, <1>6, <3>1
  <2>2. /\ PackHeader(x) = NotEnoughData
        /\ ExtensionField(x, "sequence_counter", e2) = NotEnoughData
        /\ ExtensionField(x, "p_std_buffer", e3) = NotEnoughData
        /\ Extension2(x, "stream_id_extension") = NotEnoughData
        /\ Extension2(x, "tref") = NotEnoughData
    BY <1>6, <2>1 DEF PackHeader, ExtensionField, Extension2
  <2> DEFINE G == InExtension \ {"private_data"}
  <2> HIDE DEF e1, e2, e3, e4, e5, e6
  <2>3. \A f \in G : r[f].bytes = << >>
    <3>1. /\ r["pack_header"].bytes = << >> /\ r["sequence_counter"].bytes = << >>
          /\ r["p_std_buffer"].bytes = << >> /\ r["stream_id_extension"].bytes = << >>
          /\ r["tref"].bytes = << >>
      BY <1>1, <2>2, NoBytes, ResultIs
    <3>2. QED BY <3>1, InExtensionIs
  <2>4. Laid(G, r, x, e1, e1)
    BY <2>3, NothingIsLaid
  <2>5. InExtension = {"private_data"} \cup G
    BY InExtensionIs
  <2> HIDE DEF G
  <2>6. Laid({"private_data"} \cup G, r, x, 0, e1)
    BY <1>3, <1>5, <2>4, FirstLaid
  <2>7. Laid(InExtension, r, x, 0, e1)
    BY <2>5, <2>6
  <2>8. QED BY <1>0, <1>3, <2>7, LaidWithin
<1>7. CASE e2 # NoOffset
  <2>1. /\ e2 \in Nat /\ e3 \in Nat /\ e4 \in Nat /\ e5 \in Nat /\ e6 \in Nat
        /\ e1 <= e2 /\ e2 <= e3 /\ e3 <= e4 /\ e4 <= e5 /\ e5 <= e6
        /\ Has(x, "pack_header") => e1 + 1 <= e2
        /\ Has(x, "sequence_counter") => e3 = e2 + 2
        /\ Has(x, "p_std_buffer") => e4 = e3 + 2
    <3>1. NoOffset = -1
      BY DEF NoOffset
    <3> HIDE DEF e1, e2, e3, e4
    <3>2. e2 \in Nat /\ e1 <= e2 /\ (Has(x, "pack_header") => e1 + 1 <= e2)
      BY <1>3, <1>4, <1>7
    <3>3. /\ e3 \in Nat /\ e2 <= e3 /\ e3 # NoOffset
          /\ Has(x, "sequence_counter") => e3 = e2 + 2
      BY <1>4, <1>7, <3>1, <3>2
    <3>4. e4 \in Nat /\ e3 <= e4 /\ (Has(x, "p_std_buffer") => e4 = e3 + 2)
      BY <1>4, <3>1, <3>3
    <3>5. QED BY <3>2, <3>3, <3>4
  <2>2. From(r["pack_header"], x, e1, e2)
    <3>1. CASE ~Has(x, "pack_header")
      BY <1>1, <1>2, <3>1
    <3>2. CASE Has(x, "pack_header")
      <4> DEFINE from == e1 + 1
                 all == ExtensionSlice(x, from, e2)
      <4>1. r["pack_header"] = IF all.status = "ok"
                               THEN IF Len(all.bytes) < PACK_HEADER_SIZE THEN NotEnoughData
                                    ELSE Marked(all.bytes, 1..5)
                               ELSE all
        BY <1>1, <1>7, <3>2 DEF PackHeader, Then
      <4>2. from \in Nat /\ e1 <= from /\ from <= e2
        BY <1>3, <2>1, <3>2
      <4> HIDE DEF from, e1, e2
      <4>3. From(all, x, from, e2)
        BY <1>0, <2>1, <4>2, SliceIsFrom
      <4> HIDE DEF all
      <4>4. From(Marked(all.bytes, 1..5), x, from, e2)
        BY <4>3, MarkedIsFrom
      <4>5. From(r["pack_header"], x, from, e2)
        BY <1>2, <4>1, <4>3, <4>4
      <4>6. QED BY <1>3, <2>1, <4>2, <4>5, FromWithin
    <3>3. QED BY <3>1, <3>2
  <2>3. From(r["sequence_counter"], x, e2, e3)
    <3>1. CASE ~Has(x, "sequence_counter")
      BY <1>1, <1>2, <3>1
    <3>2. CASE Has(x, "sequence_counter")
      <4> DEFINE n == ExtensionField(x, "sequence_counter", e2)
      <4> HIDE DEF e2, e3
      <4>1. PesSize("sequence_counter") = 2 /\ e3 = e2 + 2
        BY <2>1, <3>2, PesSizes
      <4>2. From(n, x, e2, e2 + PesSize("sequence_counter"))
        BY <1>0, <2>1, <4>1, ExtensionFieldIsFrom
      <4>3. From(n, x, e2, e3)
        BY <4>1, <4>2
      <4>4. From(Marked(n.bytes, {1, 2}), x, e2, e3)
        BY <4>3, MarkedIsFrom
      <4>5. r["sequence_counter"] = IF n.status = "ok" THEN Marked(n.bytes, {1, 2}) ELSE n
        BY <1>1, <3>2
      <4> HIDE DEF n
      <4>6. QED BY <4>3, <4>4, <4>5
    <3>3. QED BY <3>1, <3>2
  <2>4. From(r["p_std_buffer"], x, e3, e4)
    <3>1. CASE ~Has(x, "p_std_buffer")
      BY <1>1, <1>2, <3>1
    <3>2. CASE Has(x, "p_std_buffer")
      <4> DEFINE n == ExtensionField(x, "p_std_buffer", e3)
      <4> HIDE DEF e3, e4
      <4>1. PesSize("p_std_buffer") = 2 /\ e4 = e3 + 2
        BY <2>1, <3>2, PesSizes
      <4>2. From(n, x, e3, e3 + PesSize("p_std_buffer"))
        BY <1>0, <2>1, <4>1, ExtensionFieldIsFrom
      <4>3. From(n, x, e3, e4)
        BY <4>1, <4>2
      <4>4. From(Marked(n.bytes, {1}), x, e3, e4)
        BY <4>3, MarkedIsFrom
      <4>5. r["p_std_buffer"] = IF n.status = "ok" THEN Marked(n.bytes, {1}) ELSE n
        BY <1>1, <3>2
      <4> HIDE DEF n
      <4>6. QED BY <4>3, <4>4, <4>5
    <3>3. QED BY <3>1, <3>2
  <2>5. From(r["stream_id_extension"], x, e4, e5) /\ From(r["tref"], x, e5, e6)
    <3> HIDE DEF e4
    <3>1. e4 = PStdBufferEnd(x)
      BY DEF e4
    <3>2. /\ From(Extension2(x, "stream_id_extension"), x, e4, e5)
          /\ From(Extension2(x, "tref"), x, e5, e6)
      BY <1>0, <2>1, <3>1, Extension2IsFrom
    <3>3. QED BY <1>1, <1>2, <3>2
  <2> DEFINE F1 == {"tref"} \cup {}
             F2 == {"stream_id_extension"} \cup F1
             F3 == {"p_std_buffer"} \cup F2
             F4 == {"sequence_counter"} \cup F3
             F5 == {"pack_header"} \cup F4
             F6 == {"private_data"} \cup F5
  <2>6. InExtension = F6
    BY InExtensionIs
  <2> HIDE DEF e1, e2, e3, e4, e5, e6
  <2>7. e4 <= e6 /\ e3 <= e6 /\ e2 <= e6 /\ e1 <= e6
    BY <1>3, <2>1
  <2>8. Laid({}, r, x, e6, e6)
    BY DEF Laid
  <2>9. Laid(F1, r, x, e5, e6)
    BY <2>1, <2>5, <2>8, FirstLaid
  <2> HIDE DEF F1
  <2>10. Laid(F2, r, x, e4, e6)
    BY <2>1, <2>5, <2>7, <2>9, FirstLaid
  <2> HIDE DEF F2
  <2>11. Laid(F3, r, x, e3, e6)
    BY <2>1, <2>4, <2>7, <2>10, FirstLaid
  <2> HIDE DEF F3
  <2>12. Laid(F4, r, x, e2, e6)
    BY <2>1, <2>3, <2>7, <2>11, FirstLaid
  <2> HIDE DEF F4
  <2>13. Laid(F5, r, x, e1, e6)
    BY <1>3, <2>1, <2>2, <2>7, <2>12, FirstLaid
  <2> HIDE DEF F5
  <2>14. Laid(F6, r, x, 0, e6)
    BY <1>3, <1>5, <2>1, <2>7, <2>13, FirstLaid
  <2> HIDE DEF F6
  <2>15. QED BY <1>0, <2>1, <2>6, <2>14, LaidWithin
<1>8. QED BY <1>6, <1>7

LEMMA FieldAtIsFrom ==
  ASSUME NEW pes \in Seq(Bytes), NEW field, PesSize(field) \in Nat, NEW start \in Nat
  PROVE  From(FieldAt(pes, field, start), pes, start, start + SizeIf(pes, field))
<1> DEFINE to == start + PesSize(field)
           end == start + SizeIf(pes, field)
<1>1. CASE ~PesHas(pes, field)
  BY <1>1, NoBytes, NothingIsFrom DEF FieldAt
<1>2. CASE PesHas(pes, field)
  <2>1. to \in Nat /\ start <= to
    OBVIOUS
  <2>2. FieldAt(pes, field, start) = HeaderSlice(pes, start, to) /\ end = to
    BY <1>2 DEF FieldAt, SizeIf
  <2> HIDE DEF to, end
  <2>3. From(HeaderSlice(pes, start, to), pes, start, to)
    BY <2>1, SliceIsFrom
  <2>4. QED BY <2>2, <2>3 DEF end
<1>3. QED BY <1>1, <1>2

(* The place between PTS and DTS.                                          *)
PtsEnd(pes) == 3 + IF PesHas(pes, "pts") THEN 5 ELSE 0

LEMMA PtsDtsIsFrom ==
  ASSUME NEW pes, Apart(pes)
  PROVE  /\ From(PtsDts(pes, "pts"), pes, 0, PtsEnd(pes))
         /\ From(PtsDts(pes, "dts"), pes, PtsEnd(pes), PtsDtsEnd(pes))
         /\ PtsEnd(pes) \in Nat /\ PtsEnd(pes) <= PtsDtsEnd(pes)
<1> DEFINE end == PtsDtsEnd(pes)
           mid == PtsEnd(pes)
           both == HeaderSlice(pes, 3, end)
<1>0. pes \in Seq(Bytes)
  BY DEF Apart
<1>1. /\ end \in Nat /\ mid \in Nat /\ 3 <= mid /\ mid <= end
      /\ PesHas(pes, "pts") => mid = 8
      /\ PesHas(pes, "pts") /\ PesHas(pes, "dts") => end = 13
  BY DEF PtsDtsEnd, PtsEnd, FIXED_HEADER_SIZE, TIMESTAMP_SIZE
<1>2. ASSUME NEW field \in {"pts", "dts"}, ~PesHas(pes, "pts") \/ ~PesHas(pes, field)
      PROVE  \A lo, hi : From(PtsDts(pes, field), pes, lo, hi)
  <2>1. PtsDts(pes, field).bytes = << >>
    BY <1>2, NoBytes DEF PtsDts
  <2>2. QED BY <2>1, NothingIsFrom
<1>3. ASSUME NEW field \in {"pts", "dts"}, PesHas(pes, "pts"), PesHas(pes, field),
             NEW at \in Nat, at = IF field = "pts" THEN 0 ELSE 5
      PROVE  From(PtsDts(pes, field), pes, 3 + at, 8 + at)
  <2> DEFINE to == at + 5
             one == Index(both.bytes, at, to)
  <2>1. PtsDts(pes, field) = IF both.status = "ok"
                             THEN IF one.status = "ok" THEN TimestampFromBytes(one.bytes)
                                                       ELSE one
                             ELSE both
    BY <1>3 DEF PtsDts, Then, FIXED_HEADER_SIZE, TIMESTAMP_SIZE
  <2>2. to \in Nat /\ at <= to
    OBVIOUS
  <2>3. \A lo, hi : both.status # "ok" => From(both, pes, lo, hi)
    <3> DEFINE from == 3
    <3>1. from \in Nat /\ from <= end
      BY <1>1
    <3> HIDE DEF from, end
    <3>2. From(HeaderSlice(pes, from, end), pes, from, end)
      BY <1>0, <1>1, <3>1, SliceIsFrom
    <3>3. both = HeaderSlice(pes, from, end)
      BY DEF from
    <3> HIDE DEF both
    <3>4. both.status # "ok" => both.bytes = << >>
      BY <3>2, <3>3 DEF From
    <3>5. QED BY <3>4, NothingIsFrom
  <2>4. ASSUME both.status = "ok"
        PROVE  From(one, pes, 3 + at, 8 + at)
    <3> DEFINE from == 3
               x == SubSeq(pes, from + 1, end)
               a == from + at
               c == 8 + at
    <3>1. from \in Nat /\ from <= end /\ a \in Nat /\ c \in Nat
      BY <1>1
    <3>2. both = Ok(x) /\ end <= Len(pes)
      <4> HIDE DEF end
      <4>1. end <= Len(pes)
        BY <2>4, ResultIs, LenProperties, <1>0, <1>1 DEF HeaderSlice
      <4> HIDE DEF x
      <4>2. HeaderSlice(pes, from, end) = Index(pes, from, end)
        BY <2>4, ResultIs DEF HeaderSlice, from
      <4>3. Index(pes, from, end) = Ok(x)
        BY <1>0, <1>1, <3>1, <4>1, IndexIs DEF x
      <4>4. QED BY <4>1, <4>2, <4>3 DEF from
    <3>3. both.bytes = x
      BY <3>2, ResultIs
    <3>4. /\ x \in Seq(Bytes) /\ Len(x) = end - from
          /\ \A i \in 1..(end - from) : x[i] = pes[from + i]
      <4> HIDE DEF end, from
      <4>1. QED BY <1>0, <1>1, <3>1, <3>2, SubSeqIs
    <3>5. From(one, x, at, to)
      <4> HIDE DEF x, to
      <4>1. From(Index(x, at, to), x, at, to)
        BY <2>2, <3>4, SliceIsFrom
      <4>2. QED BY <3>3, <4>1
    <3>6. ASSUME NEW p \in 1..Len(x), at < p, p <= to
          PROVE  from + p \in 1..Len(pes) /\ a < from + p /\ from + p <= c /\ x[p] = pes[from + p]
      <4>1. Len(pes) \in Nat /\ p \in Nat /\ from = 3 /\ to = at + 5
        BY <1>0, LenProperties
      <4>2. p \in 1..(end - from)
        BY <3>4
      <4>3. x[p] = pes[from + p]
        BY <3>4, <4>2
      <4> HIDE DEF x, end
      <4>4. QED BY <1>1, <3>2, <3>4, <3>6, <4>1, <4>2, <4>3
    <3> HIDE DEF one, x, from, a, c, to, end
    <3>7. \A k \in 1..Len(one.bytes) :
            \E p \in 1..Len(pes) : a < p /\ p <= c /\ one.bytes[k] = pes[p]
      <4>1. TAKE k \in 1..Len(one.bytes)
      <4>2. PICK p \in 1..Len(x) : at < p /\ p <= to /\ one.bytes[k] = x[p]
        BY <3>5 DEF From
      <4>3. QED BY <3>6, <4>2
    <3>8. From(one, pes, a, c)
      BY <3>5, <3>7 DEF From
    <3>9. QED BY <3>8 DEF a, c, from
  <2> HIDE DEF one, both, to
  <2> DEFINE a == 3 + at
             c == 8 + at
  <2>5. both.status = "ok" => From(one, pes, a, c) /\ From(TimestampFromBytes(one.bytes), pes, a, c)
    <3>1. both.status = "ok" => From(one, pes, a, c)
      BY <2>4
    <3> HIDE DEF a, c
    <3>2. QED BY <3>1, MarkedIsFrom
  <2> HIDE DEF a, c
  <2>6. From(PtsDts(pes, field), pes, a, c)
    BY <2>1, <2>3, <2>5
  <2>7. QED BY <2>6 DEF a, c
<1>4. From(PtsDts(pes, "pts"), pes, 0, mid)
  <2>1. CASE ~PesHas(pes, "pts")
    BY <1>2, <2>1
  <2>2. CASE PesHas(pes, "pts")
    <3> DEFINE z == 0
    <3>1. From(PtsDts(pes, "pts"), pes, 3 + z, 8 + z)
      BY <1>3, <2>2
    <3>2. From(PtsDts(pes, "pts"), pes, 3, 8)
      BY <3>1
    <3> HIDE DEF mid
    <3>3. QED BY <1>1, <2>2, <3>2, FromWithin
  <2>3. QED BY <2>1, <2>2
<1>5. From(PtsDts(pes, "dts"), pes, mid, end)
  <2>1. CASE ~PesHas(pes, "pts") \/ ~PesHas(pes, "dts")
    BY <1>2, <2>1
  <2>2. CASE PesHas(pes, "pts") /\ PesHas(pes, "dts")
    <3> DEFINE z == 5
    <3>1. From(PtsDts(pes, "dts"), pes, 3 + z, 8 + z)
      BY <1>3, <2>2
    <3>2. From(PtsDts(pes, "dts"), pes, 8, 13)
      BY <3>1
    <3>3. QED BY <1>1, <2>2, <3>2
  <2>3. QED BY <2>1, <2>2
<1>6. QED BY <1>1, <1>4, <1>5

LEMMA InExtensionLaid ==
  ASSUME NEW pes, Apart(pes), Checked(pes),
         NEW r, \A f \in InExtension : r[f] = ParsedRead(pes, f)
  PROVE  Laid(InExtension, r, pes, PesCrcEnd(pes), HeaderEnd(pes))
<1> DEFINE from == PesCrcEnd(pes)
           to == HeaderEnd(pes)
           ext == PesExtension(pes)
           x == SubSeq(pes, from + 1, to)
<1>0. pes \in Seq(Bytes) /\ from \in Nat /\ to \in Nat /\ from <= to /\ to <= Len(pes)
  BY HeaderOffsets DEF Checked
<1>1. \A f \in InExtension :
        r[f] = IF ext.status = "ok" THEN ExtensionRead(ext.bytes, f) ELSE ext
  BY DEF InExtension, ParsedRead, Then, ExtensionFlags, Extension2Fields
<1>2. \/ ext.bytes = << >> /\ ext.status # "ok"
      \/ ext = Ok(x)
  <2> DEFINE head == HeaderSlice(pes, from, to)
  <2>1. ext = IF ~PesHas(pes, "pes_extension") THEN FieldNotPresent
              ELSE IF head.status = "ok"
              THEN IF head.bytes = << >> THEN NotEnoughData ELSE Ok(head.bytes)
              ELSE head
    BY DEF PesExtension, Then
  <2>2. head = Index(pes, from, to)
    <3>1. ~(to > HeaderEnd(pes)) /\ ~(to > Len(pes))
      BY <1>0, LenProperties
    <3>2. QED BY <3>1 DEF HeaderSlice
  <2> HIDE DEF from, to
  <2>3. head = Ok(x)
    BY <1>0, <2>2, IndexIs
  <2> HIDE DEF head, x, ext
  <2>4. QED BY <2>1, <2>3, NoBytes, ResultIs
<1>3. CASE ext.bytes = << >> /\ ext.status # "ok"
  <2>1. \A f \in InExtension : r[f].bytes = << >>
    BY <1>1, <1>3
  <2>2. QED BY <2>1, NothingIsLaid
<1>4. CASE ext = Ok(x)
  <2>1. \A f \in InExtension : r[f] = ExtensionRead(x, f)
    BY <1>1, <1>4, ResultIs
  <2> HIDE DEF ext, from, to
  <2>2. Apart(x) /\ (Laid(InExtension, r, x, 0, Len(x)) => Laid(InExtension, r, pes, from, to))
    BY <1>0, LaidInPart
  <2> HIDE DEF x
  <2>3. Laid(InExtension, r, pes, from, to)
    BY <2>1, <2>2, ExtensionLaid
  <2>4. QED BY <2>3 DEF from, to
<1>5. QED BY <1>2, <1>3, <1>4

LEMMA ContentsLaid ==
  ASSUME NEW pes, Apart(pes), Checked(pes),
         NEW r, \A f \in PesFields : r[f] = ParsedRead(pes, f), r["payload"] = Payload(pes)
  PROVE  Laid(PesFields \cup {"payload"}, r, pes, 0, Len(pes))
<1> DEFINE t0 == PtsEnd(pes)
           t1 == PtsDtsEnd(pes)
           t2 == EscrEnd(pes)
           t3 == EsRateEnd(pes)
           t4 == DsmTrickModeEnd(pes)
           t5 == AdditionalCopyInfoEnd(pes)
           t6 == PesCrcEnd(pes)
           body == HeaderEnd(pes)
           end == Len(pes)
<1>0. /\ pes \in Seq(Bytes) /\ end \in Nat /\ body \in Nat /\ t6 <= body /\ body <= end
  BY LenProperties DEF Checked
<1>1. /\ t1 \in Nat /\ t2 \in Nat /\ t3 \in Nat /\ t4 \in Nat /\ t5 \in Nat /\ t6 \in Nat
  BY HeaderOffsets
<1>2. /\ t2 = t1 + SizeIf(pes, "escr") /\ t3 = t2 + SizeIf(pes, "es_rate")
      /\ t4 = t3 + SizeIf(pes, "dsm_trick_mode")
      /\ t5 = t4 + SizeIf(pes, "additional_copy_info") /\ t6 = t5 + SizeIf(pes, "crc")
  BY DEF EscrEnd, EsRateEnd, DsmTrickModeEnd, AdditionalCopyInfoEnd, PesCrcEnd
<1>3. /\ SizeIf(pes, "escr") \in Nat /\ SizeIf(pes, "es_rate") \in Nat
      /\ SizeIf(pes, "dsm_trick_mode") \in Nat
      /\ SizeIf(pes, "additional_copy_info") \in Nat /\ SizeIf(pes, "crc") \in Nat
  BY PesSizes DEF SizeIf
<1>4. PesFields = {"pts", "dts", "escr", "es_rate", "dsm_trick_mode", "additional_copy_info",
                   "crc"} \cup InExtension
  BY DEF PesFields, PesFlags, InExtension
<1>5. /\ r["pts"] = PtsDts(pes, "pts") /\ r["dts"] = PtsDts(pes, "dts")
      /\ r["escr"] = FieldAt(pes, "escr", t1) /\ r["es_rate"] = FieldAt(pes, "es_rate", t2)
      /\ r["dsm_trick_mode"] = FieldAt(pes, "dsm_trick_mode", t3)
      /\ r["additional_copy_info"] =
           LET n == FieldAt(pes, "additional_copy_info", t4) IN
           IF n.status = "ok" THEN Marked(n.bytes, {1}) ELSE n
      /\ r["crc"] = FieldAt(pes, "crc", t5)
  BY <1>4 DEF ParsedRead, Then
<1>6. Laid(InExtension, r, pes, t6, body)
  BY <1>4, InExtensionLaid
<1>7. From(r["payload"], pes, body, end)
  <2>1. r["payload"] = Index(pes, body, end)
    BY DEF Payload
  <2> HIDE DEF body, end
  <2>2. QED BY <1>0, <2>1, SliceIsFrom
<1>8. From(r["pts"], pes, 0, t0) /\ From(r["dts"], pes, t0, t1) /\ t0 \in Nat /\ t0 <= t1
  BY <1>5, PtsDtsIsFrom
<1> HIDE DEF t0, t1, t2, t3, t4, t5, t6, body, end
<1>9. /\ t1 <= t2 /\ t2 <= t3 /\ t3 <= t4 /\ t4 <= t5 /\ t5 <= t6
  BY <1>1, <1>2, <1>3
<1>10. From(r["escr"], pes, t1, t2)
  <2>1. From(FieldAt(pes, "escr", t1), pes, t1, t1 + SizeIf(pes, "escr"))
    BY <1>0, <1>1, PesSizes, FieldAtIsFrom
  <2>2. QED BY <1>2, <1>5, <2>1
<1>11. From(r["es_rate"], pes, t2, t3)
  <2>1. From(FieldAt(pes, "es_rate", t2), pes, t2, t2 + SizeIf(pes, "es_rate"))
    BY <1>0, <1>1, PesSizes, FieldAtIsFrom
  <2>2. QED BY <1>2, <1>5, <2>1
<1>12. From(r["dsm_trick_mode"], pes, t3, t4)
  <2>1. From(FieldAt(pes, "dsm_trick_mode", t3), pes, t3, t3 + SizeIf(pes, "dsm_trick_mode"))
    BY <1>0, <1>1, PesSizes, FieldAtIsFrom
  <2>2. QED BY <1>2, <1>5, <2>1
<1>13. From(r["additional_copy_info"], pes, t4, t5)
  <2> DEFINE n == FieldAt(pes, "additional_copy_info", t4)
  <2>1. From(n, pes, t4, t4 + SizeIf(pes, "additional_copy_info"))
    BY <1>0, <1>1, PesSizes, FieldAtIsFrom
  <2>2. r["additional_copy_info"] = IF n.status = "ok" THEN Marked(n.bytes, {1}) ELSE n
    BY <1>5
  <2> HIDE DEF n
  <2>3. From(n, pes, t4, t5)
    BY <1>2, <2>1
  <2>4. From(Marked(n.bytes, {1}), pes, t4, t5)
    BY <2>3, MarkedIsFrom
  <2>5. QED BY <2>2, <2>3, <2>4
<1>14. From(r["crc"], pes, t5, t6)
  <2>1. From(FieldAt(pes, "crc", t5), pes, t5, t5 + SizeIf(pes, "crc"))
    BY <1>0, <1>1, PesSizes, FieldAtIsFrom
  <2>2. QED BY <1>2, <1>5, <2>1
<1> DEFINE F0 == InExtension \cup {"payload"}
           F1 == {"crc"} \cup F0
           F2 == {"additional_copy_info"} \cup F1
           F3 == {"dsm_trick_mode"} \cup F2
           F4 == {"es_rate"} \cup F3
           F5 == {"escr"} \cup F4
           F6 == {"dts"} \cup F5
           F7 == {"pts"} \cup F6
<1>15. PesFields \cup {"payload"} = F7
  BY <1>4
<1>16. t6 <= end /\ t5 <= end /\ t4 <= end /\ t3 <= end /\ t2 <= end /\ t1 <= end /\ t0 <= end
  BY <1>0, <1>1, <1>8, <1>9
<1>17. Laid({"payload"}, r, pes, body, end)
  BY <1>7 DEF Laid
<1>18. Laid(F0, r, pes, t6, end)
  BY <1>0, <1>1, <1>6, <1>17, LaidBehind
<1> HIDE DEF F0
<1>19. Laid(F1, r, pes, t5, end)
  BY <1>0, <1>1, <1>9, <1>14, <1>16, <1>18, FirstLaid
<1> HIDE DEF F1
<1>20. Laid(F2, r, pes, t4, end)
  BY <1>0, <1>1, <1>9, <1>13, <1>16, <1>19, FirstLaid
<1> HIDE DEF F2
<1>21. Laid(F3, r, pes, t3, end)
  BY <1>0, <1>1, <1>9, <1>12, <1>16, <1>20, FirstLaid
<1> HIDE DEF F3
<1>22. Laid(F4, r, pes, t2, end)
  BY <1>0, <1>1, <1>9, <1>11, <1>16, <1>21, FirstLaid
<1> HIDE DEF F4
<1>23. Laid(F5, r, pes, t1, end)
  BY <1>0, <1>1, <1>9, <1>10, <1>16, <1>22, FirstLaid
<1> HIDE DEF F5
<1>24. Laid(F6, r, pes, t0, end)
  BY <1>0, <1>1, <1>8, <1>16, <1>23, FirstLaid
<1> HIDE DEF F6
<1>25. Laid(F7, r, pes, 0, end)
  BY <1>0, <1>1, <1>8, <1>16, <1>24, FirstLaid
<1> HIDE DEF F7
<1>26. QED BY <1>15, <1>25 DEF end

LEMMA PesLaid ==
  ASSUME NEW s, Apart(s),
         NEW r, \A f \in PesFields : r[f] = PesRead(s, f), r["payload"] = PesPayload(s)
  PROVE  Laid(PesFields \cup {"payload"}, r, s, 0, Len(s))
<1> DEFINE header == PesHeaderFromBytes(s)
           rest == SubSeq(s, 7, Len(s))
           parsed == ParsedContents(rest)
           All == PesFields \cup {"payload"}
<1>0. s \in Seq(Bytes) /\ Len(s) \in Nat
  BY LenProperties DEF Apart
<1>1. CASE header.status \notin {"ok", "panic"}
  <2>1. header.bytes = << >>
    BY <1>1, NoBytes, ResultIs DEF PesHeaderFromBytes
  <2>2. \A f \in All : r[f] = header
    BY <1>1 DEF PesRead, PesPayload, WithContents, Then
  <2> HIDE DEF header, All
  <2>3. \A f \in All : r[f].bytes = << >>
    BY <2>1, <2>2
  <2>4. QED BY <2>3, NothingIsLaid DEF All
<1>2. CASE /\ header = Ok(s) /\ Len(s) >= 6
           /\ Index(s, 6, Len(s)) = Ok(rest) /\ rest \in Seq(Bytes)
  <2>1. /\ \A f \in PesFields : r[f] =
             IF IsParsed(s)
             THEN IF parsed.status = "ok" THEN ParsedRead(parsed.bytes, f) ELSE parsed
             ELSE FieldNotPresent
        /\ r["payload"] =
             IF IsParsed(s)
             THEN IF parsed.status = "ok" THEN Payload(parsed.bytes) ELSE parsed
             ELSE Ok(rest)
    BY <1>2, ResultIs DEF PesRead, PesPayload, WithContents, Then
  <2>2. /\ Apart(rest)
        /\ Laid(All, r, rest, 0, Len(rest)) => Laid(All, r, s, 6, Len(s))
    <3> DEFINE from == 6
               to == Len(s)
    <3>1. from \in Nat /\ to \in Nat /\ from <= to /\ to <= Len(s)
      BY <1>0, <1>2
    <3>2. rest = SubSeq(s, from + 1, to)
      OBVIOUS
    <3> HIDE DEF rest, from, to, All
    <3>3. /\ Apart(rest)
          /\ Laid(All, r, rest, 0, Len(rest)) => Laid(All, r, s, from, to)
      BY <3>1, <3>2, LaidInPart
    <3>4. QED BY <3>3 DEF from, to
  <2> HIDE DEF rest
  <2>3. Laid(All, r, rest, 0, Len(rest))
    <3>1. CASE ~IsParsed(s)
      <4>1. (\A f \in PesFields : r[f].bytes = << >>) /\ r["payload"] = Ok(rest)
        BY <2>1, <3>1, NoBytes
      <4> DEFINE z == 0
                 n == Len(rest)
      <4>2. z \in Nat /\ n \in Nat /\ z <= n
        BY <1>2, LenProperties
      <4>3. \A k \in 1..Len(rest) : z < k /\ k <= n
        BY <4>2
      <4> HIDE DEF z, n
      <4>4. From(r["payload"], rest, z, n)
        BY <4>1, <4>3, ResultIs DEF From
      <4>5. Laid({"payload"}, r, rest, z, n)
        BY <4>4 DEF Laid
      <4>6. Laid(PesFields, r, rest, z, z)
        BY <4>1, NothingIsLaid
      <4>7. Laid(PesFields \cup {"payload"}, r, rest, z, n)
        BY <2>2, <4>2, <4>5, <4>6, LaidBehind
      <4>8. QED BY <4>7 DEF z, n
    <3>2. CASE IsParsed(s) /\ parsed.status \notin {"ok", "panic"}
      <4>1. parsed.bytes = << >>
        BY <3>2, NoBytes, ResultIs DEF ParsedContents
      <4> HIDE DEF parsed
      <4>2. \A f \in All : r[f].bytes = << >>
        BY <2>1, <3>2, <4>1
      <4>3. QED BY <4>2, NothingIsLaid
    <3>3. CASE IsParsed(s) /\ parsed.status = "ok" /\ parsed.bytes = rest /\ Checked(rest)
      <4>1. (\A f \in PesFields : r[f] = ParsedRead(rest, f)) /\ r["payload"] = Payload(rest)
        BY <2>1, <3>3
      <4>2. QED BY <2>2, <3>3, <4>1, ContentsLaid
    <3>4. QED BY <1>2, <3>1, <3>2, <3>3, ParsedContentsIs
  <2> HIDE DEF All
  <2> DEFINE six == 6
             n == Len(s)
  <2>4. six \in Nat /\ 0 <= six /\ Laid(All, r, s, six, n) /\ n \in Nat
    BY <1>0, <2>2, <2>3
  <2> HIDE DEF six, n
  <2>5. Laid(All, r, s, 0, Len(s))
    BY <1>0, <2>4, LaidWithin
  <2>6. QED BY <2>5 DEF All
<1>3. QED BY <1>0, <1>1, <1>2, RestSafe

LEMMA NumberedIsApart ==
  ASSUME buf \in Seq(Bytes)
  PROVE  Apart(Numbered)
<1> DEFINE n == Len(buf)
           s == Numbered
<1>1. n \in Nat
  BY LenProperties
<1>2. ASSUME NEW i \in 1..n PROVE [buf[i] EXCEPT !.nr = i] \in Bytes
  <2>1. buf[i] \in Bytes
    BY <1>2, ElementOfSeq
  <2>2. i \in Nat
    BY <1>1
  <2>3. QED BY <2>1, <2>2 DEF Bytes
<1>3. s \in [1..n -> Bytes] /\ \A i \in 1..n : s[i] = [buf[i] EXCEPT !.nr = i]
  BY <1>2 DEF Numbered
<1>4. \A i \in 1..n : s[i].nr = i
  <2>1. TAKE i \in 1..n
  <2>2. buf[i] \in Bytes
    BY ElementOfSeq
  <2>3. QED BY <1>3, <2>2 DEF Bytes
<1> HIDE DEF s, n
<1>5. s \in Seq(Bytes) /\ Len(s) = n
  <2>1. s \in Seq(Bytes)
    BY <1>1, <1>3, SeqDef
  <2>2. QED BY <1>1, <1>3, <2>1, LenProperties
<1>6. Apart(s)
  BY <1>4, <1>5 DEF Apart
<1>7. QED BY <1>6 DEF s

(* Even if lengths and flags contradict each other, no byte of a header is *)
(* taken for part of two fields, and none of the payload for part of one:  *)
(* each accessor starts where the one before it, in the order of the       *)
(* standard, ends.                                                         *)
THEOREM NoByteIsReadTwice == FieldsSpec => []EachByteReadOnce
<1>1. FieldsInv => EachByteReadOnce
  <2> SUFFICES ASSUME FieldsInv PROVE EachByteReadOnce
    OBVIOUS
  <2>1. Apart(Numbered) /\ syntax \in {"adaptation", "pes"}
    BY NumberedIsApart DEF FieldsInv, Original, OriginalAF, OriginalPes
  <2> DEFINE s == Numbered
             r == [f \in Fields |-> ReadFrom(s, f)]
  <2>2. Laid(Fields, r, s, 0, Len(s))
    <3>1. CASE syntax = "adaptation"
      <4>1. Fields = AFFields
        BY <3>1 DEF Fields
      <4>2. \A f \in AFFields : r[f] = AFRead(s, f)
        BY <3>1, <4>1 DEF ReadFrom
      <4> HIDE DEF r, s
      <4>3. Laid(AFFields, r, s, 0, Len(s))
        BY <2>1, <4>2, AFLaid DEF s
      <4>4. QED BY <4>1, <4>3
    <3>2. CASE syntax = "pes"
      <4>1. Fields = PesFields \cup {"payload"} /\ "payload" \notin PesFields
        BY <3>2 DEF Fields, PesFields, PesFlags, ExtensionFlags, Extension2Fields
      <4>2. (\A f \in PesFields : r[f] = PesRead(s, f)) /\ r["payload"] = PesPayload(s)
        BY <3>2, <4>1 DEF ReadFrom
      <4> HIDE DEF r, s
      <4>3. Laid(PesFields \cup {"payload"}, r, s, 0, Len(s))
        BY <2>1, <4>2, PesLaid DEF s
      <4>4. QED BY <4>1, <4>3
    <3>3. QED BY <2>1, <3>1, <3>2
  <2>3. \A f \in Fields : Places(f) = NumbersOf(r[f])
    BY DEF Places, NumbersOf
  <2> HIDE DEF r, s
  <2>4. \A f, g \in Fields : f # g => Places(f) \cap Places(g) = {}
    BY <2>2, <2>3 DEF Laid
  <2>5. QED BY <2>4 DEF EachByteReadOnce
<1>2. QED BY <1>1, FieldsInvHolds, PTL
================================================================================
