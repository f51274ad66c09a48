------------------------------- MODULE PesHeader -------------------------------
(***************************************************************************)
(* The header of a PES packet (pes.rs): PesHeader, and PesParsedContents   *)
(* and PesExtension with their optional fields.  Unlike those of an        *)
(* adaptation field, the fields must end before PES_header_data_length     *)
(* says that the payload starts.                                           *)
(***************************************************************************)
EXTENDS Slices

PesFlags == {"pts", "dts", "escr", "es_rate", "dsm_trick_mode",
             "additional_copy_info", "crc", "pes_extension"}
ExtensionFlags == {"private_data", "pack_header", "sequence_counter",
                   "p_std_buffer", "extension_2"}

(* The last byte before TREF says which of two fields extension 2 holds.   *)
Extension2Flags == {"stream_id_extension_flag", "tref_extension_flag"}
Extension2Fields == {"stream_id_extension", "tref"}

FIXED_HEADER_SIZE == 3
PRIVATE_DATA_SIZE == 16
PACK_HEADER_SIZE == 14

PesSize(field) ==
  CASE field \in {"pts", "dts", "tref"} -> TIMESTAMP_SIZE
    [] field = "escr" -> 6
    [] field = "es_rate" -> 3
    [] field \in {"dsm_trick_mode", "additional_copy_info",
                  "stream_id_extension"} -> 1
    [] field \in {"crc", "sequence_counter", "p_std_buffer"} -> 2
    [] field = "private_data" -> PRIVATE_DATA_SIZE
    [] field = "pack_header" -> PACK_HEADER_SIZE

Has(buf, flag) == flag \in buf[1].flags

-------------------------------------------------------------------------------
(* PesParsedContents: a byte with check bits, one with the flags, and      *)
(* PES_header_data_length.                                                 *)

PesHas(pes, flag) == flag \in pes[2].flags

HeaderEnd(pes) == FIXED_HEADER_SIZE + pes[3].len

HeaderSlice(pes, from, to) ==
  IF to > HeaderEnd(pes) \/ to > Len(pes) THEN NotEnoughData
                                          ELSE Index(pes, from, to)

(* Mutant: DTS counted even if there is none.                              *)
PtsDtsEndTen(pes) ==
  FIXED_HEADER_SIZE + IF PesHas(pes, "pts") THEN 2 * TIMESTAMP_SIZE ELSE 0

(* A DTS without a PTS is invalid and counts as nothing.                   *)
PtsDtsEnd(pes) ==
  FIXED_HEADER_SIZE + IF ~PesHas(pes, "pts") THEN 0
                      ELSE IF PesHas(pes, "dts") THEN 2 * TIMESTAMP_SIZE
                      ELSE TIMESTAMP_SIZE

SizeIf(pes, field) == IF PesHas(pes, field) THEN PesSize(field) ELSE 0

EscrEnd(pes) == PtsDtsEnd(pes) + SizeIf(pes, "escr")
EsRateEnd(pes) == EscrEnd(pes) + SizeIf(pes, "es_rate")
DsmTrickModeEnd(pes) == EsRateEnd(pes) + SizeIf(pes, "dsm_trick_mode")
AdditionalCopyInfoEnd(pes) ==
  DsmTrickModeEnd(pes) + SizeIf(pes, "additional_copy_info")
PesCrcEnd(pes) == AdditionalCopyInfoEnd(pes) + SizeIf(pes, "crc")

(* from_bytes()                                                            *)
ParsedContents(buf) ==
  IF Len(buf) < FIXED_HEADER_SIZE THEN NotEnoughData
  ELSE IF ~buf[1].ok THEN Err("InvalidCheckBits")
  ELSE IF HeaderEnd(buf) > Len(buf) THEN Err("HeaderLengthExceedsBuffer")
  ELSE IF PesCrcEnd(buf) > HeaderEnd(buf) THEN Err("HeaderDataLengthMismatch")
  ELSE Ok(buf)

(* pts_dts(): the slice is that of both timestamps, each is then parsed.   *)
(* Mutant: a bad marker in one timestamp refuses both.                     *)
PtsDtsTogether(pes, field) ==
  IF ~PesHas(pes, "pts")
  THEN IF PesHas(pes, "dts") THEN Err("PtsDtsFlagsInvalid") ELSE FieldNotPresent
  ELSE IF ~PesHas(pes, field) THEN FieldNotPresent
  ELSE LET both == HeaderSlice(pes, FIXED_HEADER_SIZE, PtsDtsEnd(pes))
           at == IF field = "pts" THEN 0 ELSE TIMESTAMP_SIZE IN
       Then(both, LAMBDA bytes :
         Then(Marked(bytes, {n \in 1..Len(bytes) : n % TIMESTAMP_SIZE \in {0, 1, 3}}),
              LAMBDA all : Index(all, at, at + TIMESTAMP_SIZE)))

PtsDts(pes, field) ==
  IF ~PesHas(pes, "pts")
  THEN IF PesHas(pes, "dts") THEN Err("PtsDtsFlagsInvalid") ELSE FieldNotPresent
  ELSE IF ~PesHas(pes, field) THEN FieldNotPresent
  ELSE LET both == HeaderSlice(pes, FIXED_HEADER_SIZE, PtsDtsEnd(pes))
           at == IF field = "pts" THEN 0 ELSE TIMESTAMP_SIZE IN
       Then(both, LAMBDA bytes :
         Then(Index(bytes, at, at + TIMESTAMP_SIZE), TimestampFromBytes))

(* The field that starts where another ends.                               *)
FieldAt(pes, field, start) ==
  IF PesHas(pes, field) THEN HeaderSlice(pes, start, start + PesSize(field))
                        ELSE FieldNotPresent

(* Mutant: the extension may go on beyond the header data.                 *)
PesExtensionToEnd(pes) ==
  IF ~PesHas(pes, "pes_extension") THEN FieldNotPresent
  ELSE Then(Index(pes, PesCrcEnd(pes), Len(pes)),
            LAMBDA ext : IF ext = << >> THEN NotEnoughData ELSE Ok(ext))

PesExtension(pes) ==
  IF ~PesHas(pes, "pes_extension") THEN FieldNotPresent
  ELSE Then(HeaderSlice(pes, PesCrcEnd(pes), HeaderEnd(pes)),
            LAMBDA ext : IF ext = << >> THEN NotEnoughData ELSE Ok(ext))

Payload(pes) == Index(pes, HeaderEnd(pes), Len(pes))

(* PesHeader::from_bytes() and contents(): a start code, a stream id and   *)
(* pes_packet_length; the stream id tells whether there are more fields.   *)
PesHeaderFromBytes(buf) ==
  IF Len(buf) < 6 THEN NotEnoughData
  ELSE IF \E n \in 1..3 : ~buf[n].ok THEN Err("InvalidStartCode")
  ELSE Ok(buf)

IsParsed(pes) == "parsed" \in pes[4].flags

WithContents(buf, ParsedUse(_), PayloadUse(_)) ==
  Then(PesHeaderFromBytes(buf), LAMBDA header :
    Then(Index(header, 6, Len(header)), LAMBDA rest :
      IF IsParsed(header) THEN Then(ParsedContents(rest), ParsedUse)
                          ELSE PayloadUse(rest)))

-------------------------------------------------------------------------------
(* PesExtension                                                            *)

PrivateDataEnd(ext) ==
  1 + IF Has(ext, "private_data") THEN PRIVATE_DATA_SIZE ELSE 0

(* An offset found in the buffer may be missing: Result<usize, _>.         *)
NoOffset == -1

PackHeaderEnd(ext) ==
  LET start == PrivateDataEnd(ext) IN
  IF ~Has(ext, "pack_header") THEN start
  ELSE IF start >= Len(ext) THEN NoOffset
  ELSE start + 1 + ext[start + 1].len

(* The end of a field that follows the one ending at `start'.              *)
Past(ext, field, start) ==
  IF start = NoOffset \/ ~Has(ext, field) THEN start ELSE start + PesSize(field)

SequenceCounterEnd(ext) == Past(ext, "sequence_counter", PackHeaderEnd(ext))
PStdBufferEnd(ext) == Past(ext, "p_std_buffer", SequenceCounterEnd(ext))

ExtensionSlice(ext, from, to) ==
  IF to > Len(ext) THEN NotEnoughData ELSE Index(ext, from, to)

ExtensionField(ext, field, start) ==
  IF start = NoOffset THEN NotEnoughData
                      ELSE ExtensionSlice(ext, start, start + PesSize(field))

(* PackHeader::from_bytes(): a start code and two marker bits.             *)
PackHeader(ext) ==
  IF PackHeaderEnd(ext) = NoOffset THEN NotEnoughData
  ELSE Then(ExtensionSlice(ext, PrivateDataEnd(ext) + 1, PackHeaderEnd(ext)),
            LAMBDA bytes : IF Len(bytes) < PACK_HEADER_SIZE THEN NotEnoughData
                           ELSE Marked(bytes, 1..5))

(* A byte with a marker and a length that is not used, a byte that tells   *)
(* which field there is, and TREF.                                         *)
Extension2(ext, field) ==
  LET start == PStdBufferEnd(ext) IN
  IF start = NoOffset \/ start >= Len(ext) THEN NotEnoughData
  ELSE IF ~ext[start + 1].ok THEN MarkerBitNotSet
  ELSE IF start + 1 >= Len(ext) THEN NotEnoughData
  ELSE LET flags == ext[start + 2].flags IN
       IF field = "stream_id_extension"
       THEN IF "stream_id_extension_flag" \in flags THEN FieldNotPresent
            ELSE Index(ext, start + 1, start + 2)
       ELSE IF "stream_id_extension_flag" \notin flags
               \/ "tref_extension_flag" \in flags THEN FieldNotPresent
       ELSE Then(ExtensionSlice(ext, start + 2, start + 2 + TIMESTAMP_SIZE),
                 TimestampFromBytes)

ExtensionRead(ext, field) ==
  IF field \in Extension2Fields
  THEN IF Has(ext, "extension_2") THEN Extension2(ext, field) ELSE FieldNotPresent
  ELSE IF ~Has(ext, field) THEN FieldNotPresent
  ELSE CASE field = "private_data" -> ExtensionField(ext, field, 1)
         [] field = "pack_header" -> PackHeader(ext)
         [] field = "sequence_counter" ->
              Then(ExtensionField(ext, field, PackHeaderEnd(ext)),
                   LAMBDA bytes : Marked(bytes, {1, 2}))
         [] field = "p_std_buffer" ->
              Then(ExtensionField(ext, field, SequenceCounterEnd(ext)),
                   LAMBDA bytes : Marked(bytes, {1}))

(* What an application gets for a field of parsed contents.                *)
ParsedRead(pes, field) ==
  CASE field \in {"pts", "dts"} -> PtsDts(pes, field)
    [] field = "escr" -> FieldAt(pes, field, PtsDtsEnd(pes))
    [] field = "es_rate" -> FieldAt(pes, field, EscrEnd(pes))
    [] field = "dsm_trick_mode" -> FieldAt(pes, field, EsRateEnd(pes))
    [] field = "additional_copy_info" ->
         Then(FieldAt(pes, field, DsmTrickModeEnd(pes)),
              LAMBDA bytes : Marked(bytes, {1}))
    [] field = "crc" -> FieldAt(pes, field, AdditionalCopyInfoEnd(pes))
    [] OTHER -> Then(PesExtension(pes), LAMBDA ext : ExtensionRead(ext, field))

PesRead(buf, field) ==
  WithContents(buf, LAMBDA pes : ParsedRead(pes, field),
                    LAMBDA rest : FieldNotPresent)

PesPayload(buf) == WithContents(buf, Payload, Ok)

PesFields == (PesFlags \ {"pes_extension"})
               \cup (ExtensionFlags \ {"extension_2"}) \cup Extension2Fields

-------------------------------------------------------------------------------
(* A multiplexer writes the fields one after the other.                    *)

WrittenExtension2(set) ==
  CASE "stream_id_extension" \in set ->
         Field("extension 2 marker", 1) \o Field("stream_id_extension", 1)
    [] "tref" \in set ->
         Field("extension 2 marker", 1)
           \o FlagsByte("extension 2 flags", {"stream_id_extension_flag"})
           \o Field("tref", TIMESTAMP_SIZE)
    [] OTHER ->
         Field("extension 2 marker", 1)
           \o FlagsByte("extension 2 flags", Extension2Flags)

WrittenPesExtension(set) ==
  FlagsByte("extension flags", set \cap ExtensionFlags)
    \o OptionalField(set, "private_data", PRIVATE_DATA_SIZE)
    \o (IF "pack_header" \in set
        THEN LengthByte("pack_field_length", PACK_HEADER_SIZE)
               \o Field("pack_header", PACK_HEADER_SIZE)
        ELSE << >>)
    \o OptionalField(set, "sequence_counter", PesSize("sequence_counter"))
    \o OptionalField(set, "p_std_buffer", PesSize("p_std_buffer"))
    \o (IF "extension_2" \in set THEN WrittenExtension2(set) ELSE << >>)

WrittenPesFields(set) ==
  OptionalField(set, "pts", TIMESTAMP_SIZE)
    \o OptionalField(set, "dts", TIMESTAMP_SIZE)
    \o OptionalField(set, "escr", PesSize("escr"))
    \o OptionalField(set, "es_rate", PesSize("es_rate"))
    \o OptionalField(set, "dsm_trick_mode", PesSize("dsm_trick_mode"))
    \o OptionalField(set, "additional_copy_info", PesSize("additional_copy_info"))
    \o OptionalField(set, "crc", PesSize("crc"))
    \o (IF "pes_extension" \in set THEN WrittenPesExtension(set) ELSE << >>)

WrittenPes(set, stuffing, payload) ==
  LET fields == WrittenPesFields(set) IN
  Field("start_code", 3) \o FlagsByte("stream_id", set \cap {"parsed"})
    \o Field("pes_packet_length", 2)
    \o (IF "parsed" \in set
        THEN Field("check bits", 1) \o FlagsByte("flags", set \cap PesFlags)
               \o LengthByte("PES_header_data_length", Len(fields) + stuffing)
               \o fields \o Field("stuffing", stuffing)
        ELSE << >>)
    \o Field("payload", payload)
================================================================================
