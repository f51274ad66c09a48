-------------------------------- MODULE BitFields --------------------------------
(***************************************************************************)
(* The accessors of headers and fields that are packed into bits: packet   *)
(* header, section headers, table entries, descriptors, clock references,  *)
(* timestamps and rates (packet.rs, psi/, pes.rs, descriptor/).            *)
(*                                                                         *)
(* The value of a header is the set of its bits that are 1, each a pair of *)
(* a field's name and the bit's number.  An accessor is a set of terms:    *)
(* `(buf[byte] & mask) << shift' is a record of the field, byte, the bits  *)
(* lo..hi of the mask, and shift, which is negative for >>.                *)
(***************************************************************************)
EXTENDS Integers, SequencesExt

Term(name, byte, lo, hi, shift) ==
  [name |-> name, byte |-> byte, mask |-> lo..hi, shift |-> shift]
Whole(name, byte, shift) == Term(name, byte, 0, 7, shift)
Flag(name, byte, bit) == Term(name, byte, bit, bit, -bit)

(* The terms of an accessor that looks at a slice of the header.           *)
From(offset, terms) == {[term EXCEPT !.byte = @ + offset] : term \in terms}

-------------------------------------------------------------------------------
(* Transport stream packets.                                               *)

AdaptationControl == {Flag("has_adaptation_field", 3, 5), Flag("has_payload", 3, 4)}

TransportScramblingControl == {Term("scheme", 3, 6, 7, -6)}

PacketHeader ==
  {Flag("transport_error_indicator", 1, 7), Flag("payload_unit_start_indicator", 1, 6),
   Flag("transport_priority", 1, 5), Term("pid", 1, 0, 4, 8), Whole("pid", 2, 0),
   Term("continuity_counter", 3, 0, 3, 0)}
    \cup AdaptationControl \cup TransportScramblingControl

AdaptationFieldFlags ==
  {Flag("discontinuity_indicator", 0, 7), Flag("random_access_indicator", 0, 6),
   Flag("elementary_stream_priority_indicator", 0, 5), Flag("pcr_flag", 0, 4),
   Flag("opcr_flag", 0, 3), Flag("splicing_point_flag", 0, 2),
   Flag("transport_private_data_flag", 0, 1),
   Flag("adaptation_field_extension_flag", 0, 0)}

ClockRefFromSlice ==
  {Whole("base", 0, 25), Whole("base", 1, 17), Whole("base", 2, 9),
   Whole("base", 3, 1), Term("base", 4, 7, 7, -7),
   Term("extension", 4, 0, 0, 8), Whole("extension", 5, 0)}

AdaptationFieldExtensionFlags ==
  {Flag("ltw_flag", 0, 7), Flag("piecewise_rate_flag", 0, 6),
   Flag("seamless_splice_flag", 0, 5)}

LtwOffset ==
  {Flag("ltw_valid_flag", 0, 7), Term("ltw_offset", 0, 0, 6, 8), Whole("ltw_offset", 1, 0)}

PiecewiseRate ==
  {Term("rate", 0, 0, 5, 16), Whole("rate", 1, 8), Whole("rate", 2, 0)}

-------------------------------------------------------------------------------
(* Sections, tables and descriptors.                                       *)

SectionCommonHeader ==
  {Whole("table_id", 0, 0), Flag("section_syntax_indicator", 1, 7),
   Flag("private_indicator", 1, 6), Term("section_length", 1, 0, 3, 8),
   Whole("section_length", 2, 0)}

TableSyntaxHeader ==
  {Whole("id", 0, 8), Whole("id", 1, 0), Term("version", 2, 1, 5, -1),
   Flag("current_next_indicator", 2, 0), Whole("section_number", 3, 0),
   Whole("last_section_number", 4, 0)}

ProgramDescriptor ==
  {Whole("program_number", 0, 8), Whole("program_number", 1, 0),
   Term("pid", 2, 0, 4, 8), Whole("pid", 3, 0)}

PmtHeader ==
  {Term("pcr_pid", 0, 0, 4, 8), Whole("pcr_pid", 1, 0),
   Term("program_info_length", 2, 0, 3, 8), Whole("program_info_length", 3, 0)}

StreamInfo ==
  {Whole("stream_type", 0, 0), Term("elementary_pid", 1, 0, 4, 8),
   Whole("elementary_pid", 2, 0), Term("es_info_length", 3, 0, 3, 8),
   Whole("es_info_length", 4, 0)}

AvcVideoDescriptor ==
  {Whole("profile_idc", 0, 0), Flag("constraint_set0", 1, 7),
   Flag("constraint_set1", 1, 6), Flag("constraint_set2", 1, 5),
   Flag("constraint_set3", 1, 4), Flag("constraint_set4", 1, 3),
   Flag("constraint_set5", 1, 2), Term("avc_compatible_flags", 1, 0, 1, 0),
   Whole("level_idc", 2, 0), Flag("avc_still_present", 3, 7),
   Flag("avc_24_hour_picture_flag", 3, 6),
   Flag("frame_packing_sei_not_present_flag", 3, 5)}

MaximumBitrate ==
  {Term("maximum_bitrate", 0, 0, 5, 16), Whole("maximum_bitrate", 1, 8),
   Whole("maximum_bitrate", 2, 0)}

-------------------------------------------------------------------------------
(* PES packets.                                                            *)

PesFixedHeader ==
  {Whole("start_code_prefix", 0, 16), Whole("start_code_prefix", 1, 8),
   Whole("start_code_prefix", 2, 0), Whole("stream_id", 3, 0),
   Whole("pes_packet_length", 4, 8), Whole("pes_packet_length", 5, 0)}

PesParsedFlags ==
  {Term("check_bits", 0, 6, 7, -6), Flag("pes_priority", 0, 3),
   Flag("data_alignment_indicator", 0, 2), Flag("copyright", 0, 1),
   Flag("original_or_copy", 0, 0), Term("pts_dts_flags", 1, 6, 7, -6),
   Flag("escr_flag", 1, 5), Flag("esrate_flag", 1, 4), Flag("dsm_trick_mode_flag", 1, 3),
   Flag("additional_copy_info_flag", 1, 2), Flag("pes_crc_flag", 1, 1),
   Flag("pes_extension_flag", 1, 0), Whole("pes_header_data_len", 2, 0)}

(* from_bytes(), and the prefix that from_pts_bytes() and check_prefix()   *)
(* compare.                                                                *)
TimestampFields ==
  {Term("prefix", 0, 4, 7, -4), Term("val", 0, 1, 3, 29), Whole("val", 1, 22),
   Term("val", 2, 1, 7, 14), Whole("val", 3, 7), Term("val", 4, 1, 7, -1)}

(* splice_type is `dat[0] >> 4', and dts_next_au is a Timestamp.           *)
SeamlessSplice == TimestampFields

(* Mutant: the bits below the marker keep the shift of those above.        *)
EscrUnshifted ==
  {Term("base", 0, 3, 5, 27), Term("base", 0, 0, 1, 27), Whole("base", 1, 20),
   Term("base", 2, 3, 7, 12), Term("base", 2, 0, 1, 12), Whole("base", 3, 5),
   Term("base", 4, 3, 7, -3), Term("extension", 4, 0, 1, 7),
   Term("extension", 5, 1, 7, -1)}

Escr ==
  {Term("base", 0, 3, 5, 27), Term("base", 0, 0, 1, 28), Whole("base", 1, 20),
   Term("base", 2, 3, 7, 12), Term("base", 2, 0, 1, 13), Whole("base", 3, 5),
   Term("base", 4, 3, 7, -3), Term("extension", 4, 0, 1, 7),
   Term("extension", 5, 1, 7, -1)}

EsRate == {Term("es_rate", 0, 0, 6, 15), Whole("es_rate", 1, 7), Term("es_rate", 2, 1, 7, -1)}

(* trick_mode_control chooses what its other five bits mean.               *)
TrickModeControl == Term("trick_mode_control", 0, 5, 7, -5)
FastMotion ==
  {TrickModeControl, Term("field_id", 0, 3, 4, -3), Flag("intra_slice_refresh", 0, 2),
   Term("frequency_truncation", 0, 0, 1, 0)}
SlowMotion == {TrickModeControl, Term("rep_cntrl", 0, 0, 4, 0)}
FreezeFrame ==
  {TrickModeControl, Term("field_id", 0, 3, 4, -3), Term("reserved_data", 0, 0, 2, 0)}

AdditionalCopyInfo == {Term("additional_copy_info", 0, 0, 6, 0)}

PreviousPesPacketCrc == {Whole("crc", 0, 8), Whole("crc", 1, 0)}

PesExtensionFlags ==
  {Flag("pes_private_data_flag", 0, 7), Flag("pack_header_field_flag", 0, 6),
   Flag("program_packet_sequence_counter_flag", 0, 5), Flag("p_std_buffer_flag", 0, 4),
   Flag("pes_extension_flag_2", 0, 3)}

PackHeaderFields ==
  From(4, Escr)
    \cup {Whole("program_mux_rate", 10, 14), Whole("program_mux_rate", 11, 6),
          Term("program_mux_rate", 12, 2, 7, -2), Term("pack_stuffing_length", 13, 0, 2, 0)}

ProgramPacketSequenceCounter ==
  {Term("counter", 0, 0, 6, 0), Flag("mpeg1_mpeg2_identifier", 1, 6),
   Term("original_stuff_length", 1, 0, 5, 0)}

PStdBuffer ==
  {Flag("buffer_scale", 0, 5), Term("buffer_size", 0, 0, 4, 8), Whole("buffer_size", 1, 0)}

StreamIdExtension ==
  {Flag("stream_id_extension_flag", 0, 7), Term("stream_id_extension", 0, 0, 6, 0)}

-------------------------------------------------------------------------------
(* The layouts of ISO/IEC 13818-1: what each bit stands for, the first bit *)
(* being the highest of the first byte.                                    *)

Bits(name, high, low) == [n \in 1..(high - low + 1) |-> <<name, high + 1 - n>>]
Width(name, width) == Bits(name, width - 1, 0)
Marker == <<"marker", 0>>                              (* always 1         *)
Unused(width) == [n \in 1..width |-> <<"unused", 0>>]  (* of any value     *)

Flags(names) == [n \in DOMAIN names |-> <<names[n], 0>>]

Marked33(name) ==
  Bits(name, 32, 30) \o <<Marker>> \o Bits(name, 29, 15) \o <<Marker>>
    \o Bits(name, 14, 0) \o <<Marker>>

Layouts == [
  packet |-> Unused(8)
    \o Flags(<<"transport_error_indicator", "payload_unit_start_indicator",
               "transport_priority">>)
    \o Width("pid", 13) \o Width("scheme", 2)
    \o Flags(<<"has_adaptation_field", "has_payload">>) \o Width("continuity_counter", 4),
  adaptation_field |-> Flags(<<"discontinuity_indicator", "random_access_indicator",
    "elementary_stream_priority_indicator", "pcr_flag", "opcr_flag",
    "splicing_point_flag", "transport_private_data_flag",
    "adaptation_field_extension_flag">>),
  clock_reference |-> Width("base", 33) \o Unused(6) \o Width("extension", 9),
  adaptation_extension |->
    Flags(<<"ltw_flag", "piecewise_rate_flag", "seamless_splice_flag">>) \o Unused(5),
  ltw |-> Flags(<<"ltw_valid_flag">>) \o Width("ltw_offset", 15),
  piecewise_rate |-> Unused(2) \o Width("rate", 22),
  section |-> Width("table_id", 8)
    \o Flags(<<"section_syntax_indicator", "private_indicator">>) \o Unused(2)
    \o Width("section_length", 12),
  table |-> Width("id", 16) \o Unused(2) \o Width("version", 5)
    \o Flags(<<"current_next_indicator">>) \o Width("section_number", 8)
    \o Width("last_section_number", 8),
  program |-> Width("program_number", 16) \o Unused(3) \o Width("pid", 13),
  pmt |-> Unused(3) \o Width("pcr_pid", 13) \o Unused(4)
    \o Width("program_info_length", 12),
  stream |-> Width("stream_type", 8) \o Unused(3) \o Width("elementary_pid", 13)
    \o Unused(4) \o Width("es_info_length", 12),
  avc_video |-> Width("profile_idc", 8)
    \o Flags(<<"constraint_set0", "constraint_set1", "constraint_set2",
               "constraint_set3", "constraint_set4", "constraint_set5">>)
    \o Width("avc_compatible_flags", 2) \o Width("level_idc", 8)
    \o Flags(<<"avc_still_present", "avc_24_hour_picture_flag",
               "frame_packing_sei_not_present_flag">>) \o Unused(5),
  maximum_bitrate |-> Unused(2) \o Width("maximum_bitrate", 22),
  pes |-> Width("start_code_prefix", 24) \o Width("stream_id", 8)
    \o Width("pes_packet_length", 16),
  pes_flags |-> Width("check_bits", 2) \o Unused(2)
    \o Flags(<<"pes_priority", "data_alignment_indicator", "copyright",
               "original_or_copy">>)
    \o Width("pts_dts_flags", 2)
    \o Flags(<<"escr_flag", "esrate_flag", "dsm_trick_mode_flag",
               "additional_copy_info_flag", "pes_crc_flag", "pes_extension_flag">>)
    \o Width("pes_header_data_len", 8),
  timestamp |-> Width("prefix", 4) \o Marked33("val"),
  escr |-> Unused(2) \o Marked33("base") \o Width("extension", 9) \o <<Marker>>,
  es_rate |-> <<Marker>> \o Width("es_rate", 22) \o <<Marker>>,
  fast_motion |-> Width("trick_mode_control", 3) \o Width("field_id", 2)
    \o Flags(<<"intra_slice_refresh">>) \o Width("frequency_truncation", 2),
  slow_motion |-> Width("trick_mode_control", 3) \o Width("rep_cntrl", 5),
  freeze_frame |-> Width("trick_mode_control", 3) \o Width("field_id", 2)
    \o Width("reserved_data", 3),
  copy_info |-> <<Marker>> \o Width("additional_copy_info", 7),
  crc |-> Width("crc", 16),
  pes_extension |-> Flags(<<"pes_private_data_flag", "pack_header_field_flag",
    "program_packet_sequence_counter_flag", "p_std_buffer_flag">>)
    \o Flags(<<"pes_extension_flag_2">>) \o Unused(3),
  pack |-> Unused(34) \o Marked33("base") \o Width("extension", 9) \o <<Marker>>
    \o Width("program_mux_rate", 22) \o <<Marker, Marker>> \o Unused(5)
    \o Width("pack_stuffing_length", 3),
  sequence_counter |-> <<Marker>> \o Width("counter", 7) \o <<Marker>>
    \o Flags(<<"mpeg1_mpeg2_identifier">>) \o Width("original_stuff_length", 6),
  p_std |-> Unused(1) \o <<Marker>> \o Flags(<<"buffer_scale">>)
    \o Width("buffer_size", 13),
  stream_id_extension |-> Flags(<<"stream_id_extension_flag">>)
    \o Width("stream_id_extension", 7)]

Formats == DOMAIN Layouts

Terms == [
  packet |-> PacketHeader, adaptation_field |-> AdaptationFieldFlags,
  clock_reference |-> ClockRefFromSlice,
  adaptation_extension |-> AdaptationFieldExtensionFlags, ltw |-> LtwOffset,
  piecewise_rate |-> PiecewiseRate, section |-> SectionCommonHeader,
  table |-> TableSyntaxHeader, program |-> ProgramDescriptor, pmt |-> PmtHeader,
  stream |-> StreamInfo, avc_video |-> AvcVideoDescriptor,
  maximum_bitrate |-> MaximumBitrate, pes |-> PesFixedHeader,
  pes_flags |-> PesParsedFlags, timestamp |-> SeamlessSplice, escr |-> Escr,
  es_rate |-> EsRate, fast_motion |-> FastMotion, slow_motion |-> SlowMotion,
  freeze_frame |-> FreezeFrame, copy_info |-> AdditionalCopyInfo,
  crc |-> PreviousPesPacketCrc, pes_extension |-> PesExtensionFlags,
  pack |-> PackHeaderFields, sequence_counter |-> ProgramPacketSequenceCounter,
  p_std |-> PStdBuffer, stream_id_extension |-> StreamIdExtension]

ValueBits(format) == ToSet(Layouts[format]) \ {Marker, Unused(1)[1]}

(* The header as bytes, each of which is the set of its bits that are 1.   *)
Encoded(format, value, unused) ==
  LET layout == Layouts[format]
      IsOne(n) == \/ layout[n] = Marker
                  \/ layout[n] = Unused(1)[1] /\ unused
                  \/ layout[n] \in value
  IN [byte \in 0..(Len(layout) \div 8 - 1) |->
        {bit \in 0..7 : IsOne(8 * byte + 8 - bit)}]

(* What the accessors make of the bytes.                                   *)
Decoded(bytes, terms) ==
  UNION {{<<term.name, bit + term.shift>> : bit \in bytes[term.byte] \cap term.mask}
           : term \in terms}

-------------------------------------------------------------------------------
VARIABLE number   (* the format and value of a header that is written      *)

(* Headers of which one bit is 1, or all but one: what an accessor makes   *)
(* of a bit does not depend on the other bits.                             *)
NumberInit ==
  \E format \in Formats, unused \in BOOLEAN :
    \E bit \in ValueBits(format) :
      number = [format |-> format, value |-> {bit}, unused |-> unused]

Complement ==
  number' = [number EXCEPT !.value = ValueBits(number.format) \ @]

(* All that an accessor looks at is in the header, and is what was written.*)
ReadsBack(format, value, unused) ==
  LET bytes == Encoded(format, value, unused) IN
  /\ \A term \in Terms[format] : term.byte \in DOMAIN bytes
  /\ Decoded(bytes, Terms[format]) = value

(* Every field is read back as it was written, whatever the fields and the *)
(* unused bits around it: each mask and shift puts each bit where the      *)
(* layout has it, and takes none of a neighbour's.  In particular no value *)
(* exceeds what the constructors Pid::new(), ContinuityCounter::new(),     *)
(* ClockRef::from_parts() and EsRate::new() assert.                        *)
NumbersReadBack == ReadsBack(number.format, number.value, number.unused)
=================================================================================
