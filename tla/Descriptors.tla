------------------------------- MODULE Descriptors -------------------------------
(***************************************************************************)
(* Which type reads a descriptor (descriptor/mod.rs), what its constructor *)
(* demands, and which bytes its accessors index without looking at the     *)
(* length again (descriptor/).                                             *)
(*                                                                         *)
(* The first byte of a descriptor holds its tag, as the only member of its *)
(* `flags', the second its length.                                         *)
(***************************************************************************)
EXTENDS Slices, BitFields

DESCRIPTOR_HEADER == 2

Tag(descriptor) == CHOOSE tag \in descriptor[1].flags : TRUE

(* The TAG of the types that have one.                                     *)
REGISTRATION == 5
ISO_639_LANGUAGE == 10
MAXIMUM_BITRATE == 14
AVC_VIDEO == 40

(* CoreDescriptors: all other tags from 0 to 255 belong to variants that   *)
(* hold an UnknownDescriptor.                                              *)
CoreDescriptors(tag) ==
  CASE tag = REGISTRATION     -> "Registration"
    [] tag = ISO_639_LANGUAGE -> "ISO639Language"
    [] tag = MAXIMUM_BITRATE  -> "MaximumBitrate"
    [] tag = AVC_VIDEO        -> "AvcVideo"
    [] OTHER                  -> "Unknown"

(* descriptor_len() of a payload                                           *)
DescriptorLen(payload, least) ==
  IF Len(payload) < least THEN NotEnoughData ELSE Ok(payload)

(* new() of each type; three of the five check something, two of those the *)
(* tag.                                                                    *)
RegistrationNew(tag, payload) == DescriptorLen(payload, 4)
Iso639LanguageNew(tag, payload) == Ok(payload)
UnknownNew(tag, payload) == Ok(payload)
MaximumBitrateNew(tag, payload) ==
  IF tag # MAXIMUM_BITRATE THEN Err("panic") ELSE DescriptorLen(payload, 3)

(* Mutant: one byte too few is enough.                                     *)
AvcVideoNewShort(tag, payload) ==
  IF tag # AVC_VIDEO THEN Err("panic") ELSE DescriptorLen(payload, 3)
AvcVideoNew(tag, payload) ==
  IF tag # AVC_VIDEO THEN Err("panic") ELSE DescriptorLen(payload, 4)

Construct(tag, payload) ==
  CASE CoreDescriptors(tag) = "Registration"   -> RegistrationNew(tag, payload)
    [] CoreDescriptors(tag) = "ISO639Language" -> Iso639LanguageNew(tag, payload)
    [] CoreDescriptors(tag) = "MaximumBitrate" -> MaximumBitrateNew(tag, payload)
    [] CoreDescriptors(tag) = "AvcVideo"       -> AvcVideoNew(tag, payload)
    [] CoreDescriptors(tag) = "Unknown"        -> UnknownNew(tag, payload)

(* from_bytes() of what descriptor_enum!{} defines: the descriptor         *)
(* without what follows it in the slice, or an error.                      *)
DescriptorFromBytes(slice) ==
  IF Len(slice) < DESCRIPTOR_HEADER THEN Err("BufferTooShort")
  ELSE LET end == DESCRIPTOR_HEADER + slice[2].len IN
       IF end > Len(slice) THEN Err("TagTooLongForBuffer")
       ELSE Then(Construct(Tag(slice), SubSeq(slice, DESCRIPTOR_HEADER + 1, end)),
                 LAMBDA payload : Ok(SubSeq(slice, 1, end)))

-------------------------------------------------------------------------------
(* The bytes, counted from the start of the payload, that the accessors    *)
(* index; what they slice off the end has any length.                      *)

BytesOf(terms) == {term.byte : term \in terms}

(* format_identifier() takes four bytes.                                   *)
FormatIdentifier == 0..3

(* code() takes three, and audio_type() the fourth.                        *)
LanguageBytes == 0..3

AccessedBytes(tag) ==
  CASE CoreDescriptors(tag) = "Registration"   -> FormatIdentifier
    [] CoreDescriptors(tag) = "MaximumBitrate" -> BytesOf(MaximumBitrate)
    [] CoreDescriptors(tag) = "AvcVideo"       -> BytesOf(AvcVideoDescriptor)
    [] OTHER                                   -> {}
===================================================================================
