---------------------------- MODULE AdaptationField ----------------------------
(***************************************************************************)
(* The optional fields of a packet's adaptation field (packet.rs): each    *)
(* accessor computes the offset of its field from the flags, and from the  *)
(* length bytes of the fields before it.                                   *)
(***************************************************************************)
EXTENDS Slices

PCR_SIZE == 6

AFFlags == {"pcr", "opcr", "splice", "private", "extension"}
AFEFlags == {"ltw", "piecewise", "seamless"}

-------------------------------------------------------------------------------
(* AdaptationField                                                         *)

AFHas(af, flag) == flag \in af[1].flags

(* Mutants: no check against the end of the buffer; what there is of a     *)
(* field is returned.                                                      *)
SliceUnchecked(buf, from, to) == Index(buf, from, to)
SliceClipped(buf, from, to) ==
  IF from > Len(buf) THEN NotEnoughData
  ELSE Index(buf, from, IF to > Len(buf) THEN Len(buf) ELSE to)

Slice(buf, from, to) ==
  IF to > Len(buf) THEN NotEnoughData ELSE Index(buf, from, to)

OpcrOffset(af) == 1 + IF AFHas(af, "pcr") THEN PCR_SIZE ELSE 0

SpliceCountdownOffset(af) ==
  OpcrOffset(af) + IF AFHas(af, "opcr") THEN PCR_SIZE ELSE 0

TransportPrivateDataOffset(af) ==
  SpliceCountdownOffset(af) + IF AFHas(af, "splice") THEN 1 ELSE 0

(* A length byte at `offset' and the bytes it counts.                      *)
Counted(af, offset) ==
  Then(Slice(af, offset, offset + 1),
       LAMBDA head : Slice(af, offset + 1, offset + 1 + head[1].len))

TransportPrivateData(af) == Counted(af, TransportPrivateDataOffset(af))

(* The length byte of the private data is read even if the data is cut.    *)
AdaptationFieldExtension(af) ==
  LET off == TransportPrivateDataOffset(af) IN
  IF AFHas(af, "private")
  THEN Then(Slice(af, off, off + 1),
            LAMBDA head : Counted(af, off + head[1].len + 1))
  ELSE Counted(af, off)

-------------------------------------------------------------------------------
(* AdaptationFieldExtension                                                *)

PiecewiseRateOffset(ext) == 1 + IF AFHas(ext, "ltw") THEN 2 ELSE 0

SeamlessSpliceOffset(ext) ==
  PiecewiseRateOffset(ext) + IF AFHas(ext, "piecewise") THEN 3 ELSE 0

AFERead(ext, field) ==
  IF ext = << >> THEN NotEnoughData
  ELSE IF ~AFHas(ext, field) THEN FieldNotPresent
  ELSE CASE field = "ltw" -> Slice(ext, 1, 3)
         [] field = "piecewise" ->
              Slice(ext, PiecewiseRateOffset(ext), PiecewiseRateOffset(ext) + 3)
         [] field = "seamless" ->
              Then(Slice(ext, SeamlessSpliceOffset(ext),
                         SeamlessSpliceOffset(ext) + 5), TimestampFromBytes)

(* What an application gets for a field of an adaptation field, or of the  *)
(* extension in it.                                                        *)
AFRead(af, field) ==
  IF field \in AFEFlags
  THEN IF AFHas(af, "extension")
       THEN Then(AdaptationFieldExtension(af),
                 LAMBDA ext : AFERead(ext, field))
       ELSE FieldNotPresent
  ELSE IF ~AFHas(af, field) THEN FieldNotPresent
  ELSE CASE field = "pcr" -> Slice(af, 1, 1 + PCR_SIZE)
         [] field = "opcr" -> Slice(af, OpcrOffset(af), OpcrOffset(af) + PCR_SIZE)
         [] field = "splice" ->
              Slice(af, SpliceCountdownOffset(af), SpliceCountdownOffset(af) + 1)
         [] field = "private" -> TransportPrivateData(af)

AFFields == (AFFlags \ {"extension"}) \cup AFEFlags

-------------------------------------------------------------------------------
(* A multiplexer writes the fields one after the other.                    *)

WrittenExtension(set) ==
  FlagsByte("extension flags", set \cap AFEFlags)
    \o OptionalField(set, "ltw", 2)
    \o OptionalField(set, "piecewise", 3)
    \o OptionalField(set, "seamless", 5)

WrittenAF(set, private, stuffing) ==
  LET Follows(field, bytes) ==
        IF field \in set THEN LengthByte(field, Len(bytes)) \o bytes ELSE << >>
  IN FlagsByte("flags", set \cap AFFlags)
       \o OptionalField(set, "pcr", PCR_SIZE)
       \o OptionalField(set, "opcr", PCR_SIZE)
       \o OptionalField(set, "splice", 1)
       \o Follows("private", Field("private", private))
       \o Follows("extension", WrittenExtension(set))
       \o Field("stuffing", stuffing)

AFSize(field, private) ==
  CASE field \in {"pcr", "opcr"} -> PCR_SIZE
    [] field = "splice" -> 1
    [] field = "private" -> private
    [] field = "ltw" -> 2
    [] field = "piecewise" -> 3
    [] field = "seamless" -> 5
================================================================================
