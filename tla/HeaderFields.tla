------------------------------ MODULE HeaderFields ------------------------------
(***************************************************************************)
(* An application that reads the fields of adaptation fields and of PES    *)
(* headers.  A multiplexer writes them, byte after byte, in the order of   *)
(* ISO/IEC 13818-1; then one thing may go wrong: the buffer is cut short,  *)
(* or a marker, a length or a flag is damaged.  Neither header is          *)
(* protected by a CRC, and a PES header is cut where its packet ends.      *)
(***************************************************************************)
EXTENDS AdaptationField, PesHeader

CONSTANTS
  AFWritings,     (* sets of fields that adaptation fields are written with *)
  PesWritings,    (* sets of fields that PES headers are written with       *)
  PrivateLengths, (* lengths of transport private data                      *)
  Paddings,       (* numbers of bytes of stuffing, and of PES payload       *)
  Lengths         (* values that a damaged length may have                  *)

(* What the standard allows to be written: the fields of an extension only *)
(* in one, a DTS only with a PTS, one field at most in extension 2.        *)
ASSUME FieldsAssumption ==
  /\ PrivateLengths \subseteq Nat /\ Paddings \subseteq Nat /\ Lengths \subseteq Nat
  /\ \A set \in AFWritings : set \cap AFEFlags # {} => "extension" \in set
  /\ \A set \in PesWritings :
       /\ "parsed" \in set \/ set = {}
       /\ "dts" \in set => "pts" \in set
       /\ set \cap (ExtensionFlags \cup Extension2Fields) # {}
            => "pes_extension" \in set
       /\ set \cap Extension2Fields # {} => "extension_2" \in set
       /\ ~(Extension2Fields \subseteq set)

VARIABLES
  syntax,         (* "adaptation" or "pes"                                  *)
  written,        (* the set of fields, and the lengths, that were written  *)
  buf,            (* the buffer as the parser gets it                       *)
  damage          (* what was done to it, and to which field                *)

fieldVars == <<syntax, written, buf, damage>>

Undamaged == [kind |-> "none", field |-> ""]

WriteAdaptation ==
  \E set \in AFWritings, private \in PrivateLengths, padding \in Paddings :
    /\ syntax = "adaptation"
    /\ written = [set |-> set, private |-> private, payload |-> 0]
    /\ buf = WrittenAF(set, private, padding)

WritePes ==
  \E set \in PesWritings, padding \in Paddings :
    /\ syntax = "pes"
    /\ written = [set |-> set, private |-> 0, payload |-> padding]
    /\ buf = WrittenPes(set, padding, padding)

FieldsInit == (WriteAdaptation \/ WritePes) /\ damage = Undamaged

Damage(kind, n) ==
  /\ damage = Undamaged
  /\ damage' = [kind |-> kind, field |-> buf[n].of]
  /\ UNCHANGED <<syntax, written>>

(* An adaptation field is never empty: AdaptationField::new() panics.      *)
Cut ==
  \E n \in 1..Len(buf) - 1 :
    /\ Damage("cut", n)
    /\ buf' = SubSeq(buf, 1, n)

SpoilMarker ==
  \E n \in 1..Len(buf) :
    /\ Damage("marker", n)
    /\ buf' = [buf EXCEPT ![n].ok = FALSE]

SpoilLength ==
  \E n \in 1..Len(buf), len \in Lengths :
    /\ buf[n].of \in {"private", "extension", "pack_field_length",
                      "PES_header_data_length"}
    /\ buf[n].nr = 1
    /\ Damage("length", n)
    /\ buf' = [buf EXCEPT ![n].len = len]

SpoilFlag ==
  \E n \in 1..Len(buf), flag \in AFFlags \cup AFEFlags \cup PesFlags
                                   \cup ExtensionFlags \cup Extension2Flags :
    /\ \/ buf[n].of = "flags" /\ syntax = "adaptation" /\ flag \in AFFlags
       \/ buf[n].of = "flags" /\ syntax = "pes" /\ flag \in PesFlags
       \/ buf[n].of = "extension flags" /\ syntax = "adaptation" /\ flag \in AFEFlags
       \/ buf[n].of = "extension flags" /\ syntax = "pes" /\ flag \in ExtensionFlags
       \/ buf[n].of = "extension 2 flags" /\ flag \in Extension2Flags
    /\ Damage("flag", n)
    /\ buf' = [buf EXCEPT ![n].flags = (@ \ {flag}) \cup ({flag} \ @)]

FieldsNext == Cut \/ SpoilMarker \/ SpoilLength \/ SpoilFlag

FieldsSpec == FieldsInit /\ [][FieldsNext]_fieldVars

-------------------------------------------------------------------------------
(* What is read, and what should be.                                       *)

Fields == IF syntax = "pes" THEN PesFields \cup {"payload"} ELSE AFFields

ReadFrom(bytes, field) ==
  IF syntax = "adaptation" THEN AFRead(bytes, field)
  ELSE IF field = "payload" THEN PesPayload(bytes)
  ELSE PesRead(bytes, field)

Read(field) == ReadFrom(buf, field)

Written(field) ==
  IF field = "payload" THEN Ok(Field(field, written.payload))
  ELSE IF field \notin written.set THEN FieldNotPresent
  ELSE IF syntax = "pes" THEN Ok(Field(field, PesSize(field)))
  ELSE Ok(Field(field, AFSize(field, written.private)))

(* The fields that a byte of marker or check bits stands for.              *)
Marks(field) ==
  CASE field \in {"check bits", "start_code"} -> PesFields \cup {"payload"}
    [] field = "extension 2 marker" -> Extension2Fields
    [] OTHER -> {field}

(* Every field that was written is read back as it was written, and the    *)
(* others are reported as not present: the offsets that the accessors      *)
(* compute from flags and lengths are those of the layout.                 *)
FieldsReadBack ==
  damage = Undamaged => \A field \in Fields : Read(field) = Written(field)

(* Whatever is wrong with a buffer that the constructors accept, no        *)
(* accessor indexes outside of it.                                         *)
NeverPanics == \A field \in Fields : Read(field).status # "panic"

(* Of a buffer cut short, a field is either read as it was written or      *)
(* reported to be incomplete: nothing is read in part or from elsewhere.   *)
CutIsNoticed ==
  damage.kind = "cut" =>
    \A field \in Fields \ {"payload"} :
      \/ Read(field) = Written(field)
      \/ Read(field).status \in {"NotEnoughData", "HeaderLengthExceedsBuffer"}

(* A bad marker bit changes what is returned for no other field than the   *)
(* one it is in.  (That one is refused, or returned all the same: escr()   *)
(* and es_rate() do not look at their markers.)                            *)
MarkersAreLocal ==
  damage.kind = "marker" =>
    \A field \in Fields \ Marks(damage.field) : Read(field) = Written(field)

(* The places in the buffer that a field is read from: what is returned    *)
(* when each byte holds its own, which no accessor looks at.               *)
Numbered == [n \in 1..Len(buf) |-> [buf[n] EXCEPT !.nr = n]]

Places(field) ==
  LET bytes == ReadFrom(Numbered, field).bytes IN {bytes[n].nr : n \in 1..Len(bytes)}

(* Even if lengths and flags contradict each other no byte is read as part *)
(* of two fields, nor as part of a field and of the payload.               *)
EachByteReadOnce ==
  LET reads == {<<field, Places(field)>> : field \in Fields} IN
  \A one, other \in reads : one # other => one[2] \cap other[2] = {}
=================================================================================
