------------------------------- MODULE MCReaders -------------------------------
(***************************************************************************)
(* The readers of the library, side by side: packets, header fields, bits, *)
(* sections, tables and timestamps.  They share no state; a behaviour      *)
(* exercises one of them and leaves the others as they are.                *)
(***************************************************************************)
EXTENDS HeaderFields, EntryIterators, BitFields, Timestamps, PacketLayout,
        SectionPipeline

VARIABLE reader

AdaptationWritings ==
  {set \in SUBSET (AFFlags \cup AFEFlags) :
     set \cap AFEFlags # {} => "extension" \in set}

MainFields == {set \in SUBSET (PesFlags \ {"pes_extension"}) :
                 "dts" \in set => "pts" \in set}
ExtensionWritings ==
  {set \in SUBSET (ExtensionFlags \cup Extension2Fields) :
     /\ set \cap Extension2Fields # {} => "extension_2" \in set
     /\ set \cap Extension2Fields # Extension2Fields}

(* PES headers of all main fields, and of all fields of the extension.     *)
PesHeaderWritings ==
  {{}} \cup {set \cup {"parsed"} : set \in MainFields}
    \cup {set \cup extension \cup {"parsed", "pes_extension"} :
            set \in {{}, {"pts"}, PesFlags}, extension \in ExtensionWritings}

EntryLists(lens, tags, most) == BoundedSeq([len : lens, tag : tags], most)

(* Descriptors of every type, around the least length of each.             *)
DescriptorLists ==
  EntryLists({0, 2, 3, 4}, {2, 5, 10, 14, 40}, 2) \cup EntryLists({0, 4}, {2, 40}, 3)

AllTables ==
  [kind : {"programs", "languages"}, info : {0}, entries : EntryLists({0}, {0}, 3)]
    \cup [kind : {"streams"}, info : {0, 2}, entries : EntryLists({0, 2}, {0}, 3)]
    \cup [kind : {"descriptors"}, info : {0}, entries : DescriptorLists]

OnlyTable == [kind |-> "programs", info |-> 0, entries |-> << >>]

(* The lengths at which a check of a section changes its mind.             *)
LengthsOfSections == (0..20) \cup (1017..1025) \cup (4090..4095)

AnySection ==
  [kind |-> "compact", table_id |-> 0, syntax |-> FALSE, length |-> 0,
   intact |-> TRUE, info |-> 0]

ReaderInit ==
  /\ reader \in {"packets", "fields", "entries", "numbers", "sections", "timestamps"}
  /\ IF reader = "packets" THEN PacketInit ELSE packet = Header(FALSE, TRUE, 0)
  /\ FieldsInit
  /\ reader # "fields" => syntax = "adaptation" /\ written.set = {}
                            /\ written.private = 0 /\ Len(buf) = 1
  /\ IF reader = "entries" THEN EntriesInit
     ELSE /\ table = OnlyTable /\ spoilt = FALSE
          /\ received = << >> /\ rest = << >> /\ items = << >>
  /\ IF reader = "numbers" THEN NumberInit
     ELSE number = [format |-> "crc", value |-> {}, unused |-> FALSE]
  /\ IF reader = "sections" THEN PipelineInit
     ELSE section = AnySection /\ stage = "header" /\ errors = << >> /\ body = NoBody
  /\ ClockInit
  /\ reader # "timestamps" => since = 0

ReaderNext ==
  /\ UNCHANGED reader
  /\ \/ /\ reader = "packets" /\ DamagePacket
        /\ UNCHANGED <<fieldVars, entryVars, number, pipelineVars, clockVars>>
     \/ /\ reader = "fields" /\ FieldsNext
        /\ UNCHANGED <<packet, entryVars, number, pipelineVars, clockVars>>
     \/ /\ reader = "entries" /\ EntriesNext
        /\ UNCHANGED <<packet, fieldVars, number, pipelineVars, clockVars>>
     \/ /\ reader = "numbers" /\ Complement
        /\ UNCHANGED <<packet, fieldVars, entryVars, pipelineVars, clockVars>>
     \/ /\ reader = "sections" /\ PipelineNext
        /\ UNCHANGED <<packet, fieldVars, entryVars, number, clockVars>>
     \/ /\ reader = "timestamps" /\ ClockNext
        /\ UNCHANGED <<packet, fieldVars, entryVars, number, pipelineVars>>

ReaderSpec ==
  ReaderInit /\ [][ReaderNext]_<<reader, packet, fieldVars, entryVars, number,
                                 pipelineVars, clockVars>>
================================================================================
