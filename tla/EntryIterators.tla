----------------------------- MODULE EntryIterators -----------------------------
(***************************************************************************)
(* The iterators over the entries of a table: ProgramIter (psi/pat.rs),    *)
(* StreamInfoIter (psi/pmt.rs), DescriptorIter and LanguageIterator        *)
(* (descriptor/).  Each call of next() looks at the start of the slice     *)
(* that is left, and drops what it has read of it.                         *)
(*                                                                         *)
(* An entry is a header of a size that depends on the iterator; those of   *)
(* streams and descriptors end with the length of what follows.  What an   *)
(* iterator returns is a slice whose accessors index it without a check.   *)
(***************************************************************************)
EXTENDS Descriptors, SequencesExt

CONSTANTS
  Tables,      (* records: `kind' of iterator, `info' bytes before the      *)
               (* streams of a PMT, `entries' as a sequence of records of   *)
               (* the `len' of what follows its header and its `tag'        *)
  FalseLengths (* values that a damaged length may have                     *)

(* Programs and languages are all header.                                  *)
ASSUME EntriesAssumption ==
  /\ FalseLengths \subseteq Nat
  /\ \A t \in Tables :
       /\ t.kind \in {"programs", "languages", "streams", "descriptors"}
       /\ t.info \in Nat
       /\ t.entries \in Seq([len : Nat, tag : 0..255])
       /\ t.kind \in {"programs", "languages"} =>
            \A n \in 1..Len(t.entries) : t.entries[n].len = 0

VARIABLES
  table,       (* the table as it was written                               *)
  received,    (* the bytes of it that the parser gets                      *)
  spoilt,      (* whether a length in them is false                         *)
  rest,        (* the field `buf' or `remaining_data' of the iterator       *)
  items        (* what next() has returned so far                           *)

entryVars == <<table, received, spoilt, rest, items>>

EntryHeaderSize(kind) ==
  CASE kind \in {"programs", "languages"} -> 4
    [] kind = "streams" -> 5
    [] kind = "descriptors" -> 2

HasLength(kind) == kind \in {"streams", "descriptors"}

-------------------------------------------------------------------------------
(* The table as it is written.  A byte that is not a tag has the value of  *)
(* one all the same, should a false length make it the first of an entry.  *)

WrittenEntry(kind, n, entry) ==
  LET size == EntryHeaderSize(kind) IN
  [b \in 1..size + entry.len |->
     NewByte(n, b, {entry.tag}, IF HasLength(kind) /\ b = size THEN entry.len ELSE 0)]

(* The first n entries, one after the other.                               *)
EntriesUpTo(t, n) ==
  FlattenSeq([k \in 1..n |-> WrittenEntry(t.kind, k, t.entries[k])])

WrittenEntries(t) == EntriesUpTo(t, Len(t.entries))

PMT_HEADER_SIZE == 4

WrittenTable(t) ==
  IF t.kind # "streams" THEN WrittenEntries(t)
  ELSE Field("PMT header", PMT_HEADER_SIZE - 1)
         \o LengthByte("program_info_length", t.info)
         \o Field("program_info", t.info) \o WrittenEntries(t)

-------------------------------------------------------------------------------
(* PmtSection::from_bytes() and streams()                                  *)
PmtStreams(data) ==
  LET start == PMT_HEADER_SIZE + data[PMT_HEADER_SIZE].len IN
  IF Len(data) < PMT_HEADER_SIZE \/ Len(data) < start THEN NotEnoughData
  ELSE Index(data, start, Len(data))

(* What the iterator is created with: a section that is refused has none.  *)
Iterated(kind, data) ==
  IF kind = "streams" THEN PmtStreams(data).bytes ELSE data

(* A length is damaged, or the end of the table is missing.                *)
Received(t) ==
  \/ /\ spoilt = FALSE
     /\ \E n \in 0..Len(WrittenTable(t)) : received = SubSeq(WrittenTable(t), 1, n)
  \/ /\ spoilt = TRUE
     /\ HasLength(t.kind)
     /\ \E n \in 1..Len(WrittenTable(t)), len \in FalseLengths :
          /\ \/ WrittenTable(t)[n].nr = EntryHeaderSize(t.kind)
             \/ t.kind = "streams" /\ n = PMT_HEADER_SIZE
          /\ received = [WrittenTable(t) EXCEPT ![n].len = len]

EntriesInit ==
  /\ table \in Tables
  /\ Received(table)
  /\ rest = Iterated(table.kind, received)
  /\ items = << >>

-------------------------------------------------------------------------------
(* next()                                                                  *)

(* Where the entry at the start of the slice ends.                         *)
EntryEnd(kind, slice) ==
  LET size == EntryHeaderSize(kind) IN
  size + IF HasLength(kind) /\ Len(slice) >= size THEN slice[size].len ELSE 0

Drop(kind, slice) == SubSeq(slice, 1 + EntryEnd(kind, slice), Len(slice))

(* ProgramDescriptor::from_bytes(), StreamInfo::from_bytes(),              *)
(* Descriptor::from_bytes() and Language::new() of an entry; the last      *)
(* asserts its length.                                                     *)
FromBytes(kind, entry) ==
  CASE kind \in {"programs", "streams"} -> Ok(entry)
    [] kind = "descriptors" -> DescriptorFromBytes(entry)
    [] kind = "languages" ->
         IF Len(entry) = EntryHeaderSize(kind) THEN Ok(entry) ELSE Err("panic")

(* Mutant: an entry that its parser refuses ends the iteration.            *)
NextEntryStops ==
  /\ Len(rest) > 0
  /\ Len(rest) >= EntryEnd(table.kind, rest)
  /\ LET item == FromBytes(table.kind, SubSeq(rest, 1, EntryEnd(table.kind, rest))) IN
     /\ items' = Append(items, item)
     /\ rest' = IF item.status = "ok" THEN Drop(table.kind, rest) ELSE << >>
  /\ UNCHANGED <<table, received, spoilt>>

NextEntry ==
  /\ Len(rest) > 0
  /\ Len(rest) >= EntryEnd(table.kind, rest)
  /\ items' = Append(items,
       FromBytes(table.kind, SubSeq(rest, 1, EntryEnd(table.kind, rest))))
  /\ rest' = Drop(table.kind, rest)
  /\ UNCHANGED <<table, received, spoilt>>

(* Mutant: the next call of next() finds the incomplete entry again.       *)
IncompleteEntryAgain ==
  /\ Len(rest) > 0
  /\ Len(rest) < EntryEnd(table.kind, rest)
  /\ items' = Append(items, NotEnoughData)
  /\ UNCHANGED <<table, received, spoilt, rest>>

(* The error of an incomplete entry ends the iteration.  Each iterator has *)
(* an error of its own for this (PatError, PmtError, BufferTooShort,       *)
(* LangError::TooShort); here all of them are NotEnoughData.               *)
IncompleteEntry ==
  /\ Len(rest) > 0
  /\ Len(rest) < EntryEnd(table.kind, rest)
  /\ items' = Append(items, NotEnoughData)
  /\ rest' = << >>
  /\ UNCHANGED <<table, received, spoilt>>

EntriesNext == NextEntry \/ IncompleteEntry

EntriesSpec == EntriesInit /\ [][EntriesNext]_entryVars

-------------------------------------------------------------------------------
(* The table up to its n-th entry, as far as the iterator gets to see it.  *)
EndOf(n) == Len(EntriesUpTo(table, n))

WholeEntries ==
  Cardinality({n \in 1..Len(table.entries) :
                 EndOf(n) <= Len(Iterated(table.kind, received))})

(* An entry as its writer meant it is accepted if it has the bytes that    *)
(* its type's accessors read.                                              *)
Expected(kind, entry) ==
  IF kind = "descriptors"
     /\ ~(AccessedBytes(Tag(entry)) \subseteq 0..(Len(entry) - DESCRIPTOR_HEADER - 1))
  THEN NotEnoughData ELSE Ok(entry)

ExpectedItems ==
  [n \in 1..WholeEntries |->
     Expected(table.kind, WrittenEntry(table.kind, n, table.entries[n]))]
    \o (IF EndOf(WholeEntries) < Len(Iterated(table.kind, received))
        THEN <<NotEnoughData>> ELSE << >>)

(* The iterator visits the entries in the order in which they were         *)
(* written, and reports those that their parser refuses in their place.  A *)
(* table that is cut short costs the entries at its end; an entry cut in   *)
(* two is reported as one error, and nothing after it.                     *)
EntriesListed ==
  ~spoilt => /\ IsPrefix(items, ExpectedItems)
             /\ rest = << >> => items = ExpectedItems

(* Whatever the lengths in a table, each item that an iterator returns     *)
(* uses up some of the table: there are no more calls than bytes.          *)
IterationEnds == Len(items) + Len(rest) <= Len(Iterated(table.kind, received))

(* The bytes of an item that its accessors read.                           *)
ItemBytes(kind, entry) ==
  CASE kind = "programs"  -> BytesOf(ProgramDescriptor)
    [] kind = "streams"   -> BytesOf(StreamInfo)
    [] kind = "languages" -> LanguageBytes
    [] kind = "descriptors" ->
         {DESCRIPTOR_HEADER + byte : byte \in AccessedBytes(Tag(entry))}

(* No accessor of what next() returned indexes beyond it, whatever lengths *)
(* the table gave: what a constructor demands, often in another file, is   *)
(* what its accessors need.  No constructor's assertion fails.             *)
AccessorsInBounds ==
  \A n \in DOMAIN items :
    /\ items[n].status # "panic"
    /\ items[n].status = "ok" =>
         ItemBytes(table.kind, items[n].bytes) \subseteq 0..(Len(items[n].bytes) - 1)
=================================================================================
