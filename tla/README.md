# Verification of mpeg2ts-reader

`mpeg2ts-reader` is a Rust library that reads MPEG-2 transport streams: rows of
188-byte packets, each with a PID that says which of the interleaved streams it
belongs to. An application hands buffers to `Demultiplex::push()` and receives
call-backs. The library has no threads and does no I/O; what makes it hard is
that it is driven by a stream that may be cut anywhere, lose and repeat packets,
and change its own tables while it is being read.

This directory holds TLA+ models of the library, TLC configurations, and proofs
checked by TLAPS. Source paths below are relative to the crate's `src/`.

## Inventory

| Component | State | Operations | Interacts with |
|---|---|---|---|
| `demultiplex.rs` `Demultiplex`, `Filters` | filter of each PID | `new`, `push` | calls `construct()` for unknown PIDs, filters' `consume()`, applies the changeset |
| `demultiplex.rs` `FilterChangeset` | queue of inserts and removes | `insert`, `remove`, `apply` | filled by table processors (and `construct()`), emptied by `push` |
| `demultiplex.rs` `PatProcessor`, `PmtProcessor` | PIDs registered by the last table | `section` (`new_table`, `remove_outdated`) | called by the section parsers; call `construct()`, fill the changeset |
| `demultiplex.rs` `TsdtProcessor` | none | `section` | calls the application |
| `psi/mod.rs` `Framer` (section and compact syntax) | state, buffer, `synced` | `consume`, `feed`, `reset` | called by PSI filters; delivers sections to a parser, resets it |
| `psi/mod.rs` `DedupSectionSyntaxPayloadParser` | last version | `section`, `reset` | between framer and CRC check |
| `psi/mod.rs` `CrcCheckWholeSectionSyntaxPayloadParser` | none | `section`, `reset` | between deduplication and table processor |
| `pes.rs` `PesPacketFilter` | state, continuity counter | `consume` | calls an `ElementaryStreamConsumer` |
| `psi/pat.rs`, `psi/pmt.rs`, `psi/tsdt.rs` | none | iterators over entries | used by the processors |
| `packet.rs` `Packet`, `ContinuityCounter` | none | field accessors, `payload()` | used everywhere |
| `packet.rs` `AdaptationField`, `AdaptationFieldExtension` | none | optional fields at computed offsets | used by applications |
| `pes.rs` `PesHeader`, `Timestamp` | none | optional fields, 33-bit arithmetic | used by `PesPacketFilter` and applications |
| `descriptor/` | none | iterator, accessors | used by applications |
| `mpegts_crc.rs`, `error.rs`, `lib.rs` | none | CRC table, error and constant types | |

The hard behaviours, and what correctness means for each component:

* PES filter: gaps anywhere between call-backs. Call-backs come in an order that
  an application can rely on; PES packets are never spliced; only whole ones are
  ended; damage does not spread.
* Framer: headers and sections cut at any byte, several sections in a packet,
  stuffing, rejected sections to skip, losses it does not notice. Sections are
  delivered whole, once, in order; the loop terminates; the buffer stays bounded.
* Deduplication: tables are parsed when they change and only then.
* Demultiplexer: tables change the table of filters while a filter of it runs.
  Every packet goes to the filter that the tables so far designate; streams keep
  their filters while tables repeat.
* Buffers: any cutting of the stream. No packet twice or out of order; losses
  stay within a buffer.

`PROJECT.json` lists the hazards line by line with the properties that cover them.

## Modules

| Module | Models |
|---|---|
| `PesFilter` | `PesPacketFilter`: one `consume()` is one step. `calls` holds what it did at its three call sites, `consumer` what an application knows from the calls. |
| `PesStream` | `PesFilter` behind a path that loses and repeats packets of a conforming multiplexer, and an application that joins the pieces. |
| `PsiFramer` | `Framer`: `consume()` up to its first `feed()` is a step, so is each iteration of the loop of `feed()`. Bytes and what headers mean are parameters. |
| `SectionParsers` | `Dedup...` and `CrcCheck...`: what becomes of a section. |
| `PsiStream` | `PsiFramer` with `SectionParsers` behind a path that may lose packets; a byte carries the section and offset it comes from. |
| `FilterTable` | filters, changes and what a table does to them: `Filters`, `FilterChangeset`, `PatProcessor`, `PmtProcessor`. |
| `Routing` | the abstract demultiplexer: tables take effect at once, section by section. |
| `Demux` | `push()` over `FilterTable`: lookup, the kept filter reference, the queue of changes. Implements `Routing`. |
| `DemuxStream` | `Demux` fed with the packets of one multiplex, whose PIDs keep their roles; `mention` remembers which PMT listed or withdrew a PID last. |
| `PushBuffer` | `push()` as a cutter of buffers into packets. |
| `PacketLayout` | `Packet`: where adaptation field and payload are in its 188 bytes, after a header that may be damaged. |
| `SectionPipeline` | what becomes of one section from its header to the code that reads its entries: the checks of the syntax modes, of the CRC parser and of the PAT, PMT and TSDT processors, with the error that each reports and the slice that is handed on. |
| `Slices` | byte slices as accessors see them: a byte is known by the field it was written for. |
| `AdaptationField` | `AdaptationField`, `AdaptationFieldExtension`: where each optional field is. |
| `PesHeader` | `PesHeader`, `PesParsedContents`, `PesExtension`: where each optional field is, and the checks. |
| `HeaderFields` | an application reading these, from buffers that a multiplexer wrote and one fault may have damaged. |
| `EntryIterators` | `ProgramIter`, `StreamInfoIter`, `DescriptorIter`, `LanguageIterator`: one `next()` is a step. |
| `Descriptors` | which type a descriptor's tag selects, what each constructor demands and which bytes the accessors of the type index. |
| `BitFields` | the masks and shifts of every accessor to packed bits, from the packet header to timestamps, against the layouts of the standard. |
| `Timestamps` | `likely_wrapped_since()` between timestamps of a clock. |
| `MC*` | instances for TLC. `*Proofs` hold theorems. |

How state corresponds to code:

* `PesFilter`: `state` and `ccounter` are the fields of those names. A packet is
  abstracted to its counter, `payload_unit_start_indicator`, whether its
  adaptation control has the payload bit, and which of the outcomes `payload()`
  and `PesHeader::from_bytes()` have.
* `PsiFramer`: `mode` and `count` are `FramerState` and its argument, `buf` and
  `synced` the fields; `input` and `rest` are the slices of the packet that
  `feed()` has still to see, `pc` says which call of `feed()` is running.
* `Demux`: `table` is `processor_by_pid`, `changeset` the queue, `this_pid` the
  PID whose filter `push()` holds a reference to, `pk` the packet in hand with
  the sections it has yet to deliver, `pc` the place in the two loops. A filter
  is a record of its kind, the program it was constructed for, the PIDs its last
  table listed, the version its Dedup remembers, and, for streams, whether it has
  consumed anything. `Filters::get().unwrap()` is covered by `ReferenceIsLive`.
* `PushBuffer`: `at` counts the bytes pushed; packets are known by their number.
* `Slices`: `Index` is `&buf[from..to]`, with the status "panic" if it is out of
  bounds; `Then` is `?`. Offsets count from 0 as in the code. The value of a field
  is the bytes it is read from; `BitFields` says what numbers those bytes hold.
  `AFRead` and `PesRead` are the accessors, by the names of the fields, and the
  `Written...` operators are the multiplexer's layout, written from the standard.
  Which bytes an accessor read is seen by giving each byte its own number (`Places`).
* `EntryIterators`: `rest` is the field `buf` (or `remaining_data`). The four
  iterators differ in the size of an entry's header and in whether it ends with
  the length of what follows; `items` are the results that `next()` returned.
  `AccessorsInBounds` compares the bytes that accessors index (`ItemBytes`, from
  `Descriptors` and `BitFields`) with the length of the item.
* `BitFields`: the header is the set of bits that are 1, each known by the field
  it belongs to. An accessor is a set of terms, one for each `(buf[i] & mask) <<
  shift` of the code; the layouts are lists of fields and widths from the standard.
* `PacketLayout`: a part of the packet is the set of the offsets of its bytes;
  "panic" stands for a slice out of bounds and for the assertion of
  `AdaptationField::new()`.
* `SectionPipeline`: `stage` is the check that comes next, so that each of
  `validate_header()`, `CrcCheck...::section()` and a processor's `section()` is
  a step; `errors` is what `ErrorSink::error()` was given, with the number that
  the error names and the bound; `body` is the slice handed on.

What is left out: the contents of payloads; the texts of errors, and which of
several errors is reported where no property is about it (`NotEnoughData` stands for
every iterator's error for an incomplete entry); the CRC's arithmetic
(`Intact` and `section.intact` say that it detects any damage); the prefixes
that `from_pts_bytes()` and `from_dts_bytes()` check. The compilation choice
`cfg(fuzzing)`, which turns the CRC check off, is not modelled.

## Runs

| Run | Shows |
|---|---|
| `pes_filter` | For packets of every kind in every order, 16 counter values: types, `OpenIsTracked`, `StartsInOrder`. |
| `pes_start` | Counterexample to `StartStreamBeforeBegin`. |
| `pes_stream` | With losses and repetitions: `HeldIsPrefix`, `EndedAreWhole`, `UnhurtAreDelivered`, `NoPieceTwice`, `DataWithinPacket`. |
| `framer` | All byte strings: `BufferBounded`, `TargetFitsHeader`, `UnsyncedIsIdle`, `SectionsAreWhole`, `FeedTerminates`. |
| `framer_extra_data` | Counterexample to `ExtraDataMeansMissing`. |
| `psi_stream` | Conforming streams cut into packets in every way: `LosslessInOrder`, `NoFalseAlarm`, `ParsedAreChanges`; with calls of `reset()`: `DeliveredAreIntact`; with losses: `ArrivedAreDelivered`. |
| `psi_poison` | Counterexample to `SuppressedWereParsed`. |
| `demux` | Tables updated in all orders, good, broken and misplaced sections, framer errors, flagged packets, programs that share a stream: `ReferenceIsLive`, `RegisteredAreServed`, `ImplementsRouting`; with repeated tables: `StreamsKeepState` and, with damaged copies among them, `TunesIn`. |
| `demux_outdated` | Counterexample to `OutdatedAreRemoved`. |
| `push` | All cuttings into buffers: `HandledInOrder`; of whole packets: `LossIsLocal`. |
| `push_resume` | Counterexample to `ResumesWhereItLeftOff`. |
| `readers` | Packets as written and with one byte or the control bits damaged: `PacketIsDivided`. Headers as written: `FieldsReadBack`; with one fault: `NeverPanics`, `CutIsNoticed`, `MarkersAreLocal`, `EachByteReadOnce`. Sections of every kind: `RefusedOrHandedOn`, `OnlyTheTableIsRead`. Tables whole, cut and damaged: `EntriesListed`, `IterationEnds`, `AccessorsInBounds`. Bits: `NumbersReadBack`. Clocks: `WrapIsSeen`. |

Each run also checks the type invariant of the component it is about, where
there is one. The six readers of `readers` share no state: a behaviour exercises
one of them.

### Bounds

* `pes_stream`: `CCMod` is 3 instead of 16 and bursts of loss at most 2 packets;
  what matters is that bursts are shorter than the counter's range, and the
  proofs hold for every `CCMod`. Six packets hold two whole PES packets, each of
  several pieces, with losses inside, between and around them.
* `framer`: bytes 0..2 (the largest is stuffing, the middle byte of a header
  tells its syntax, the last is its length), payloads of up to 4 bytes, section
  length limit 1, so that accepted, too large and wrong-syntax headers all occur
  and all of them also split over packets. It has least length 0, as in compact
  syntax, where a section may be all header. `psi_stream` and `framer_extra_data`
  have the least length of section syntax (1 for the code's 5).
* `psi_stream`: 3 sections of 3 to 5 bytes, packets of 4, so that a section takes
  one to three packets, and a packet may hold the end of one and the start of the
  next. Three kinds of sections suffice for the lossy path: what the framer does
  after a loss depends on where it is in a section and on the lengths.
* `demux`: a PAT, two PMT PIDs and two stream PIDs, two versions; a version only
  matters by being equal to the last one. Each behaviour has one of the
  multiplexes of `MCDemux`: `RichPackets` (one role for each PID, tables that are
  good, refused, of the wrong kind or several in a packet), `SteadyPackets` (the
  same tables over and over), `NoisyPackets` (the same with damaged copies) and
  `SharedPackets` (two programs with a common stream, which either may give up).
* `push`: 5 packets of 3 bytes, so that every buffer length from one byte to the
  whole stream, in step or out of step, occurs.
* `readers`: all lengths of an adaptation field. Section lengths 0 to 20, 1017 to
  1025 and 4090 to 4095, around every limit that a check compares with, and
  `program_info_length` 0, 1, 3, 9, 1000 and 4095, which fit, just fit, or do not
  fit the sections of those lengths. Adaptation fields of every set of fields; PES headers of every set of
  main fields, and every set of extension fields with none, one and all of the main
  ones, since the extension starts where the main fields end. One fault: a cut at
  any byte, any marker, any flag, or a length made too small or too large. Lists
  of up to three entries, so that there is one before and one after a bad one;
  descriptors of every type with lengths around what its constructor demands.
  Numbers with one bit set, or one clear; `OneBitStandsForAll` proves that one bit set
  is enough. `MAX` is 15 instead of 2^33 - 1; `WrapIsSeen` is proved for all.

`MCPsiStream*`, `MCPush*` and `MCReaders` set `CHECK_DEADLOCK FALSE`: their streams
end, a fault happens once, an iterator comes to the end of its table.

### Assumptions on the environment

* Bursts of loss on a PES stream are shorter than the counter's range
  (`BoundsAssumption`): sixteen packets lost in a row cannot be seen.
* A CRC tells a sent section from anything else.
* The multiplexer lays whole sections end to end, in ascending numbers, with headers
  that state their length, and changes `version_number` exactly when a table's content
  changes (`Conforming` and `Versioned` in `StreamAssumption`, which TLC evaluates
  for every stream of the runs). Between two sections of one table the framer may
  meet sections of the other syntax, which it rejects.
* `RegisteredAreServed` and `StreamsKeepState` are about multiplexes in which the
  PAT lists PIDs of programs, their PMTs those of streams, and no PID is both or
  that of the PAT (`RolesAssumption`). The first lets a shared PID be without a
  filter after one program withdrew it (see the observations); the second is about
  multiplexes that repeat undamaged tables with no PID in common (`Steady`).
  They and `ImplementsRouting` are about tables that
  do not list the PID they are sent on (`NoSelfListing`) and an application whose
  `construct()` queues no changes. The tables and the application of the run
  are such, for `ReferenceIsLive` too: that it holds of the others is only proved
  (`ReferenceLive`).
* `WrapIsSeen` is about timestamps at most half the range apart, as the comment on
  `likely_wrapped_since()` demands; the range is even (`MaxAssumption`).
* `CutIsNoticed`, `MarkersAreLocal`, `NeverPanics` and `EachByteReadOnce` are about
  one fault at a time. An adaptation field is never empty: `packet.rs` creates none.
* Headers are written with sets of fields that the standard allows: those of an
  extension only with it, a DTS only with a PTS, one field at most in extension 2
  (`FieldsAssumption`). The entries of a PAT and of a list of languages have no length
  of their own, and tags are bytes (`EntriesAssumption`).

### Fairness

* `FeedTerminates` (`PsiFramer`) assumes weak fairness of `Run`: `consume()` is a
  function call, which goes on running until it returns. Nothing is assumed about
  packets arriving.
* `TunesIn` (`FairSpec` of `MCDemux`) assumes weak fairness of the steps that
  `push()` takes by itself: it is a call that waits for nothing. It assumes strong
  fairness of the arrival of each packet of the repeated tables, because PSI is
  sent again and again for receivers that tune in late. Weak fairness would not
  do: `push()` meets packets only between its other steps. Nothing is assumed
  of damaged copies, which may come as often as they like or never. With the
  same fairness the property needs that a version which was remembered belongs to
  a table that was applied, and that every queued change reaches the table.

## Proofs

| Theorem | States |
|---|---|
| `PesStreamProofs`: `TypeCorrect`, `OpenTracked`, `StartsOrdered`, `DataOnlyWithinPacket` | `TypeOK`, `OpenIsTracked`, `StartsInOrder`; `DataWithinPacket` if all unit starts are PES headers |
| `PesStreamProofs`: `StreamTypeCorrect`, `NoSplice`, `OnlyWholeEnd`, `NoneTwice`, `DamageIsContained` | `StreamTypeOK`, `HeldIsPrefix`, `EndedAreWhole`, `NoPieceTwice`, `UnhurtAreDelivered` |
| `PsiFramerProofs`: `FramerTypeCorrect`, `BufferStaysBounded`, `TargetFits`, `IdleUntilSynced`, `DeliveredAreWhole` | `TypeOK`, `BufferBounded`, `TargetFitsHeader`, `UnsyncedIsIdle`, `SectionsAreWhole`, for any bytes and limits |
| `PsiFramerProofs`: `EachIterationProgresses` | each iteration of the loop of `feed()` lowers a natural number: the safety half of `FeedTerminates`, for payloads of any length |
| `PsiStreamProofs`: `AllAreDelivered`, `OnlyIntactDelivered`, `WhatArrivesIsDelivered`, `NoFalseAlarms`, `OnlyChangesParsed` | `LosslessInOrder`, `DeliveredAreIntact`, `ArrivedAreDelivered`, `NoFalseAlarm`, `ParsedAreChanges`, for any conforming streams, sizes of packets and limits |
| `ReadersProofs`: `IsDivided` | `PacketIsDivided`, for every header and every damage to it |
| `ReadersProofs`: `OnlyTableIsRead`, `JudgedTruly` | `OnlyTheTableIsRead`; `TrulyJudged`, the part of `RefusedOrHandedOn` without `ENABLED` |
| `DemuxProofs`: `DemuxTypeCorrect`, `ReferenceLive` | `TypeOK`, `ReferenceIsLive`, for any packets, tables and application |
| `DemuxProofs`: `RoutingImplemented` | `ImplementsRouting` under `NoSelfListing` and no changes by `construct()` |
| `DemuxProofs`: `RegisteredServed`, `StateKept` | `RegisteredAreServed`, `StreamsKeepState`, for any multiplexes in their roles, under the same assumptions |
| `PushBufferProofs`: `PacketsKeepTheirOrder`, `LossStaysInItsBuffer` | `HandledInOrder`, `LossIsLocal`, for packets of any size and streams of any length |
| `ReadersProofs`: `WrapSeen` | `WrapIsSeen` for every even range |
| `ReadersProofs`: `IterationsEnd`, `NoAccessorOutOfBounds`, `ListsEntries` | `IterationEnds`, `AccessorsInBounds`, `EntriesListed`, for any tables, false lengths and cuts |
| `ReadersProofs`: `OneBitStandsForAll` | a header of any format that is read back for each single bit is read back for every value |
| `HeaderFieldsProofs`: `AccessorsNeverPanic`, `EveryFieldReadsBack`, `NoFieldIsReadInPart`, `BadMarkersAreLocal`, `NoByteIsReadTwice` | `NeverPanics`, `FieldsReadBack`, `CutIsNoticed`, `MarkersAreLocal`, `EachByteReadOnce`, for every set of fields that may be written, any lengths, stuffing and payload, and any one fault |

`HeaderLayoutProofs` holds the lemmas about `AdaptationField` and `PesHeader` that the
last row rests on; `PesStreamProofs` and `DemuxProofs` have those of `PesFilter` and
`Demux` before those of the streams that drive them.

The arguments:

* `PesFilter`: the invariant ties the application's knowledge to the filter's
  state: an open packet implies `Started`, `Begin` implies that nothing was
  started or begun yet. `OpenIsTracked` alone is not inductive for `StartsInOrder`
  because nothing then forbids a second `start_stream()` from `Begin`.
* `PesStream`: when the filter's counter equals that of the last packet sent
  modulo `CCMod` and fewer than `CCMod` were lost since, the counter test succeeds
  exactly for the next packet; the invariant carries the number of the last packet
  consumed, and says that while the filter is `Started`, `held` is the interval
  from the last start to it. For `UnhurtAreDelivered` it also says that all that
  was lost since the last packet consumed is marked as hurt (`LostAreHurt`), and
  that what arrived unhurt from a start on is held by the application
  (`UnhurtIsHeld`), so that the next start finds it there to be ended. Neither
  follows from the other parts: a filter that did not resume at a unit start
  would satisfy them all.
* `Demux`: `LiveInv` adds to `ReferenceIsLive` that the filter is also there
  between two packets of the inner loop, which holds because a changeset that was
  applied leaves the loop. `RoutingInv` adds that the queue is empty except
  while a filter runs, and never touches the PID of that filter; the mapped table
  is the table with the queue applied.
* `DemuxStream`: everything is said of the table that `Routing` sees, with the queue
  made (`Effective`), on which a step of `push()` is one of five moves
  (`StepMoves`). `KeepsRoles` says that filters are of the kinds which the roles
  of their PIDs allow, so that a PAT touches no slot of a stream, and a PMT only
  those; `Serves` ties registered PIDs to filters and filters to `mention`.
  Between two packets the queue is empty and `Effective` is the table. For
  `StateKept` a filter that remembers a version remembers that of the only table
  on its PID and ignores its copies; every stream with a filter is listed by a
  program in that state, and every program's filter stands under a PAT in that
  state (`SteadyFilters`). So a table that is still to be accepted touches no
  slot in use.
* `PsiFramer`: the run's invariants are almost inductive together. What they lack is
  `NothingInHand`: between calls, and before the first unit start, no part of a
  packet is left to feed; without it an unsynced framer could go on with bytes
  from nowhere. The measure of `EachIterationProgresses` is twice the bytes still
  to be fed, and one more while a section is ignored: an iteration may stop
  ignoring without taking a byte, but then the next one takes some.
* `PsiStream`: there is a place `p` up to which the framer has read the stream, and
  a place `m` at which the slice in hand ends (`InHand`). The framer's own state
  is then a function of `p` and of what arrived (`InStep`): between sections it is
  idle; in a section that it accepts and of which nothing is missing it has
  collected exactly the bytes since its start, and knows how many are to come; in
  one that it rejects it ignores as many as are left. After a loss this need not
  hold, and what the framer makes of the bytes in hand is anything, but those
  bytes end before the next section starts (`Aligned`), since the pointer cuts
  them there. This is what contains the loss. `Ordered` says that what was
  delivered and really was sent comes before everything still to be read or in the
  buffer, `Complete` that every section read of which all has arrived was
  delivered. `LosslessInOrder` and `ArrivedAreDelivered` follow: at least
  once by `Complete`, at most once by `Ordered`. `ParsedAreChanges` needs in
  addition that no section that the framer accepts lies between two that are
  delivered one after the other (`NextDelivered`), so that the version which the
  deduplication remembers is the one that `Versioned` speaks of, and that nothing
  resets the parsers, which is `NoFalseAlarm`.
* `PacketLayout`: the invariant is that a packet which is not damaged is one that a
  multiplexer may write. The rest is arithmetic of the four offsets.
* `SectionPipeline`: `PassedHeader` and `PassedCrc` carry what earlier checks let
  pass to the later ones that rely on it: that `data[start..end]` is in bounds
  follows from the length check of the CRC parser, two calls earlier.
* `PushBuffer`: the packets handled so far lie behind `at`, and buffers of whole
  packets leave `push()` in step with cuts behind `at`, so that what a buffer adds
  is greater than all before, and a cut is never between a packet out of sync and
  those it costs. The lemmas before are about division and about the first chunk
  that is not in sync.
* `Timestamps`: the invariant is that the second timestamp is the first plus the
  ticks elapsed less the laps times the range. Half a range either way leaves one
  value of `laps` for each order and distance of the two numbers.
* `EntryIterators`: `IterationInv` says that every item is as long as its accessors
  index, whatever the table is; the lemma behind it is about the constructors, which
  demand as many bytes as the accessors of the type that the tag selects read. Each
  call drops at least the two bytes of the shortest header. `ListedInv` is
  about tables that are only cut: until the cut entry is met, the items are the
  listing of the first `n` entries, and `rest` is what was received behind the end of
  the `n`-th. Where that is, and that the next entry starts there with its
  own length, are facts about a table of any number of entries; they are proved from
  the recursive function that concatenates the entries, by induction on a set of
  numbers that holds 0 and the successor of each of its members.
* `BitFields`: a bit of a result comes from a bit of the header that is 1 because the
  value has it, or because it is a marker or unused. In the second case it would be
  in the results of every value, of which two single bits share none.
* `HeaderFields`: `FieldsInv` says that the buffer is one that was written, or one
  that was written with a single fault. `NeverPanics` follows from less: for any
  bytes at all, each slice is behind a check of its end against the length of the
  buffer, or against `PES_header_data_length`, which `from_bytes()` has compared with
  it. For `EachByteReadOnce` too any bytes will do: what an accessor returns comes from
  between two offsets, of which the second is the first of the next accessor, in the
  order of the standard (`From`, `Laid`); extensions are parts of the buffer with
  such an order of their own. The other three compare the accessors with the layout, which is a sum of the
  sizes of the fields that were written: since the byte of flags that was read is the
  one that was written, an accessor adds up the same sum, and finds its field there.
  The lemmas say this of a buffer that is a prefix of the one written, or has other
  markers, so that the same ones serve all three properties.

Only model-checked:

* `NumbersReadBack` of single bits: a comparison of finite tables, the masks and shifts
  of the code with the layouts of the standard, which TLC makes in full.
  `OneBitStandsForAll` then says that it holds of every value.
* `FeedTerminates` and `TunesIn`: liveness. The part of `RefusedOrHandedOn` that a
  section is not stuck uses `ENABLED`. Both are out of the prover's reach;
  `EachIterationProgresses` and `JudgedTruly` are their safety halves.

## Findings

Each has a run whose counterexample shows it, and an entry in `PROJECT.json`.

* `pes_start`: a gap before the first unit start loses `start_stream()`.
* `framer_extra_data`: the bytes before the pointer complete the buffered header of a
  rejected section with no body, which leaves the framer ignoring zero bytes; at
  the pointer this causes a false `ExtraDataAfterSectionComplete` and a reset of the
  parsers.
* `psi_poison`: deduplication remembers the version of a section that the CRC
  check then refuses; good copies are suppressed until the version changes.
* `demux_outdated`: a PAT update replaces PMT filters, and with them the record
  of which streams they have registered.
* `push_resume`: a packet that straddles two buffers is not resumed.

### Observations

Met while modelling, and not given runs of their own:

* After a unit start whose PES header is refused, the filter is `Started`, and
  `continue_packet()` may come without any `begin_packet()` (`pes.rs:36`, 129).
* The marker bits of ESCR and ES_rate are not checked: `escr()` and `es_rate()` return
  values from fields whose markers are damaged (`pes.rs:1023`, 1051), where `pts_dts()`
  refuses. `MarkersAreLocal` is only about the other fields.
* `section()` is given `section_length + 3` bytes, not `section_length`
  (`psi/mod.rs:190`, 515).
* A section in progress that ends before the pointer makes `feed()` parse the
  rest of the pre-pointer bytes as a fresh section (`psi/mod.rs:440`, 444).
* Of a table of several sections only the first passes the deduplication
  (`psi/mod.rs:632`).
* If two programs share a stream, an update of one removes the filter that the
  other still lists (`demultiplex.rs:390`); it is without one until the table of
  the other changes version, since deduplication suppresses the repetitions.
* `header_slice()` checks ends against `PES_header_data_length`, which `from_bytes()`
  has checked already: of the fields it is called for, none can fail it
  (`pes.rs:906`, 968).
* Changes that `construct()` queues stay queued if the packet that caused the call
  is flagged or scrambled (`demultiplex.rs:259`, 773).
* An adaptation field of length 0 next to a payload, which the standard permits as
  one byte of stuffing, is reported as `InvalidAdaptationFieldLength`
  (`packet.rs:665`); the payload is returned all the same. With a length of 183 the
  payload is `None`, although its control bit is set (`packet.rs:11` says
  that the bits tell).
* A PMT section is parsed before its table_id is looked at, a PAT's id is looked
  at after its length, a TSDT's before: which error is reported for a section with
  two faults depends on the table (`demultiplex.rs:345`, 417).
* `current_next_indicator` is not consulted: a table sent in advance takes effect at
  once (`psi/mod.rs:90`).
* `RegistrationDescriptor::new()` does not assert its tag, as its siblings do
  (`descriptor/registration.rs`).

## Not modelled

* The CRC's table and arithmetic (`mpegts_crc.rs`): a fixed function on bytes, which
  the models take to be ideal. Whether it is the right polynomial is a matter for a
  test vector.
* The stream types and PIDs of `lib.rs`, and the variants of `CoreDescriptors` that
  only hold bytes: tables of names, with no state and no decisions.
* `Debug` output, the texts of errors, macros that only generate types, examples,
  benchmarks and the fuzz targets.
* A loss of sixteen packets in a row, which a four-bit counter cannot show.
