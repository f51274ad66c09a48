------------------------------ MODULE PsiFramer ------------------------------
(***************************************************************************)
(* Framer (psi/mod.rs): reassembles whole PSI sections from the payloads   *)
(* of the transport stream packets of one PID.  consume() looks at the     *)
(* packet and its pointer_field; feed() is a loop over the bytes that one  *)
(* or two calls of it are given.  Here consume() up to its first call of   *)
(* feed() is a step, each iteration of the loop is a step, and so is what  *)
(* consume() does between its two calls.                                   *)
(*                                                                         *)
(* A section is HeaderSize bytes, then as many as the header says.  Bytes  *)
(* are elements of Byte, and what a header says is given by the operators  *)
(* SectionLength and SyntaxFits, so that the same module serves sections   *)
(* made of any bytes and sections whose bytes carry their origin.          *)
(***************************************************************************)
EXTENDS Integers, Sequences

CONSTANTS
  Byte,               (* the values of a byte                              *)
  Stuffing,           (* STUFFING_BYTE                                     *)
  SectionLength(_),   (* section_length of a header, a sequence of bytes   *)
  SyntaxFits(_),      (* does its section_syntax_indicator suit the framer *)
  SectionLimit,       (* SECTION_LIMIT (4093 in the code)                  *)
  MinLength,          (* least section_length: TableSyntaxHeader::SIZE in  *)
                      (* section syntax, 0 in compact syntax               *)
  Payloads            (* the payloads that packets may have, the pointer   *)
                      (* of a unit start left out                          *)

VARIABLES
  pc,        (* "ready" for a packet, in the "first" or "last" feed()      *)
  input,     (* bytes feed() has still to look at                          *)
  rest,      (* bytes from the pointer on, for the last feed()             *)
  mode,      (* FramerState: "Idle", "Collecting" or "Ignoring"            *)
  count,     (* `target' of Collecting, `remaining' of Ignoring, else 0    *)
  buf,       (* the bytes collected of the section in progress             *)
  synced,    (* has a unit start been seen                                 *)
  event      (* what the last step reported                                *)

framerVars == <<pc, input, rest, mode, count, buf, synced, event>>

(* SectionCommonHeader::SIZE *)
HeaderSize == 3

ASSUME FramerAssumption ==
  /\ Stuffing \in Byte
  /\ SectionLimit \in Nat
  /\ MinLength \in 0 .. SectionLimit
  /\ \A h \in [1 .. HeaderSize -> Byte] :
       SectionLength(h) \in Nat /\ SyntaxFits(h) \in BOOLEAN
  /\ Payloads \subseteq Seq(Byte)

-----------------------------------------------------------------------------

Take(s, n) == SubSeq(s, 1, n)
Drop(s, n) == SubSeq(s, n + 1, Len(s))
AtMost(a, b) == IF a <= b THEN a ELSE b

Quiet == [section |-> <<>>, error |-> "-", reset |-> FALSE]
Section(s) == [Quiet EXCEPT !.section = s]
Error(e) == [Quiet EXCEPT !.error = e]
ErrorReset(e) == [Quiet EXCEPT !.error = e, !.reset = TRUE]

Header(s) == Take(s, HeaderSize)
Total(s) == HeaderSize + SectionLength(Header(s))

(* validate_header(), in the order of its tests.                           *)
HeaderError(h) ==
  CASE ~SyntaxFits(h) -> "UnexpectedSectionSyntaxIndicator"
    [] SyntaxFits(h) /\ SectionLength(h) > SectionLimit -> "PsiSectionTooLarge"
    [] SyntaxFits(h) /\ SectionLength(h) < MinLength -> "SectionDataTooShort"
    [] OTHER -> "-"

Valid(s) == HeaderError(Header(s)) = "-"

Enter(m, n, b) == mode' = m /\ count' = n /\ buf' = b
(* Mutant: the bytes collected are left in the buffer.                     *)
IdleKeepingBuffer == Enter("Idle", 0, buf)

BecomeIdle == Enter("Idle", 0, <<>>)
Stay == UNCHANGED <<mode, count, buf>>

FramerInit ==
  /\ pc = "ready"
  /\ input = <<>>
  /\ rest = <<>>
  /\ mode = "Idle"
  /\ count = 0
  /\ buf = <<>>
  /\ synced = FALSE
  /\ event = Quiet

-----------------------------------------------------------------------------
(* consume() *)

(* A packet whose payload() is Ok(None) or Err.  (It is never empty.)      *)
NoPayload(e) ==
  /\ pc = "ready"
  /\ event' = Error(e)
  /\ UNCHANGED <<pc, input, rest, mode, count, buf, synced>>

(* A unit start whose pointer_field points past the end of the payload.    *)
PointerOutOfBounds ==
  /\ pc = "ready"
  /\ event' = ErrorReset("PsiPointerOutOfBounds")
  /\ BecomeIdle
  /\ UNCHANGED <<pc, input, rest, synced>>

(* reset(), which an application may call, e.g. when it sees a gap.        *)
Reset ==
  /\ pc = "ready"
  /\ event' = [Quiet EXCEPT !.reset = TRUE]
  /\ BecomeIdle
  /\ UNCHANGED <<pc, input, rest, synced>>

(* Mutant: bytes before the pointer are always dropped.                    *)
UnitStartAtPointer(pointer, data) ==
  /\ pc = "ready"
  /\ pointer <= Len(data)
  /\ pc' = "first"
  /\ input' = <<>>
  /\ rest' = Drop(data, pointer)
  /\ event' = Quiet
  /\ Stay /\ UNCHANGED synced

(* A unit start: `data' is the payload after the pointer_field.            *)
UnitStart(pointer, data) ==
  /\ pc = "ready"
  /\ pointer <= Len(data)
  /\ pc' = "first"
  /\ input' = IF synced /\ mode # "Idle" THEN Take(data, pointer) ELSE <<>>
  /\ rest' = Drop(data, pointer)
  /\ event' = Quiet
  /\ Stay /\ UNCHANGED synced

(* Mutant: a section still incomplete at the pointer goes on after it.     *)
PointerIgnored ==
  /\ pc = "first"
  /\ input = <<>>
  /\ pc' = "last"
  /\ input' = rest
  /\ rest' = <<>>
  /\ synced' = TRUE
  /\ event' = Quiet
  /\ Stay

(* What consume() does between its two calls of feed().                    *)
AtPointer ==
  /\ pc = "first"
  /\ input = <<>>
  /\ pc' = "last"
  /\ input' = rest
  /\ rest' = <<>>
  /\ synced' = TRUE
  /\ \/ mode = "Idle" /\ event' = Quiet /\ Stay
     \/ /\ mode # "Idle"
        /\ event' = ErrorReset("ExtraDataAfterSectionComplete")
        /\ BecomeIdle

(* Mutant: packets are fed before the first unit start, and when idle.     *)
AlwaysFed(data) ==
  /\ pc = "ready"
  /\ event' = Quiet
  /\ pc' = "last"
  /\ input' = data
  /\ Stay /\ UNCHANGED <<rest, synced>>

(* A packet that is not a unit start.                                      *)
Continuation(data) ==
  /\ pc = "ready"
  /\ \/ /\ ~synced
        /\ event' = Quiet
        /\ UNCHANGED <<pc, input>>
     \/ /\ synced /\ mode = "Idle"
        /\ event' = Error("ExtraDataAfterSectionComplete")
        /\ UNCHANGED <<pc, input>>
     \/ /\ synced /\ mode # "Idle"
        /\ event' = Quiet
        /\ pc' = "last"
        /\ input' = data
  /\ Stay /\ UNCHANGED <<rest, synced>>

Return ==
  /\ pc = "last"
  /\ input = <<>>
  /\ pc' = "ready"
  /\ event' = Quiet
  /\ Stay /\ UNCHANGED <<input, rest, synced>>

-----------------------------------------------------------------------------
(* feed(): the iterations of its loop.                                     *)

InLoop == pc \in {"first", "last"} /\ input # <<>> /\ UNCHANGED <<pc, rest, synced>>

(* Stuffing where a section could start ends the payload.                  *)
StuffingReached ==
  /\ InLoop /\ mode = "Idle" /\ Head(input) = Stuffing
  /\ input' = <<>>
  /\ event' = Quiet
  /\ Stay

AtSection == InLoop /\ mode = "Idle" /\ Head(input) # Stuffing

(* Idle, and not even a header left: buffer it.                            *)
HeaderStarts ==
  /\ AtSection /\ Len(input) < HeaderSize
  /\ Enter("Collecting", HeaderSize, input)
  /\ input' = <<>>
  /\ event' = Quiet

SectionRejected ==
  /\ AtSection /\ Len(input) >= HeaderSize /\ ~Valid(input)
  /\ LET skip == AtMost(Total(input), Len(input)) IN
       /\ input' = Drop(input, skip)
       /\ IF Total(input) > skip THEN Enter("Ignoring", Total(input) - skip, buf)
                                 ELSE Stay
  /\ event' = Error(HeaderError(Header(input)))

(* Mutant: a section delivered although its end is not there.              *)
SectionCutShort ==
  /\ AtSection /\ Len(input) >= HeaderSize /\ Valid(input)
  /\ event' = Section(Take(input, AtMost(Total(input), Len(input))))
  /\ input' = Drop(input, AtMost(Total(input), Len(input)))
  /\ Stay

(* The whole section is there: deliver it without copying.                 *)
SectionInPlace ==
  /\ AtSection /\ Len(input) >= HeaderSize /\ Valid(input)
  /\ Len(input) >= Total(input)
  /\ event' = Section(Take(input, Total(input)))
  /\ input' = Drop(input, Total(input))
  /\ Stay

SectionStarts ==
  /\ AtSection /\ Len(input) >= HeaderSize /\ Valid(input)
  /\ Len(input) < Total(input)
  /\ Enter("Collecting", Total(input), input)
  /\ input' = <<>>
  /\ event' = Quiet

(* Collecting: what is taken of the input, and the buffer with it.         *)
Taken == AtMost(count - Len(buf), Len(input))
Collected == buf \o Take(input, Taken)

Collecting == InLoop /\ mode = "Collecting" /\ input' = Drop(input, Taken)

CollectMore ==
  /\ Collecting /\ Len(Collected) < count
  /\ Enter("Collecting", count, Collected)
  /\ event' = Quiet

(* Mutants: a section that is all header is not noticed, and a target that *)
(* does not count the header.                                              *)
EmptySectionAwaited ==
  /\ Collecting /\ count = HeaderSize /\ Len(Collected) = count
  /\ Enter("Collecting", Total(Collected), Collected)
  /\ event' = Quiet

HeaderNotCounted ==
  /\ Collecting /\ count = HeaderSize /\ Len(Collected) = count
  /\ Enter("Collecting", SectionLength(Collected), Collected)
  /\ event' = Quiet

HeaderCollected ==
  /\ Collecting /\ count = HeaderSize /\ Len(Collected) = count
  /\ \/ /\ ~Valid(Collected)
        /\ Enter("Ignoring", SectionLength(Collected), <<>>)
        /\ event' = Error(HeaderError(Collected))
     \/ /\ Valid(Collected) /\ Total(Collected) = HeaderSize
        /\ BecomeIdle
        /\ event' = Section(Collected)
     \/ /\ Valid(Collected) /\ Total(Collected) # HeaderSize
        /\ Enter("Collecting", Total(Collected), Collected)
        /\ event' = Quiet

SectionCollected ==
  /\ Collecting /\ count # HeaderSize /\ Len(Collected) = count
  /\ BecomeIdle
  /\ event' = Section(Collected)

(* Mutant: more bytes are dropped than there are to ignore.                *)
IgnoreInput ==
  /\ InLoop /\ mode = "Ignoring"
  /\ input' = <<>>
  /\ Enter("Ignoring", count - Len(input), buf)
  /\ event' = Quiet

Ignore ==
  /\ InLoop /\ mode = "Ignoring"
  /\ LET drop == AtMost(count, Len(input)) IN
       /\ input' = Drop(input, drop)
       /\ IF drop = count THEN Enter("Idle", 0, buf)
                          ELSE Enter("Ignoring", count - drop, buf)
  /\ event' = Quiet

Loop ==
  \/ StuffingReached \/ HeaderStarts \/ SectionRejected \/ SectionInPlace
  \/ SectionStarts \/ CollectMore \/ HeaderCollected \/ SectionCollected \/ Ignore

(* What the framer does on its own once it has been given a packet.        *)
Run == Loop \/ AtPointer \/ Return

Packet ==
  \/ \E e \in {"NoPayloadInPsiPacket", "MalformedPayload"} : NoPayload(e)
  \/ PointerOutOfBounds
  \/ Reset
  \/ \E data \in Payloads :
       \/ Continuation(data)
       \/ \E pointer \in 0 .. Len(data) : UnitStart(pointer, data)

Next == Packet \/ Run

(* consume() is a call: once made it goes on running.                      *)
Spec == FramerInit /\ [][Next]_framerVars /\ WF_framerVars(Run)

-----------------------------------------------------------------------------

Mode == {"Idle", "Collecting", "Ignoring"}

TypeOK ==
  /\ pc \in {"ready", "first", "last"}
  /\ input \in Seq(Byte) /\ rest \in Seq(Byte) /\ buf \in Seq(Byte)
  /\ mode \in Mode
  /\ count \in Nat
  /\ synced \in BOOLEAN
  /\ event.section \in Seq(Byte)

(* While a section is being collected at least one byte is missing, so     *)
(* that `target - buf.len()' does not wrap round, and the buffer stays     *)
(* within the capacity it was created with.  At all other times it is      *)
(* empty: no byte of one section can get into the next.                    *)
BufferBounded ==
  IF mode = "Collecting"
  THEN Len(buf) < count /\ count <= HeaderSize + SectionLimit
  ELSE buf = <<>>

(* The length a section is collected to is the one its own header gives,   *)
(* through all the packets it takes to arrive.                             *)
TargetFitsHeader ==
  mode = "Collecting" =>
    IF Len(buf) < HeaderSize THEN count = HeaderSize
    ELSE Valid(buf) /\ count = Total(buf)

(* Nothing is delivered or reported of data before the first unit start:   *)
(* the framer stays idle.                                                  *)
UnsyncedIsIdle == ~synced => mode = "Idle" /\ event.section = <<>>

(* Every section delivered is exactly as long as its header says, and has  *)
(* a header that the syntax of the framer accepts.                         *)
SectionsAreWhole ==
  event.section # <<>> =>
    Valid(event.section) /\ Len(event.section) = Total(event.section)

(* feed() terminates: the packet is always handled in the end.             *)
FeedTerminates == pc # "ready" ~> pc = "ready"

-----------------------------------------------------------------------------
(* What comments in psi/mod.rs say.                                        *)

(* "After the pre-pointer phase the framer must be Idle, otherwise the     *)
(* upstream section's reported length disagrees with pointer_field": the   *)
(* error is raised only when bytes of the section in progress are missing. *)
ExtraDataMeansMissing ==
  [][pc = "first" /\ event'.error = "ExtraDataAfterSectionComplete" => count > 0]_framerVars
=============================================================================
