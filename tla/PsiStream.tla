------------------------------ MODULE PsiStream ------------------------------
(***************************************************************************)
(* A SectionSyntaxFramer with its parsers at the end of a lossy path.  A   *)
(* conforming multiplexer lays sections end to end, cuts them into packets *)
(* and sets the pointer_field of every packet in which a section starts.   *)
(* Packets may be lost.  There is no continuity check on this path: the    *)
(* framer goes on with whatever arrives next.                              *)
(*                                                                         *)
(* A byte is a record of where it comes from: the number of its section,   *)
(* its offset in it, and what the section's header says.                   *)
(***************************************************************************)
EXTENDS PsiFramer, SectionParsers, FiniteSets

CONSTANTS
  Broadcasts,  (* what may happen: records [stream, lossy, resets] of the  *)
               (* bytes sent, and whether packets may be lost, and reset() *)
               (* be called                                                *)
  PacketSize   (* bytes a packet's payload can hold, the pointer included  *)

VARIABLES
  stream,      (* the bytes of all the sections, end to end                *)
  lossy,       (* may packets be lost?                                     *)
  resets,      (* may the application call reset()?                        *)
  pos,         (* how many of them were sent                               *)
  got,         (* positions in the stream of the bytes that arrived        *)
  delivered,   (* the sections the framer delivered                        *)
  parsed,      (* the contents that reached the inner parser               *)
  outcome      (* pairs of a whole section's content and its verdict       *)

pathVars == <<stream, lossy, resets, pos, got>>
outVars == <<delivered, parsed, outcome>>
streamVars == <<framerVars, parserVars, pathVars, outVars>>

-----------------------------------------------------------------------------
(* What a multiplexer sends.                                               *)

(* Each byte lies in a section that is there as a whole, the sections are  *)
(* numbered in their order, and a section's header gives its length.       *)
Conforming(s) ==
  /\ s \in Seq(Byte)
  /\ \A i \in 1 .. Len(s) :
       /\ s[i] # Stuffing
       /\ s[i].sec \in Nat /\ s[i].version # NoVersion
       /\ s[i].len \in Nat /\ s[i].len >= HeaderSize
       /\ s[i].off \in 1 .. s[i].len
       /\ \A j \in 1 .. s[i].len :
            LET q == i - s[i].off + j IN
            q \in 1 .. Len(s) /\ s[q].sec = s[i].sec /\ s[q].off = j
       /\ s[i].off = 1 =>
            SectionLength(SubSeq(s, i, i + HeaderSize - 1)) = s[i].len - HeaderSize
  /\ \A i, j \in 1 .. Len(s) :
       /\ i <= j => s[i].sec <= s[j].sec
       /\ s[i].sec = s[j].sec =>
            /\ i - s[i].off = j - s[j].off /\ s[i].len = s[j].len
            /\ s[i].version = s[j].version /\ s[i].content = s[j].content

SectionOf(s, k) ==
  LET p == CHOOSE i \in 1 .. Len(s) : s[i].sec = k /\ s[i].off = 1
  IN  SubSeq(s, p, p + s[p].len - 1)

Accepted(s) == {k \in {s[i].sec : i \in 1 .. Len(s)} : Valid(SectionOf(s, k))}

(* version_number changes when the table does: between a section that the  *)
(* framer accepts and the next one.                                        *)
Versioned(s) ==
  \A k, m \in Accepted(s) :
    (k < m /\ \A n \in Accepted(s) : n <= k \/ m <= n) =>
      (SectionOf(s, k)[1].version = SectionOf(s, m)[1].version <=>
         SectionOf(s, k)[1].content = SectionOf(s, m)[1].content)

ASSUME StreamAssumption ==
  /\ PacketSize \in Nat
  /\ \A b \in Broadcasts : Conforming(b.stream) /\ Versioned(b.stream)

-----------------------------------------------------------------------------

Positions(k) == {i \in 1 .. Len(stream) : stream[i].sec = k}
SectionNumbers == {stream[i].sec : i \in 1 .. Len(stream)}
SentSection(k) == SectionOf(stream, k)

(* A CRC is taken to tell a section that was sent from anything else.      *)
Intact(s) == s = SentSection(s[1].sec)

-----------------------------------------------------------------------------

StreamInit ==
  /\ FramerInit
  /\ ParsersInit
  /\ \E b \in Broadcasts :
       stream = b.stream /\ lossy = b.lossy /\ resets = b.resets
  /\ pos = 0
  /\ got = {}
  /\ delivered = <<>>
  /\ parsed = <<>>
  /\ outcome = {}

(* What the parsers do with what a step of the framer reports.             *)
Parse ==
  LET s == event'.section IN
  IF s # <<>>
  THEN /\ ParseSection(s[3].version, Intact(s))
       /\ delivered' = Append(delivered, s)
       /\ parsed' = IF verdict' = "parsed" THEN Append(parsed, s[1].content) ELSE parsed
       /\ outcome' = IF Intact(s) THEN outcome \union {<<s[1].content, verdict'>>}
                                  ELSE outcome
  ELSE /\ UNCHANGED outVars
       /\ IF event'.reset THEN ResetParsers ELSE NoSection

(* The next packet: n bytes of the stream, and stuffing if they end with a *)
(* section.                                                                *)
Bytes(n) == SubSeq(stream, pos + 1, pos + n)
Starts(n) == {i \in 1 .. n : stream[pos + i].off = 1}
EndsSection(n) == stream[pos + n].off = stream[pos + n].len

CanSend(n, stuffed) ==
  /\ pc = "ready"
  /\ pos + n <= Len(stream)
  /\ n + (IF stuffed THEN 1 ELSE 0) + (IF Starts(n) # {} THEN 1 ELSE 0) <= PacketSize
  /\ stuffed => EndsSection(n)

Arrive(n, stuffed) ==
  /\ CanSend(n, stuffed)
  /\ LET data == IF stuffed THEN Append(Bytes(n), Stuffing) ELSE Bytes(n) IN
     IF Starts(n) = {} THEN Continuation(data)
     ELSE \E i \in Starts(n) :
            (\A j \in Starts(n) : i <= j) /\ UnitStart(i - 1, data)
  /\ Parse
  /\ pos' = pos + n
  /\ got' = got \union (pos + 1 .. pos + n)
  /\ UNCHANGED <<stream, lossy, resets>>

Lose(n) ==
  /\ lossy
  /\ CanSend(n, FALSE)
  /\ pos' = pos + n
  /\ UNCHANGED <<framerVars, parserVars, outVars, stream, lossy, resets, got>>

AppResets ==
  /\ resets /\ Reset /\ Parse
  /\ UNCHANGED pathVars

Runs == Run /\ Parse /\ UNCHANGED pathVars

StreamNext ==
  \/ \E n \in 1 .. PacketSize, stuffed \in BOOLEAN : Arrive(n, stuffed)
  \/ \E n \in 1 .. PacketSize : Lose(n)
  \/ AppResets
  \/ Runs

StreamSpec == StreamInit /\ [][StreamNext]_streamVars

-----------------------------------------------------------------------------

(* Sections the framer should deliver of the first n bytes of the stream.  *)
Sendable(n) == {k \in Accepted(stream) : \A i \in Positions(k) : i <= n}

RejectedWithNoBody(k) ==
  ~Valid(SentSection(k)) /\ Len(SentSection(k)) = HeaderSize

Lossless == got = 1 .. pos

InOrder ==
  \A i, j \in 1 .. Len(delivered) : i < j => delivered[i][1].sec < delivered[j][1].sec

(* With nothing lost, the sections delivered are those that were sent,     *)
(* byte for byte, each once and in their order, however they were cut      *)
(* into packets: headers split over packets, sections ending and starting  *)
(* in one packet, and sections of the other syntax in between.             *)
LosslessInOrder ==
  Lossless /\ ~resets /\ pc = "ready" =>
    /\ {delivered[i] : i \in 1 .. Len(delivered)} = {SentSection(k) : k \in Sendable(pos)}
    /\ InOrder

(* A reset() at any time loses the section in progress and nothing else:   *)
(* what is delivered is still whole sections in the order they were sent.  *)
DeliveredAreIntact ==
  Lossless => (\A i \in 1 .. Len(delivered) : Intact(delivered[i])) /\ InOrder

(* Loss is contained: a section all of whose packets arrived is delivered, *)
(* once, whatever was lost before it.                                      *)
ArrivedAreDelivered ==
  ~resets /\ pc = "ready" =>
    \A k \in Sendable(pos) :
      Positions(k) \subseteq got =>
        Cardinality({i \in 1 .. Len(delivered) : delivered[i] = SentSection(k)}) = 1

(* The framer complains of a conforming stream that nothing was lost of    *)
(* only after a section it rejects that has no body.                       *)
NoFalseAlarm ==
  Lossless /\ ~resets /\ event.error = "ExtraDataAfterSectionComplete" =>
    \E k \in SectionNumbers : RejectedWithNoBody(k)

(* With nothing lost the inner parser sees a table's content exactly when  *)
(* it changes: repetitions are not parsed again, changes are not missed.   *)
(* (A rejected section with no body may reset the parsers: NoFalseAlarm.)  *)
ParsedAreChanges ==
  Lossless /\ ~resets /\ (\A k \in SectionNumbers : ~RejectedWithNoBody(k)) =>
    /\ \A i \in 1 .. Len(parsed) - 1 : parsed[i] # parsed[i + 1]
    /\ pc = "ready" /\ Sendable(pos) # {} =>
         \E k \in Sendable(pos) :
           /\ \A m \in Sendable(pos) : m <= k
           /\ parsed # <<>> /\ parsed[Len(parsed)] = SentSection(k)[1].content

-----------------------------------------------------------------------------

(* What the comment of DedupSectionSyntaxPayloadParser says: it avoids     *)
(* re-parsing duplicate copies, so that what it suppresses was parsed.     *)
SuppressedWereParsed ==
  \A c \in {o[1] : o \in outcome} :
    <<c, "suppressed">> \in outcome => <<c, "parsed">> \in outcome
=============================================================================
