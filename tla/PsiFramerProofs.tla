--------------------------- MODULE PsiFramerProofs ---------------------------
(***************************************************************************)
(* Proofs about PsiFramer, for any bytes, headers, limits and payloads:    *)
(* its buffer and counters stay consistent, sections are delivered whole,  *)
(* and each iteration of the loop of feed() makes progress.                *)
(***************************************************************************)
EXTENDS PsiFramer, SequenceTheorems, TLAPS

-----------------------------------------------------------------------------
(* Slices and headers.                                                     *)

LEMMA TakeIs ==
  ASSUME NEW s \in Seq(Byte), NEW n \in 0 .. Len(s)
  PROVE  /\ Take(s, n) \in Seq(Byte)
         /\ Len(Take(s, n)) = n
         /\ \A i \in 1 .. n : Take(s, n)[i] = s[i]
<1>1. \A i \in 1 .. n : s[i] \in Byte
  BY ElementOfSeq, LenProperties
<1>2. QED BY <1>1, SubSeqProperties, LenProperties, Z3 DEF Take

LEMMA DropIs ==
  ASSUME NEW s \in Seq(Byte), NEW n \in 0 .. Len(s)
  PROVE  /\ Drop(s, n) \in Seq(Byte)
         /\ Len(Drop(s, n)) = Len(s) - n
         /\ \A i \in 1 .. Len(s) - n : Drop(s, n)[i] = s[n + i]
<1>1. \A i \in n + 1 .. Len(s) : s[i] \in Byte
  BY ElementOfSeq, LenProperties
<1>2. QED BY <1>1, SubSeqProperties, LenProperties, Z3 DEF Drop

(* The header of a sequence that is long enough to have one.               *)
LEMMA HeaderIs ==
  ASSUME NEW s \in Seq(Byte), Len(s) >= HeaderSize
  PROVE  /\ Header(s) \in Seq(Byte)
         /\ Len(Header(s)) = HeaderSize
         /\ \A i \in 1 .. HeaderSize : Header(s)[i] = s[i]
         /\ SectionLength(Header(s)) \in Nat
         /\ Total(s) = HeaderSize + SectionLength(Header(s))
<1>1. HeaderSize \in 0 .. Len(s)
  BY LenProperties DEF HeaderSize
<1>2. /\ Header(s) \in Seq(Byte)
      /\ Len(Header(s)) = HeaderSize
      /\ \A i \in 1 .. HeaderSize : Header(s)[i] = s[i]
  BY <1>1, TakeIs DEF Header
<1>3. Header(s) \in [1 .. HeaderSize -> Byte]
  BY <1>2, LenProperties
<1>4. QED BY <1>2, <1>3, FramerAssumption DEF Total

(* Two sequences with the same first bytes have the same header.           *)
LEMMA SameHeader ==
  ASSUME NEW s \in Seq(Byte), NEW t \in Seq(Byte),
         Len(s) >= HeaderSize, Len(t) >= HeaderSize,
         \A i \in 1 .. HeaderSize : s[i] = t[i]
  PROVE  Header(s) = Header(t) /\ Total(s) = Total(t) /\ (Valid(s) <=> Valid(t))
<1>1. /\ Header(s) \in Seq(Byte) /\ Header(t) \in Seq(Byte)
      /\ Len(Header(s)) = HeaderSize /\ Len(Header(t)) = HeaderSize
      /\ \A i \in 1 .. HeaderSize : Header(s)[i] = s[i] /\ Header(t)[i] = t[i]
  BY HeaderIs
<1>2. \A i \in 1 .. HeaderSize : Header(s)[i] = Header(t)[i]
  BY <1>1
<1>3. Header(s) = Header(t)
  BY <1>1, <1>2, SeqEqual
<1>4. QED BY <1>3 DEF Total, Valid

(* A header is its own header.                                             *)
LEMMA HeaderAlone ==
  ASSUME NEW s \in Seq(Byte), Len(s) = HeaderSize
  PROVE  Header(s) = s
<1>1. Len(s) >= HeaderSize
  BY DEF HeaderSize
<1>2. QED BY <1>1, HeaderIs, SeqEqual

(* A section that is not rejected keeps to the limit.                      *)
LEMMA ValidIsBounded ==
  ASSUME NEW s \in Seq(Byte), Len(s) >= HeaderSize, Valid(s)
  PROVE  Total(s) <= HeaderSize + SectionLimit
<1>1. SectionLength(Header(s)) \in Nat /\ Total(s) = HeaderSize + SectionLength(Header(s))
  BY HeaderIs
<1>2. ~(SectionLength(Header(s)) > SectionLimit)
  BY Zenon DEF Valid, HeaderError
<1>3. QED BY <1>1, <1>2, FramerAssumption DEF HeaderSize
-----------------------------------------------------------------------------
(* The inductive invariant.  That the framer stays idle before the first   *)
(* unit start needs to be known of what feed() has in hand: nothing, and   *)
(* it is never in the second of consume()'s calls.                         *)

NothingInHand ==
  /\ pc = "ready" => input = <<>>
  /\ ~synced => input = <<>> /\ pc # "last"

FramerInv ==
  TypeOK /\ BufferBounded /\ TargetFitsHeader /\ UnsyncedIsIdle /\ SectionsAreWhole
    /\ NothingInHand

LEMMA EventSections ==
  /\ Quiet.section = <<>>
  /\ \A e : Error(e).section = <<>> /\ ErrorReset(e).section = <<>>
  /\ \A s : Section(s).section = s
  /\ [Quiet EXCEPT !.reset = TRUE].section = <<>>
BY DEF Quiet, Error, ErrorReset, Section

LEMMA EmptySection == <<>> \in Seq(Byte) /\ Len(<<>>) = 0
OBVIOUS

LEMMA InitInv ==
  ASSUME FramerInit
  PROVE  FramerInv
<1>1. event.section = <<>>
  BY EventSections DEF FramerInit
<1>2. TypeOK
  BY <1>1, EmptySection DEF FramerInit, TypeOK, Mode
<1>3. BufferBounded /\ TargetFitsHeader /\ UnsyncedIsIdle /\ SectionsAreWhole /\ NothingInHand
  BY <1>1 DEF FramerInit, BufferBounded, TargetFitsHeader, UnsyncedIsIdle, SectionsAreWhole,
              NothingInHand
<1>4. QED BY <1>2, <1>3 DEF FramerInv

(* A step that collects nothing and delivers nothing: the framer stays as  *)
(* it is or becomes idle.                                                  *)
LEMMA QuietStep ==
  ASSUME FramerInv, Stay \/ BecomeIdle,
         event'.section = <<>>, NothingInHand',
         pc' \in {"ready", "first", "last"}, input' \in Seq(Byte), rest' \in Seq(Byte),
         synced' \in BOOLEAN, synced => synced'
  PROVE  FramerInv'
<1>1. CASE Stay
  BY <1>1, EmptySection
     DEF Stay, FramerInv, TypeOK, BufferBounded, TargetFitsHeader, UnsyncedIsIdle,
         SectionsAreWhole, Valid, Total, Header, Take
<1>2. CASE BecomeIdle
  BY <1>2, EmptySection
     DEF BecomeIdle, Enter, FramerInv, TypeOK, BufferBounded, TargetFitsHeader,
         UnsyncedIsIdle, SectionsAreWhole, Mode
<1>3. QED BY <1>1, <1>2

LEMMA ResetKeepsInv ==
  ASSUME FramerInv, Reset
  PROVE  FramerInv'
<1> USE EventSections, EmptySection
<1>1. BecomeIdle /\ event'.section = <<>> /\ NothingInHand'
  BY DEF Reset, FramerInv, NothingInHand
<1>2. QED BY <1>1, QuietStep DEF Reset, FramerInv, TypeOK

LEMMA ContinuationKeepsInv ==
  ASSUME FramerInv, NEW data \in Seq(Byte), Continuation(data)
  PROVE  FramerInv'
<1> USE EventSections, EmptySection
<1>1. Stay /\ event'.section = <<>> /\ NothingInHand'
  BY DEF Continuation, FramerInv, NothingInHand
<1>2. QED BY <1>1, QuietStep DEF Continuation, FramerInv, TypeOK

LEMMA UnitStartKeepsInv ==
  ASSUME FramerInv, NEW data \in Seq(Byte), NEW pointer \in 0 .. Len(data),
         UnitStart(pointer, data)
  PROVE  FramerInv'
<1> USE EventSections, EmptySection
<1>1. Take(data, pointer) \in Seq(Byte) /\ Drop(data, pointer) \in Seq(Byte)
  BY TakeIs, DropIs
<1>2. Stay /\ event'.section = <<>> /\ NothingInHand'
  BY DEF UnitStart, Stay, FramerInv, NothingInHand
<1>3. QED BY <1>1, <1>2, QuietStep DEF UnitStart, FramerInv, TypeOK

LEMMA PacketKeepsInv ==
  ASSUME FramerInv, Packet
  PROVE  FramerInv'
<1> USE EventSections, EmptySection
<1>1. ASSUME NEW e, NoPayload(e)
      PROVE  FramerInv'
  <2>1. Stay /\ event'.section = <<>> /\ NothingInHand'
    BY <1>1 DEF NoPayload, Stay, FramerInv, NothingInHand
  <2>2. QED BY <1>1, <2>1, QuietStep DEF NoPayload, FramerInv, TypeOK
<1>2. CASE PointerOutOfBounds
  <2>1. BecomeIdle /\ event'.section = <<>> /\ NothingInHand'
    BY <1>2 DEF PointerOutOfBounds, FramerInv, NothingInHand
  <2>2. QED BY <1>2, <2>1, QuietStep DEF PointerOutOfBounds, FramerInv, TypeOK
<1>3. CASE Reset
  BY <1>3, ResetKeepsInv
<1>4. ASSUME NEW data \in Payloads, Continuation(data)
      PROVE  FramerInv'
  <2>1. data \in Seq(Byte)
    BY FramerAssumption
  <2>2. QED BY <1>4, <2>1, ContinuationKeepsInv
<1>5. ASSUME NEW data \in Payloads, NEW pointer \in 0 .. Len(data), UnitStart(pointer, data)
      PROVE  FramerInv'
  <2>1. data \in Seq(Byte)
    BY FramerAssumption
  <2>2. QED BY <1>5, <2>1, UnitStartKeepsInv
<1>6. QED BY <1>1, <1>2, <1>3, <1>4, <1>5 DEF Packet

LEMMA CallsKeepInv ==
  ASSUME FramerInv, AtPointer \/ Return
  PROVE  FramerInv'
<1> USE EventSections, EmptySection
<1>a. /\ pc \in {"ready", "first", "last"} /\ input \in Seq(Byte) /\ rest \in Seq(Byte)
      /\ synced \in BOOLEAN /\ NothingInHand
  BY DEF FramerInv, TypeOK
<1>1. CASE AtPointer
  <2>1. (Stay \/ BecomeIdle) /\ event'.section = <<>> /\ NothingInHand'
    BY <1>1, <1>a DEF AtPointer, NothingInHand
  <2>2. QED BY <1>1, <1>a, <2>1, QuietStep DEF AtPointer
<1>2. CASE Return
  <2>1. Stay /\ event'.section = <<>> /\ NothingInHand'
    BY <1>2, <1>a DEF Return, NothingInHand
  <2>2. QED BY <1>2, <1>a, <2>1, QuietStep DEF Return
<1>3. QED BY <1>1, <1>2
-----------------------------------------------------------------------------
(* The iterations of feed().                                               *)

LEMMA InLoopFacts ==
  ASSUME FramerInv, InLoop
  PROVE  /\ pc \in {"first", "last"} /\ pc' = pc
         /\ input \in Seq(Byte) /\ Len(input) \in Nat /\ Len(input) > 0
         /\ rest \in Seq(Byte) /\ rest' = rest
         /\ buf \in Seq(Byte) /\ Len(buf) \in Nat
         /\ count \in Nat
         /\ synced = TRUE /\ synced' = TRUE
<1>1. /\ pc \in {"first", "last"} /\ pc' = pc
      /\ input \in Seq(Byte) /\ rest \in Seq(Byte) /\ rest' = rest
      /\ buf \in Seq(Byte) /\ count \in Nat /\ synced = TRUE /\ synced' = TRUE
  BY DEF FramerInv, TypeOK, NothingInHand, InLoop
<1>2. Len(input) \in Nat /\ Len(buf) \in Nat
  BY <1>1, LenProperties
<1>3. Len(input) # 0
  BY <1>1, EmptySeq DEF InLoop
<1>4. QED BY <1>1, <1>2, <1>3

(* What is left to show of an iteration: where it leaves the state and the *)
(* buffer, and that a section it delivers is whole.                        *)
LEMMA LoopStep ==
  ASSUME FramerInv, InLoop,
         input' \in Seq(Byte), buf' \in Seq(Byte), mode' \in Mode, count' \in Nat,
         event'.section \in Seq(Byte),
         BufferBounded', TargetFitsHeader', SectionsAreWhole'
  PROVE  FramerInv'
<1>1. TypeOK'
  BY InLoopFacts DEF TypeOK
<1>2. UnsyncedIsIdle' /\ NothingInHand'
  BY InLoopFacts DEF UnsyncedIsIdle, NothingInHand
<1>3. QED BY <1>1, <1>2 DEF FramerInv

(* As long as an input that is not empty stays before its end, there is    *)
(* less of it.                                                             *)
LEMMA DropFirst ==
  ASSUME NEW n \in Nat, input \in Seq(Byte), Len(input) \in Nat
  PROVE  LET k == AtMost(n, Len(input)) IN
         /\ k \in 0 .. Len(input) /\ k <= n
         /\ Drop(input, k) \in Seq(Byte)
         /\ Len(Drop(input, k)) = Len(input) - k
         /\ Take(input, k) \in Seq(Byte)
         /\ Len(Take(input, k)) = k
<1> DEFINE k == AtMost(n, Len(input))
<1>1. k \in 0 .. Len(input) /\ k <= n
  BY DEF AtMost
<1> HIDE DEF k
<1>2. QED BY <1>1, DropIs, TakeIs DEF k

LEMMA IdleKeepsInv ==
  ASSUME FramerInv, StuffingReached \/ HeaderStarts \/ SectionInPlace \/ SectionStarts
  PROVE  FramerInv'
<1> USE EmptySection
<1>a. InLoop /\ mode = "Idle" /\ buf = <<>>
  BY DEF FramerInv, BufferBounded, StuffingReached, HeaderStarts, SectionInPlace,
         SectionStarts, AtSection
<1>b. /\ input \in Seq(Byte) /\ Len(input) \in Nat /\ Len(input) > 0
      /\ buf \in Seq(Byte) /\ count \in Nat
  BY <1>a, InLoopFacts
<1>1. CASE StuffingReached
  <2>1. event'.section = <<>>
    BY <1>1, EventSections DEF StuffingReached
  <2>2. QED
    BY <1>1, <1>a, <1>b, <2>1, LoopStep
       DEF StuffingReached, Stay, Mode, BufferBounded, TargetFitsHeader, SectionsAreWhole
<1>2. CASE HeaderStarts
  <2>1. event'.section = <<>>
    BY <1>2, EventSections DEF HeaderStarts
  <2>2. mode' = "Collecting" /\ count' = HeaderSize /\ buf' = input /\ input' = <<>>
        /\ Len(input) < HeaderSize
    BY <1>2 DEF HeaderStarts, Enter
  <2>3. BufferBounded' /\ TargetFitsHeader' /\ SectionsAreWhole'
    BY <1>b, <2>1, <2>2, FramerAssumption
       DEF BufferBounded, TargetFitsHeader, SectionsAreWhole, HeaderSize
  <2>4. QED
    BY <1>a, <1>b, <2>1, <2>2, <2>3, LoopStep DEF Mode, HeaderSize
<1>3. CASE SectionInPlace
  <2>1. /\ Len(input) >= HeaderSize /\ Valid(input) /\ Len(input) >= Total(input)
        /\ event'.section = Take(input, Total(input))
        /\ input' = Drop(input, Total(input)) /\ Stay
    BY <1>3, EventSections DEF SectionInPlace
  <2>2. Total(input) \in 0 .. Len(input) /\ Total(input) >= HeaderSize
    BY <1>b, <2>1, HeaderIs DEF HeaderSize
  <2> DEFINE s == Take(input, Total(input))
  <2>3. s \in Seq(Byte) /\ Len(s) = Total(input)
        /\ \A i \in 1 .. Total(input) : s[i] = input[i]
    BY <1>b, <2>2, TakeIs
  <2>4. input' \in Seq(Byte)
    BY <1>b, <2>1, <2>2, DropIs
  <2> HIDE DEF s
  <2>5. \A i \in 1 .. HeaderSize : s[i] = input[i]
    BY <2>2, <2>3 DEF HeaderSize
  <2>6. Total(s) = Total(input) /\ Valid(s)
    BY <1>b, <2>1, <2>2, <2>3, <2>5, SameHeader
  <2>7. event'.section = s
    BY <2>1 DEF s
  <2>8. SectionsAreWhole'
    <3>1. Valid(event'.section) /\ Len(event'.section) = Total(event'.section)
      BY <2>3, <2>6, <2>7
    <3>2. QED BY <3>1 DEF SectionsAreWhole, Valid, Total, Header, Take, HeaderError
  <2>9. QED
    BY <1>a, <1>b, <2>1, <2>3, <2>4, <2>7, <2>8, LoopStep
       DEF Stay, Mode, BufferBounded, TargetFitsHeader
<1>4. CASE SectionStarts
  <2>1. event'.section = <<>>
    BY <1>4, EventSections DEF SectionStarts
  <2>2. /\ mode' = "Collecting" /\ count' = Total(input) /\ buf' = input /\ input' = <<>>
        /\ Len(input) < Total(input) /\ Len(input) >= HeaderSize /\ Valid(input)
    BY <1>4 DEF SectionStarts, Enter
  <2>3. Total(input) \in Nat /\ Total(input) <= HeaderSize + SectionLimit
    BY <1>b, <2>2, HeaderIs, ValidIsBounded DEF HeaderSize
  <2>4. BufferBounded' /\ SectionsAreWhole'
    BY <2>1, <2>2, <2>3 DEF BufferBounded, SectionsAreWhole
  <2>5. TargetFitsHeader'
    BY <1>b, <2>2 DEF TargetFitsHeader, Valid, Total, Header, Take, HeaderError, HeaderSize
  <2>6. QED
    BY <1>a, <1>b, <2>1, <2>2, <2>3, <2>4, <2>5, LoopStep DEF Mode
<1>5. QED BY <1>1, <1>2, <1>3, <1>4

LEMMA RejectedKeepsInv ==
  ASSUME FramerInv, SectionRejected
  PROVE  FramerInv'
<1>a. /\ InLoop /\ mode = "Idle" /\ buf = <<>>
      /\ Len(input) >= HeaderSize
  BY DEF FramerInv, BufferBounded, SectionRejected, AtSection
<1>b. /\ input \in Seq(Byte) /\ Len(input) \in Nat /\ buf \in Seq(Byte) /\ count \in Nat
  BY <1>a, InLoopFacts
<1>1. Total(input) \in Nat
  BY <1>a, <1>b, HeaderIs DEF HeaderSize
<1> DEFINE skip == AtMost(Total(input), Len(input))
<1>2. skip \in 0 .. Len(input) /\ skip <= Total(input) /\ Drop(input, skip) \in Seq(Byte)
  BY <1>1, <1>b, DropFirst
<1>3. event'.section = <<>>
  BY EventSections DEF SectionRejected
<1>4. /\ input' = Drop(input, skip)
      /\ IF Total(input) > skip THEN Enter("Ignoring", Total(input) - skip, buf) ELSE Stay
  BY DEF SectionRejected
<1> HIDE DEF skip
<1>5. /\ mode' \in {"Idle", "Ignoring"} /\ count' \in Nat /\ buf' = <<>>
      /\ input' \in Seq(Byte)
  BY <1>a, <1>b, <1>1, <1>2, <1>4 DEF Enter, Stay
<1>6. QED
  BY <1>a, <1>3, <1>5, EmptySection, LoopStep
     DEF Mode, BufferBounded, TargetFitsHeader, SectionsAreWhole

LEMMA IgnoreKeepsInv ==
  ASSUME FramerInv, Ignore
  PROVE  FramerInv'
<1>a. InLoop /\ mode = "Ignoring" /\ buf = <<>>
  BY DEF FramerInv, BufferBounded, Ignore
<1>b. /\ input \in Seq(Byte) /\ Len(input) \in Nat /\ buf \in Seq(Byte) /\ count \in Nat
  BY <1>a, InLoopFacts
<1> DEFINE drop == AtMost(count, Len(input))
<1>1. drop \in 0 .. Len(input) /\ drop <= count /\ Drop(input, drop) \in Seq(Byte)
  BY <1>b, DropFirst
<1>2. event'.section = <<>>
  BY EventSections DEF Ignore
<1>3. /\ input' = Drop(input, drop)
      /\ IF drop = count THEN Enter("Idle", 0, buf) ELSE Enter("Ignoring", count - drop, buf)
  BY DEF Ignore
<1> HIDE DEF drop
<1>4. /\ mode' \in {"Idle", "Ignoring"} /\ count' \in Nat /\ buf' = <<>>
      /\ input' \in Seq(Byte)
  BY <1>a, <1>b, <1>1, <1>3 DEF Enter
<1>5. QED
  BY <1>a, <1>2, <1>4, EmptySection, LoopStep
     DEF Mode, BufferBounded, TargetFitsHeader, SectionsAreWhole

(* What an iteration collects: at least one byte and at most what is       *)
(* missing; the header stays what it was once it is whole.                 *)
LEMMA CollectedIs ==
  ASSUME FramerInv, Collecting
  PROVE  /\ Collected \in Seq(Byte)
         /\ Len(Collected) \in Nat
         /\ Len(buf) < Len(Collected) /\ Len(Collected) <= count
         /\ input' \in Seq(Byte)
         /\ Len(input') \in Nat /\ Len(input') < Len(input)
         /\ Len(buf) >= HeaderSize =>
              /\ Len(Collected) >= HeaderSize
              /\ Total(Collected) = Total(buf) /\ (Valid(Collected) <=> Valid(buf))
<1>a. InLoop /\ mode = "Collecting" /\ Len(buf) < count /\ input' = Drop(input, Taken)
  BY DEF FramerInv, BufferBounded, Collecting
<1>b. /\ input \in Seq(Byte) /\ Len(input) \in Nat /\ Len(input) > 0
      /\ buf \in Seq(Byte) /\ Len(buf) \in Nat /\ count \in Nat
  BY <1>a, InLoopFacts
<1>1. count - Len(buf) \in Nat
  BY <1>a, <1>b
<1>2. /\ Taken \in 0 .. Len(input) /\ Taken <= count - Len(buf)
      /\ Drop(input, Taken) \in Seq(Byte) /\ Len(Drop(input, Taken)) = Len(input) - Taken
      /\ Take(input, Taken) \in Seq(Byte) /\ Len(Take(input, Taken)) = Taken
  BY <1>b, <1>1, DropFirst DEF Taken
<1>3. Taken > 0
  BY <1>a, <1>b DEF Taken, AtMost
<1> DEFINE t == Take(input, Taken)
<1>4. t \in Seq(Byte) /\ Len(t) = Taken /\ Collected = buf \o t
  BY <1>2 DEF Collected
<1> HIDE DEF t
<1>5. /\ Collected \in Seq(Byte)
      /\ Len(Collected) = Len(buf) + Taken
      /\ \A i \in 1 .. Len(buf) + Taken :
           Collected[i] = IF i <= Len(buf) THEN buf[i] ELSE t[i - Len(buf)]
  BY <1>b, <1>4, ConcatProperties
<1>6. ASSUME Len(buf) >= HeaderSize
      PROVE  /\ Len(Collected) >= HeaderSize
             /\ Total(Collected) = Total(buf) /\ (Valid(Collected) <=> Valid(buf))
  <2>1. Len(Collected) >= HeaderSize
    BY <1>b, <1>2, <1>5, <1>6 DEF HeaderSize
  <2>2. \A i \in 1 .. HeaderSize : Collected[i] = buf[i]
    BY <1>b, <1>2, <1>5, <1>6 DEF HeaderSize
  <2>3. QED BY <1>b, <1>5, <1>6, <2>1, <2>2, SameHeader
<1>7. /\ Len(Collected) \in Nat /\ Len(buf) < Len(Collected) /\ Len(Collected) <= count
      /\ input' \in Seq(Byte) /\ Len(input') \in Nat /\ Len(input') < Len(input)
  BY <1>a, <1>b, <1>2, <1>3, <1>5
<1>8. QED BY <1>5, <1>6, <1>7

LEMMA CollectingKeepsInv ==
  ASSUME FramerInv, CollectMore \/ HeaderCollected \/ SectionCollected
  PROVE  FramerInv'
<1> USE EmptySection
<1>a. Collecting /\ InLoop /\ mode = "Collecting"
  BY DEF CollectMore, HeaderCollected, SectionCollected, Collecting
<1>b. /\ Collected \in Seq(Byte) /\ Len(Collected) \in Nat
      /\ Len(buf) < Len(Collected) /\ Len(Collected) <= count
      /\ input' \in Seq(Byte)
      /\ Len(buf) >= HeaderSize =>
           /\ Len(Collected) >= HeaderSize
           /\ Total(Collected) = Total(buf) /\ (Valid(Collected) <=> Valid(buf))
  BY <1>a, CollectedIs
<1>c. /\ Len(buf) \in Nat /\ count \in Nat /\ count <= HeaderSize + SectionLimit
      /\ Len(buf) < HeaderSize => count = HeaderSize
      /\ Len(buf) >= HeaderSize => Valid(buf) /\ count = Total(buf)
  <2>1. Len(buf) \in Nat /\ count \in Nat
    BY <1>a, InLoopFacts
  <2>2. count <= HeaderSize + SectionLimit
    BY <1>a DEF FramerInv, BufferBounded
  <2>3. IF Len(buf) < HeaderSize THEN count = HeaderSize ELSE Valid(buf) /\ count = Total(buf)
    BY <1>a DEF FramerInv, TargetFitsHeader
  <2>4. QED BY <2>1, <2>2, <2>3 DEF HeaderSize
<1>1. CASE CollectMore
  <2>1. event'.section = <<>>
    BY <1>1, EventSections DEF CollectMore
  <2>2. mode' = "Collecting" /\ count' = count /\ buf' = Collected /\ Len(Collected) < count
    BY <1>1 DEF CollectMore, Enter
  <2>3. BufferBounded' /\ SectionsAreWhole'
    BY <1>c, <2>1, <2>2 DEF BufferBounded, SectionsAreWhole
  <2>4. IF Len(Collected) < HeaderSize THEN count = HeaderSize
        ELSE Valid(Collected) /\ count = Total(Collected)
    BY <1>b, <1>c, <2>2 DEF HeaderSize
  <2>5. TargetFitsHeader'
    BY <2>2, <2>4 DEF TargetFitsHeader, Valid, Total, Header, Take, HeaderError, HeaderSize
  <2>6. QED BY <1>a, <1>b, <1>c, <2>1, <2>2, <2>3, <2>5, LoopStep DEF Mode
<1>2. CASE HeaderCollected
  <2>a. Len(Collected) = HeaderSize
    BY <1>2 DEF HeaderCollected
  <2>b. /\ Len(Collected) >= HeaderSize /\ Header(Collected) = Collected
        /\ SectionLength(Collected) \in Nat
        /\ Total(Collected) = HeaderSize + SectionLength(Collected)
    BY <1>b, <2>a, HeaderAlone, HeaderIs DEF HeaderSize
  <2>1. CASE ~Valid(Collected)
    <3>1. event'.section = <<>>
      BY <1>2, <2>1, EventSections DEF HeaderCollected
    <3>2. mode' = "Ignoring" /\ count' = SectionLength(Collected) /\ buf' = <<>>
      BY <1>2, <2>1 DEF HeaderCollected, Enter
    <3>3. QED
      BY <1>a, <1>b, <2>b, <3>1, <3>2, LoopStep
         DEF Mode, BufferBounded, TargetFitsHeader, SectionsAreWhole
  <2>2. CASE Valid(Collected) /\ Total(Collected) = HeaderSize
    <3>1. event'.section = Collected
      BY <1>2, <2>2, EventSections DEF HeaderCollected
    <3>2. mode' = "Idle" /\ count' = 0 /\ buf' = <<>>
      BY <1>2, <2>2 DEF HeaderCollected, BecomeIdle, Enter
    <3>3. SectionsAreWhole'
      BY <2>2, <2>a, <3>1 DEF SectionsAreWhole, Valid, Total, Header, Take, HeaderError
    <3>4. QED
      BY <1>a, <1>b, <3>1, <3>2, <3>3, LoopStep DEF Mode, BufferBounded, TargetFitsHeader
  <2>3. CASE Valid(Collected) /\ Total(Collected) # HeaderSize
    <3>1. event'.section = <<>>
      BY <1>2, <2>3, EventSections DEF HeaderCollected
    <3>2. mode' = "Collecting" /\ count' = Total(Collected) /\ buf' = Collected
      BY <1>2, <2>3 DEF HeaderCollected, Enter
    <3>3. /\ Total(Collected) \in Nat /\ Len(Collected) < Total(Collected)
          /\ Total(Collected) <= HeaderSize + SectionLimit
      <4>1. Total(Collected) <= HeaderSize + SectionLimit
        BY <1>b, <2>3, <2>b, ValidIsBounded
      <4>2. QED BY <2>3, <2>a, <2>b, <4>1 DEF HeaderSize
    <3>4. BufferBounded' /\ SectionsAreWhole'
      BY <3>1, <3>2, <3>3 DEF BufferBounded, SectionsAreWhole
    <3>5. TargetFitsHeader'
      BY <2>3, <2>a, <3>2
         DEF TargetFitsHeader, Valid, Total, Header, Take, HeaderError, HeaderSize
    <3>6. QED BY <1>a, <1>b, <3>1, <3>2, <3>3, <3>4, <3>5, LoopStep DEF Mode
  <2>4. QED BY <2>1, <2>2, <2>3
<1>3. CASE SectionCollected
  <2>1. event'.section = Collected /\ count # HeaderSize /\ Len(Collected) = count
    BY <1>3, EventSections DEF SectionCollected
  <2>2. mode' = "Idle" /\ count' = 0 /\ buf' = <<>>
    BY <1>3 DEF SectionCollected, BecomeIdle, Enter
  <2>3. Valid(Collected) /\ Len(Collected) = Total(Collected)
    BY <1>b, <1>c, <2>1 DEF HeaderSize
  <2>4. SectionsAreWhole'
    BY <2>1, <2>3 DEF SectionsAreWhole, Valid, Total, Header, Take, HeaderError
  <2>5. QED
    BY <1>a, <1>b, <2>1, <2>2, <2>4, LoopStep DEF Mode, BufferBounded, TargetFitsHeader
<1>4. QED BY <1>1, <1>2, <1>3

LEMMA RunKeepsInv ==
  ASSUME FramerInv, Run
  PROVE  FramerInv'
BY CallsKeepInv, IdleKeepsInv, RejectedKeepsInv, CollectingKeepsInv, IgnoreKeepsInv
   DEF Run, Loop

LEMMA NextKeepsInv ==
  ASSUME FramerInv, Next
  PROVE  FramerInv'
BY PacketKeepsInv, RunKeepsInv DEF Next

LEMMA StutterKeepsInv ==
  ASSUME FramerInv, UNCHANGED framerVars
  PROVE  FramerInv'
BY DEF framerVars, FramerInv, TypeOK, BufferBounded, TargetFitsHeader, UnsyncedIsIdle,
       SectionsAreWhole, NothingInHand, Valid, Total, Header, Take, HeaderError

LEMMA FramerInvariant == Spec => []FramerInv
<1>1. FramerInit => FramerInv
  BY InitInv
<1>2. FramerInv /\ [Next]_framerVars => FramerInv'
  BY NextKeepsInv, StutterKeepsInv
<1>3. QED BY <1>1, <1>2, PTL DEF Spec

-----------------------------------------------------------------------------
(* The theorems, for any bytes, headers, limits and payloads.              *)

(* The fields of a Framer keep their types; `remaining' and the others do  *)
(* not become negative (psi/mod.rs, struct Framer).                        *)
THEOREM FramerTypeCorrect == Spec => []TypeOK
<1>1. FramerInv => TypeOK
  BY DEF FramerInv
<1>2. QED BY <1>1, FramerInvariant, PTL

(* The buffer lacks at least a byte of its target, stays within the limit, *)
(* and is empty whenever nothing is being collected (Framer::feed()).      *)
THEOREM BufferStaysBounded == Spec => []BufferBounded
<1>1. FramerInv => BufferBounded
  BY DEF FramerInv
<1>2. QED BY <1>1, FramerInvariant, PTL

(* `target' is what the header of the section in the buffer says, through  *)
(* all the packets that the section takes (Framer::feed()).                *)
THEOREM TargetFits == Spec => []TargetFitsHeader
<1>1. FramerInv => TargetFitsHeader
  BY DEF FramerInv
<1>2. QED BY <1>1, FramerInvariant, PTL

(* Before the first unit start nothing is collected or delivered           *)
(* (Framer::consume()).                                                    *)
THEOREM IdleUntilSynced == Spec => []UnsyncedIsIdle
<1>1. FramerInv => UnsyncedIsIdle
  BY DEF FramerInv
<1>2. QED BY <1>1, FramerInvariant, PTL

(* Whatever packets arrive, the sections delivered are as long as their    *)
(* headers say, and have headers that the framer accepts (Framer::feed()). *)
THEOREM DeliveredAreWhole == Spec => []SectionsAreWhole
<1>1. FramerInv => SectionsAreWhole
  BY DEF FramerInv
<1>2. QED BY <1>1, FramerInvariant, PTL

-----------------------------------------------------------------------------
(* The loop of feed() ends: what is left to do is a number, and each       *)
(* iteration makes it less.  An iteration that takes no byte, of a section *)
(* that is to be ignored and has no byte left, at least stops ignoring.    *)

Effort == 2 * Len(input) + (IF mode = "Ignoring" THEN 1 ELSE 0)

LEMMA EffortIs ==
  ASSUME FramerInv
  PROVE  Len(input) \in Nat /\ Effort \in Nat
         /\ (mode = "Ignoring" => Effort = 2 * Len(input) + 1)
         /\ (mode # "Ignoring" => Effort = 2 * Len(input))
<1>1. Len(input) \in Nat
  BY LenProperties DEF FramerInv, TypeOK
<1>2. QED BY <1>1 DEF Effort

LEMMA IterationProgresses ==
  ASSUME FramerInv, Loop
  PROVE  Effort' < Effort
<1>a. FramerInv'
  BY NextKeepsInv DEF Next, Run
<1>b. InLoop
  BY DEF Loop, StuffingReached, HeaderStarts, SectionRejected, SectionInPlace, SectionStarts,
         CollectMore, HeaderCollected, SectionCollected, Ignore, AtSection, Collecting
<1>c. /\ input \in Seq(Byte) /\ Len(input) \in Nat /\ Len(input) > 0 /\ count \in Nat
  BY <1>b, InLoopFacts
<1>d. /\ Len(input') \in Nat
      /\ Effort' \in {2 * Len(input'), 2 * Len(input') + 1}
      /\ mode' # "Ignoring" => Effort' = 2 * Len(input')
  <2>1. Len(input)' = Len(input')
    OBVIOUS
  <2>2. Len(input') \in Nat
    BY <1>a, LenProperties DEF FramerInv, TypeOK
  <2>3. QED BY <2>1, <2>2 DEF Effort
<1>e. /\ Effort \in {2 * Len(input), 2 * Len(input) + 1}
      /\ mode = "Ignoring" => Effort = 2 * Len(input) + 1
  BY <1>c DEF Effort
(* An iteration that takes a byte is progress, whatever else it does.      *)
<1>f. Len(input') < Len(input) => Effort' < Effort
  BY <1>c, <1>d, <1>e
<1>1. CASE StuffingReached \/ HeaderStarts \/ SectionStarts
  <2>1. Len(input') = 0
    BY <1>1, EmptySection DEF StuffingReached, HeaderStarts, SectionStarts
  <2>2. QED BY <1>c, <1>f, <2>1
<1>2. CASE SectionRejected
  <2>1. Len(input) >= HeaderSize /\ input' = Drop(input, AtMost(Total(input), Len(input)))
    BY <1>2 DEF SectionRejected
  <2>2. Total(input) \in Nat /\ Total(input) >= HeaderSize
    BY <1>c, <2>1, HeaderIs DEF HeaderSize
  <2>3. Len(input') = Len(input) - AtMost(Total(input), Len(input))
    BY <1>c, <2>1, <2>2, DropFirst
  <2>4. Len(input') < Len(input)
    BY <1>c, <2>2, <2>3 DEF AtMost, HeaderSize
  <2>5. QED BY <1>f, <2>4
<1>3. CASE SectionInPlace
  <2>1. /\ Len(input) >= HeaderSize /\ Len(input) >= Total(input)
        /\ input' = Drop(input, Total(input))
    BY <1>3 DEF SectionInPlace
  <2>2. Total(input) \in 0 .. Len(input) /\ Total(input) >= HeaderSize
    BY <1>c, <2>1, HeaderIs DEF HeaderSize
  <2>3. Len(input') = Len(input) - Total(input)
    BY <1>c, <2>1, <2>2, DropIs
  <2>4. QED BY <1>c, <1>f, <2>2, <2>3 DEF HeaderSize
<1>4. CASE CollectMore \/ HeaderCollected \/ SectionCollected
  <2>1. Collecting
    BY <1>4 DEF CollectMore, HeaderCollected, SectionCollected
  <2>2. Len(input') < Len(input)
    BY <2>1, CollectedIs
  <2>3. QED BY <1>f, <2>2
<1>5. CASE Ignore
  <2> DEFINE drop == AtMost(count, Len(input))
  <2>1. drop \in 0 .. Len(input) /\ Len(Drop(input, drop)) = Len(input) - drop
    BY <1>c, DropFirst
  <2>2. /\ mode = "Ignoring" /\ input' = Drop(input, drop)
        /\ IF drop = count THEN Enter("Idle", 0, buf) ELSE Enter("Ignoring", count - drop, buf)
    BY <1>5 DEF Ignore
  <2>3. drop # count => drop = Len(input)
    BY DEF AtMost
  <2> HIDE DEF drop
  <2>4. CASE drop = count
    <3>1. mode' = "Idle"
      BY <2>2, <2>4 DEF Enter
    <3>2. QED BY <1>c, <1>d, <1>e, <2>1, <2>2, <3>1
  <2>5. CASE drop # count
    <3>1. Len(input') < Len(input)
      BY <1>c, <2>1, <2>2, <2>3, <2>5
    <3>2. QED BY <1>f, <3>1
  <2>6. QED BY <2>4, <2>5
<1>6. QED BY <1>1, <1>2, <1>3, <1>4, <1>5 DEF Loop

(* Whatever bytes a packet holds, feed() does not go on for ever: every    *)
(* iteration of its loop (psi/mod.rs, `while !data.is_empty()') lessens a  *)
(* natural number.                                                         *)
THEOREM EachIterationProgresses ==
  Spec => [][Loop => Effort \in Nat /\ Effort' < Effort]_framerVars
<1>1. FramerInv /\ [Next]_framerVars => [Loop => Effort \in Nat /\ Effort' < Effort]_framerVars
  BY EffortIs, IterationProgresses
<1>2. QED BY <1>1, FramerInvariant, PTL DEF Spec
=============================================================================
