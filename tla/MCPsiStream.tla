----------------------------- MODULE MCPsiStream -----------------------------
(***************************************************************************)
(* Instances of PsiStream for TLC.                                         *)
(***************************************************************************)
EXTENDS PsiStream, SequencesExt

CONSTANTS Sections,    (* number of sections sent                          *)
          MaxLen       (* length of the longest, header included           *)

Token(k, j, l, f, v, c) ==
  [sec |-> k, off |-> j, len |-> l, fits |-> f, version |-> v, content |-> c]

StuffingToken == Token(0, 0, 0, FALSE, 0, 0)

(* What the framer reads from three bytes it takes for a header.  Bytes of *)
(* another place in a section mean some other, small length.               *)
TokenSectionLength(h) ==
  CASE h[3].off = HeaderSize -> h[3].len - HeaderSize
    [] h[3].off > HeaderSize -> h[3].off - HeaderSize
    [] h[3].off < HeaderSize -> h[3].off
TokenSyntaxFits(h) == h[2].off # 2 \/ h[2].fits

SectionRecord(l, f, v, c) == [len |-> l, fits |-> f, version |-> v, content |-> c]

SectionBytes(s, k) ==
  [j \in 1 .. s.len |-> Token(k, j, s.len, s.fits, s.version, s.content)]

StreamOf(layout) == FlattenSeq([k \in 1 .. Len(layout) |-> SectionBytes(layout[k], k)])

Lengths == HeaderSize .. MaxLen

Kinds == {SectionRecord(l, TRUE, v, v) : l \in Lengths, v \in 1 .. 2}
           \union {SectionRecord(l, FALSE, 1, 1) : l \in Lengths}

Tokens ==
  UNION {Range(SectionBytes(s, k)) : s \in Kinds, k \in 1 .. Sections}
    \union {StuffingToken}

(* Sections of a one-section table in two versions, and sections of the    *)
(* other syntax.                                                           *)
MixedLayouts == [1 .. Sections -> Kinds]

(* Sections of three kinds, of different lengths.                          *)
ThreeKindLayouts ==
  [1 .. Sections -> {SectionRecord(4, TRUE, 1, 1), SectionRecord(MaxLen, TRUE, 2, 2),
                     SectionRecord(4, FALSE, 1, 1)}]

(* A table of one section, sent over and over, its version changing.       *)
OneSectionLayouts ==
  [1 .. Sections -> {SectionRecord(l, TRUE, v, v) : l \in {4, MaxLen}, v \in 1 .. 2}]

(* Streams that all arrive, with and without calls of reset(), and shorter *)
(* lists of streams over a path that loses packets.                        *)
Sent(layouts, l, r) ==
  {[stream |-> StreamOf(s), lossy |-> l, resets |-> r] : s \in layouts}

AllBroadcasts ==
  Sent(MixedLayouts, FALSE, FALSE) \union Sent(MixedLayouts, FALSE, TRUE)
    \union Sent(ThreeKindLayouts, TRUE, FALSE)

LossyBroadcasts == Sent(OneSectionLayouts, TRUE, FALSE)
=============================================================================
