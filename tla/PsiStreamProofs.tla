--------------------------- MODULE PsiStreamProofs ---------------------------
(***************************************************************************)
(* Proofs about PsiStream, for any conforming stream, any sizes of packets *)
(* and any bytes: what was sent and arrives is what is delivered.          *)
(***************************************************************************)
EXTENDS PsiStream, PsiFramerProofs, FiniteSetTheorems

-----------------------------------------------------------------------------
(* Sections of a conforming stream.                                        *)

LEMMA ByteIs ==
  ASSUME NEW s, Conforming(s), NEW i \in 1 .. Len(s)
  PROVE  /\ s \in Seq(Byte) /\ Len(s) \in Nat /\ s[i] \in Byte /\ s[i] # Stuffing
         /\ s[i].sec \in Nat /\ s[i].version # NoVersion
         /\ s[i].len \in Nat /\ s[i].len >= HeaderSize
         /\ s[i].off \in Nat /\ s[i].off >= 1 /\ s[i].off <= s[i].len
<1>1. s \in Seq(Byte)
  BY DEF Conforming
<1>2. s[i] \in Byte /\ Len(s) \in Nat
  BY <1>1, ElementOfSeq, LenProperties
<1>3. QED BY <1>1, <1>2 DEF Conforming

LEMMA SubSeqIs ==
  ASSUME NEW s \in Seq(Byte), NEW b \in Nat, NEW l \in Nat, b + l <= Len(s)
  PROVE  /\ SubSeq(s, b + 1, b + l) \in Seq(Byte)
         /\ Len(SubSeq(s, b + 1, b + l)) = l
         /\ \A j \in 1 .. l : SubSeq(s, b + 1, b + l)[j] = s[b + j]
<1> DEFINE m == b + 1
           n == b + l
<1>1. /\ m \in Int /\ n \in Int /\ n - m + 1 = l /\ (m <= n <=> l # 0)
      /\ \A j \in 1 .. l : m + j - 1 = b + j
  OBVIOUS
<1>2. Len(s) \in Nat
  BY LenProperties
<1>3. \A q \in m .. n : s[q] \in Byte
  BY <1>2, ElementOfSeq
<1> HIDE DEF m, n
<1>4. /\ SubSeq(s, m, n) \in Seq(Byte)
      /\ Len(SubSeq(s, m, n)) = IF m <= n THEN n - m + 1 ELSE 0
      /\ \A j \in 1 .. n - m + 1 : SubSeq(s, m, n)[j] = s[m + j - 1]
  BY <1>1, <1>3, SubSeqProperties
<1>5. /\ SubSeq(s, m, n) \in Seq(Byte)
      /\ Len(SubSeq(s, m, n)) = l
      /\ \A j \in 1 .. l : SubSeq(s, m, n)[j] = s[b + j]
  BY <1>1, <1>4
<1>6. QED BY <1>5 DEF m, n

(* The section that byte i lies in starts at i - s[i].off + 1.             *)
LEMMA SectionIs ==
  ASSUME NEW s, Conforming(s), NEW i \in 1 .. Len(s)
  PROVE  /\ i - s[i].off \in Nat
         /\ i - s[i].off + s[i].len <= Len(s)
         /\ \A j \in 1 .. s[i].len :
              LET q == i - s[i].off + j IN
              /\ q \in 1 .. Len(s) /\ s[q].sec = s[i].sec /\ s[q].off = j
              /\ s[q].len = s[i].len /\ s[q].version = s[i].version
              /\ s[q].content = s[i].content
         /\ SectionOf(s, s[i].sec) \in Seq(Byte)
         /\ Len(SectionOf(s, s[i].sec)) = s[i].len
         /\ \A j \in 1 .. s[i].len : SectionOf(s, s[i].sec)[j] = s[i - s[i].off + j]
<1> DEFINE b == i - s[i].off
           l == s[i].len
<1>a. /\ s[i].sec \in Nat /\ l \in Nat /\ l >= 3 /\ Len(s) \in Nat /\ s \in Seq(Byte)
      /\ s[i].off \in Nat /\ s[i].off >= 1 /\ s[i].off <= l
  BY ByteIs DEF HeaderSize
<1>1. \A j \in 1 .. l : b + j \in 1 .. Len(s) /\ s[b + j].sec = s[i].sec /\ s[b + j].off = j
  BY DEF Conforming
<1>2. \A q \in 1 .. Len(s) :
        s[q].sec = s[i].sec =>
          /\ q - s[q].off = b /\ s[q].len = l
          /\ s[q].version = s[i].version /\ s[q].content = s[i].content
  BY DEF Conforming
<1>3. b \in Int
  BY <1>a
<1> HIDE DEF b, l
<1>4. b \in Nat /\ b + l <= Len(s)
  <2>1. b + 1 \in 1 .. Len(s) /\ b + l \in 1 .. Len(s)
    BY <1>a, <1>1
  <2>2. QED BY <2>1, <1>3, <1>a
<1>5. \A j \in 1 .. l :
        /\ b + j \in 1 .. Len(s) /\ s[b + j].sec = s[i].sec /\ s[b + j].off = j
        /\ s[b + j].len = l /\ s[b + j].version = s[i].version
        /\ s[b + j].content = s[i].content
  BY <1>1, <1>2
<1> DEFINE p == CHOOSE q \in 1 .. Len(s) : s[q].sec = s[i].sec /\ s[q].off = 1
<1>6. b + 1 \in 1 .. Len(s) /\ s[b + 1].sec = s[i].sec /\ s[b + 1].off = 1
  BY <1>a, <1>5
<1>7. p \in 1 .. Len(s) /\ s[p].sec = s[i].sec /\ s[p].off = 1
  BY <1>6
<1>8. SectionOf(s, s[i].sec) = SubSeq(s, p, p + s[p].len - 1)
  BY DEF SectionOf
<1> HIDE DEF p
<1>9. p = b + 1 /\ s[p].len = l
  BY <1>2, <1>3, <1>7, <1>a
<1>10. SectionOf(s, s[i].sec) = SubSeq(s, b + 1, b + l)
  <2>1. p + s[p].len - 1 = b + l
    BY <1>9, <1>3, <1>a
  <2>2. QED BY <1>8, <1>9, <2>1
<1>11. /\ SectionOf(s, s[i].sec) \in Seq(Byte)
       /\ Len(SectionOf(s, s[i].sec)) = l
       /\ \A j \in 1 .. l : SectionOf(s, s[i].sec)[j] = s[b + j]
  BY <1>4, <1>10, <1>a, SubSeqIs
<1>12. QED BY <1>4, <1>5, <1>11 DEF b, l

LEMMA SectionByte ==
  ASSUME NEW s, Conforming(s), NEW i \in 1 .. Len(s),
         NEW j \in 1 .. s[i].len, NEW q, q = i - s[i].off + j
  PROVE  /\ q \in 1 .. Len(s) /\ s[q].sec = s[i].sec /\ s[q].off = j
         /\ s[q].len = s[i].len /\ s[q].version = s[i].version
         /\ s[q].content = s[i].content
BY SectionIs

(* What the framer reads from the first bytes of a section, wherever they  *)
(* are.                                                                    *)
LEMMA HeaderSays ==
  ASSUME NEW s, Conforming(s), NEW i \in 1 .. Len(s),
         NEW t \in Seq(Byte), Len(t) >= HeaderSize,
         \A j \in 1 .. HeaderSize : t[j] = s[i - s[i].off + j]
  PROVE  /\ Total(t) = s[i].len
         /\ Valid(t) <=> Valid(SectionOf(s, s[i].sec))
<1> DEFINE b == i - s[i].off
           l == s[i].len
           u == SectionOf(s, s[i].sec)
<1>a. l \in Nat /\ l >= 3 /\ Len(s) \in Nat
  BY ByteIs DEF HeaderSize
<1>b. /\ b \in Nat /\ b + l <= Len(s) /\ u \in Seq(Byte) /\ Len(u) = l
      /\ \A j \in 1 .. l : u[j] = s[b + j]
  BY SectionIs
<1>c. b + 1 \in 1 .. Len(s) /\ s[b + 1].off = 1 /\ s[b + 1].len = l
  <2>1. 1 \in 1 .. s[i].len
    BY <1>a
  <2>2. QED BY <2>1, SectionByte
<1>1. /\ b \in Nat /\ l \in Nat /\ l >= 3 /\ b + l <= Len(s) /\ Len(s) \in Nat
      /\ b + 1 \in 1 .. Len(s) /\ s[b + 1].off = 1 /\ s[b + 1].len = l
      /\ u \in Seq(Byte) /\ Len(u) = l /\ \A j \in 1 .. l : u[j] = s[b + j]
  BY <1>a, <1>b, <1>c
<1>2. s \in Seq(Byte)
  BY DEF Conforming
<1> HIDE DEF b, l, u
<1>3. ASSUME NEW j \in 1 .. HeaderSize
      PROVE  t[j] = u[j]
  <2>1. j \in 1 .. l
    BY <1>a DEF HeaderSize, l
  <2>2. u[j] = s[b + j]
    BY <1>1, <2>1
  <2>3. t[j] = s[b + j]
    BY DEF b
  <2>4. QED BY <2>2, <2>3
<1>4. Header(t) = Header(u) /\ Total(t) = Total(u) /\ (Valid(t) <=> Valid(u))
  BY <1>1, <1>3, SameHeader DEF HeaderSize
<1>5. SectionLength(SubSeq(s, b + 1, b + 3)) = l - 3
  <2>1. b + 1 + HeaderSize - 1 = b + 3
    BY <1>1 DEF HeaderSize
  <2>2. SectionLength(SubSeq(s, b + 1, b + 1 + HeaderSize - 1)) = s[b + 1].len - HeaderSize
    BY <1>1 DEF Conforming
  <2>3. QED BY <1>1, <2>1, <2>2 DEF HeaderSize
<1>6. SubSeq(s, b + 1, b + 3) = Header(u)
  <2>1. /\ Header(u) \in Seq(Byte) /\ Len(Header(u)) = 3
        /\ \A j \in 1 .. 3 : Header(u)[j] = u[j]
    BY <1>1, HeaderIs DEF HeaderSize
  <2>2. /\ SubSeq(s, b + 1, b + 3) \in Seq(Byte) /\ Len(SubSeq(s, b + 1, b + 3)) = 3
        /\ \A j \in 1 .. 3 : SubSeq(s, b + 1, b + 3)[j] = s[b + j]
    <3>1. 3 \in Nat /\ b + 3 <= Len(s)
      BY <1>1
    <3>2. QED BY <1>1, <1>2, <3>1, SubSeqIs
  <2>3. \A j \in 1 .. 3 : SubSeq(s, b + 1, b + 3)[j] = Header(u)[j]
    BY <1>1, <2>1, <2>2
  <2>4. QED BY <2>1, <2>2, <2>3, SeqEqual
<1>7. Total(u) = l
  <2>1. SectionLength(Header(u)) = l - 3
    BY <1>5, <1>6
  <2>2. QED BY <1>1, <2>1 DEF Total, HeaderSize
<1>8. QED BY <1>4, <1>7 DEF l, u

(* A section's end is where the next one starts, or the stream ends.       *)
Boundary(s, p) == p = Len(s) \/ s[p + 1].off = 1

LEMMA EndIsBoundary ==
  ASSUME NEW s, Conforming(s), NEW p \in 1 .. Len(s)
  PROVE  Boundary(s, p) <=> s[p].off = s[p].len
<1>1. /\ Len(s) \in Nat /\ p \in Nat /\ 1 <= p /\ p <= Len(s)
      /\ s[p].off \in Nat /\ s[p].len \in Nat /\ 1 <= s[p].off /\ s[p].off <= s[p].len
  BY ByteIs
<1>2. ASSUME p = Len(s)
      PROVE  s[p].off = s[p].len
  <2>1. p - s[p].off + s[p].len <= Len(s)
    BY SectionIs
  <2>2. QED BY <1>1, <1>2, <2>1
<1>3. ASSUME p # Len(s), s[p + 1].off = 1
      PROVE  s[p].off = s[p].len
  <2>1. SUFFICES ASSUME s[p].off < s[p].len PROVE FALSE
    BY <1>1
  <2>2. s[p].off + 1 \in 1 .. s[p].len
    BY <1>1, <2>1
  <2>3. s[p - s[p].off + (s[p].off + 1)].off = s[p].off + 1
    BY <2>2, SectionIs
  <2>4. p - s[p].off + (s[p].off + 1) = p + 1
    BY <1>1
  <2>5. QED BY <1>1, <1>3, <2>3, <2>4
<1>4. ASSUME p # Len(s), s[p + 1].off # 1, s[p].off = s[p].len
      PROVE  FALSE
  <2> DEFINE n == p + 1
             o == s[n].off
             j == o - 1
  <2>1. n \in 1 .. Len(s) /\ n = p + 1
    BY <1>1, <1>4
  <2> HIDE DEF n
  <2>2. o \in Nat /\ o > 1 /\ s[n].len \in Nat /\ o <= s[n].len
    <3>1. s[n].off # 1
      BY <1>4, <2>1
    <3>2. QED BY <2>1, <3>1, ByteIs
  <2>3. j \in 1 .. s[n].len /\ p = n - s[n].off + j
    BY <1>1, <2>1, <2>2
  <2> HIDE DEF j
  <2>4. s[p].off = j /\ s[p].len = s[n].len
    BY <2>1, <2>3, SectionByte
  <2>5. j # s[n].len
    BY <2>2 DEF j
  <2>6. QED BY <1>4, <2>4, <2>5
<1>5. QED BY <1>2, <1>3, <1>4 DEF Boundary

(* Where no section starts, the section goes on.                           *)
LEMMA SameUntilStart ==
  ASSUME NEW s, Conforming(s), NEW p \in 1 .. Len(s), NEW q \in p .. Len(s),
         \A r \in p + 1 .. q : s[r].off > 1
  PROVE  s[q].sec = s[p].sec /\ s[q].off = s[p].off + (q - p) /\ s[q].len = s[p].len
<1>1. q \in 1 .. Len(s) /\ p \in Nat /\ q \in Nat /\ Len(s) \in Nat /\ p <= q
      /\ s[p].off \in Nat
  BY ByteIs
<1>2. s[q].off \in Nat /\ s[q].off >= 1 /\ s[q].len \in Nat /\ s[q].off <= s[q].len
  BY <1>1, ByteIs
<1>3. q - s[q].off + 1 <= p
  <2>1. SUFFICES ASSUME q - s[q].off + 1 > p PROVE FALSE
    BY <1>1, <1>2
  <2>2. s[q - s[q].off + 1].off = 1
    BY <1>1, <1>2, SectionIs
  <2>3. q - s[q].off + 1 \in p + 1 .. q
    BY <1>1, <1>2, <2>1
  <2>4. QED BY <2>2, <2>3
<1> DEFINE j == p - (q - s[q].off)
<1>4. j \in 1 .. s[q].len /\ p = q - s[q].off + j
  BY <1>1, <1>2, <1>3
<1> HIDE DEF j
<1>5. s[p].sec = s[q].sec /\ s[p].off = j /\ s[p].len = s[q].len
  BY <1>1, <1>4, SectionByte
<1>6. QED BY <1>1, <1>2, <1>5 DEF j

(* The bytes after a section's end belong to later sections.               *)
LEMMA LaterSections ==
  ASSUME NEW s, Conforming(s), NEW p \in 1 .. Len(s), NEW q \in p + 1 .. Len(s)
  PROVE  s[p].sec <= s[q].sec /\ (s[p].off = s[p].len => s[p].sec < s[q].sec)
<1>1. q \in 1 .. Len(s) /\ p \in Nat /\ q \in Nat /\ p < q
  BY ByteIs
<1>2. /\ s[p].sec \in Nat /\ s[p].off \in Nat /\ s[p].len \in Nat
      /\ s[q].sec \in Nat /\ s[q].off \in Nat /\ s[q].len \in Nat /\ s[q].off <= s[q].len
  BY <1>1, ByteIs
<1>3. /\ s[p].sec <= s[q].sec
      /\ s[p].sec = s[q].sec => p - s[p].off = q - s[q].off /\ s[p].len = s[q].len
  BY <1>1 DEF Conforming
<1>4. QED BY <1>1, <1>2, <1>3

-----------------------------------------------------------------------------
(* Bytes that the framer has in hand lie in the stream from p to e, but    *)
(* for the stuffing that may follow the end of a section.                  *)

Lies(s, x, p, e) ==
  /\ x \in Seq(Byte) /\ p \in Nat /\ e \in p .. Len(s)
  /\ \/ Len(x) = e - p
     \/ Len(x) = e - p + 1 /\ x[e - p + 1] = Stuffing /\ Boundary(s, e)
  /\ \A i \in 1 .. e - p : x[i] = s[p + i]

LEMMA LiesTypes ==
  ASSUME NEW s \in Seq(Byte), NEW x, NEW p, NEW e, Lies(s, x, p, e)
  PROVE  /\ x \in Seq(Byte) /\ Len(x) \in Nat /\ Len(s) \in Nat
         /\ p \in Nat /\ e \in Nat /\ p <= e /\ e <= Len(s)
         /\ Len(x) \in {e - p, e - p + 1}
<1>1. x \in Seq(Byte) /\ p \in Nat /\ e \in p .. Len(s)
      /\ (Len(x) = e - p \/ Len(x) = e - p + 1)
  BY DEF Lies
<1>2. Len(x) \in Nat /\ Len(s) \in Nat
  BY <1>1, LenProperties
<1>3. QED BY <1>1, <1>2

LEMMA LiesEmpty ==
  ASSUME NEW s \in Seq(Byte), NEW p, NEW e
  PROVE  /\ Lies(s, <<>>, p, e) => p = e
         /\ e \in 0 .. Len(s) => Lies(s, <<>>, e, e)
<1>0. Len(s) \in Nat
  BY LenProperties
<1>1. ASSUME Lies(s, <<>>, p, e)
      PROVE  p = e
  <2>1. p \in Nat /\ e \in Nat /\ p <= e /\ Len(<<>>) \in {e - p, e - p + 1}
    BY <1>1, LiesTypes
  <2>2. QED BY <2>1, EmptySection
<1>2. ASSUME e \in 0 .. Len(s)
      PROVE  Lies(s, <<>>, e, e)
  <2>1. e \in Nat /\ e \in e .. Len(s) /\ e - e = 0
    BY <1>0, <1>2
  <2>2. QED BY <2>1, EmptySection DEF Lies
<1>3. QED BY <1>1, <1>2

(* Where reading d more bytes leads.                                       *)
LEMMA LiesDrop ==
  ASSUME NEW s \in Seq(Byte), NEW x, NEW p, NEW e, Lies(s, x, p, e),
         NEW d \in 0 .. Len(x)
  PROVE  Lies(s, Drop(x, d), AtMost(p + d, e), e)
<1>1. /\ x \in Seq(Byte) /\ Len(x) \in Nat /\ Len(s) \in Nat
      /\ p \in Nat /\ e \in Nat /\ p <= e /\ e <= Len(s) /\ e \in p .. Len(s)
  BY LiesTypes DEF Lies
<1> DEFINE y == Drop(x, d)
<1>2. /\ y \in Seq(Byte) /\ Len(y) = Len(x) - d
      /\ \A i \in 1 .. Len(x) - d : y[i] = x[d + i]
  BY <1>1, DropIs
<1>3. /\ \/ Len(x) = e - p
         \/ Len(x) = e - p + 1 /\ x[e - p + 1] = Stuffing /\ Boundary(s, e)
      /\ \A i \in 1 .. e - p : x[i] = s[p + i]
  BY DEF Lies
<1> HIDE DEF y
<1>4. CASE p + d <= e
  <2> DEFINE r == p + d
  <2>1. r \in Nat /\ e \in r .. Len(s) /\ e - r = e - p - d /\ AtMost(p + d, e) = r
    BY <1>1, <1>4 DEF AtMost
  <2>2. \A i \in 1 .. e - r : y[i] = s[r + i]
    <3>1. TAKE i \in 1 .. e - r
    <3>2. d + i \in 1 .. e - p /\ i \in 1 .. Len(x) - d /\ p + (d + i) = r + i
      BY <1>1, <1>3, <2>1
    <3>3. QED BY <1>2, <1>3, <3>2
  <2>3. CASE Len(x) = e - p
    <3>1. Len(y) = e - r
      BY <1>1, <1>2, <2>1, <2>3
    <3>2. QED BY <1>2, <2>1, <2>2, <3>1 DEF Lies, y
  <2>4. CASE Len(x) = e - p + 1 /\ x[e - p + 1] = Stuffing /\ Boundary(s, e)
    <3>1. Len(y) = e - r + 1 /\ e - r + 1 \in 1 .. Len(x) - d /\ d + (e - r + 1) = e - p + 1
      BY <1>1, <1>2, <1>4, <2>1, <2>4
    <3>2. y[e - r + 1] = Stuffing
      BY <1>2, <2>4, <3>1
    <3>3. QED BY <1>2, <2>1, <2>2, <2>4, <3>1, <3>2 DEF Lies, y
  <2>5. QED BY <1>3, <2>3, <2>4
<1>5. CASE ~(p + d <= e)
  <2>1. Len(y) = 0 /\ AtMost(p + d, e) = e
    BY <1>1, <1>2, <1>3, <1>5 DEF AtMost
  <2>2. y = <<>>
    BY <1>2, <2>1, EmptySeq
  <2>3. e \in 0 .. Len(s)
    BY <1>1
  <2>4. QED BY <2>1, <2>2, <2>3, LiesEmpty DEF y
<1>6. QED BY <1>4, <1>5

(* Stuffing comes after the end of a section only: the bytes in hand have  *)
(* all the `room' bytes that a section lacks, or all are the section's.    *)
LEMMA LiesRoom ==
  ASSUME NEW s, Conforming(s), NEW x, NEW p, NEW e, Lies(s, x, p, e), p < e,
         NEW room, room = s[p + 1].len - s[p + 1].off + 1
  PROVE  /\ room \in Nat /\ room >= 1
         /\ IF room <= Len(x) THEN p + room <= e
                              ELSE Len(x) = e - p
<1> DEFINE n == p + 1
<1>1. /\ s \in Seq(Byte) /\ x \in Seq(Byte) /\ Len(x) \in Nat /\ Len(s) \in Nat
      /\ p \in Nat /\ e \in Nat /\ e <= Len(s) /\ n \in 1 .. Len(s) /\ n = p + 1
      /\ Len(x) \in {e - p, e - p + 1}
  <2>1. s \in Seq(Byte)
    BY DEF Conforming
  <2>2. QED BY <2>1, LiesTypes
<1> HIDE DEF n
<1>2. /\ s[n].len \in Nat /\ s[n].off \in Nat /\ s[n].off >= 1 /\ s[n].off <= s[n].len
      /\ room = s[n].len - s[n].off + 1
  BY <1>1, ByteIs
<1>3. room \in Nat /\ room >= 1
  BY <1>2
<1>4. CASE Len(x) = e - p
  BY <1>1, <1>3, <1>4
<1>5. CASE Len(x) = e - p + 1 /\ Boundary(s, e)
  <2>1. SUFFICES ASSUME e - p < room PROVE FALSE
    BY <1>1, <1>3, <1>5
  <2> DEFINE o == s[n].off
             l == s[n].len
             j == o + (e - p) - 1
  <2>a. o \in Nat /\ l \in Nat /\ o >= 1 /\ o <= l /\ room = l - o + 1
    BY <1>2
  <2> HIDE DEF o, l
  <2>b. j \in 1 .. l /\ j # l /\ e = n - o + j /\ e \in 1 .. Len(s)
    BY <1>1, <2>a, <2>1
  <2> HIDE DEF j
  <2>2. j \in 1 .. s[n].len /\ j # s[n].len /\ e = n - s[n].off + j /\ e \in 1 .. Len(s)
    BY <2>b DEF o, l
  <2>3. s[e].off = j /\ s[e].len = s[n].len
    BY <1>1, <2>2, SectionByte
  <2>4. s[e].off = s[e].len
    BY <1>5, <2>2, EndIsBoundary
  <2>5. QED BY <2>2, <2>3, <2>4
<1>6. Len(x) = e - p \/ (Len(x) = e - p + 1 /\ Boundary(s, e))
  BY DEF Lies
<1>7. QED BY <1>3, <1>4, <1>5, <1>6

-----------------------------------------------------------------------------
(* The framer in step with the stream: having read its first p bytes it is *)
(* where the section that they end in, or the end of that section, puts    *)
(* it.  A rejected section with no body leaves it with nothing to ignore.  *)

Idles(p) == mode = "Idle" /\ Boundary(stream, p)

Collects(p) ==
  /\ mode = "Collecting" /\ p \in 1 .. Len(stream)
  /\ Len(buf) = stream[p].off /\ stream[p].off # stream[p].len
  /\ \A i \in 1 .. Len(buf) : buf[i] = stream[p - Len(buf) + i]

Ignores(p) ==
  /\ mode = "Ignoring" /\ p \in 1 .. Len(stream)
  /\ stream[p].off >= HeaderSize
  /\ count = stream[p].len - stream[p].off
  /\ ~Valid(SentSection(stream[p].sec))
  /\ count = 0 => stream[p].len = HeaderSize

InStep(p) == Idles(p) \/ Collects(p) \/ Ignores(p)

(* What an iteration that reads the stream from p to q does: it delivers a *)
(* section if it comes to the end of one that is accepted, and no other.   *)
Passes(p, q) ==
  /\ event'.section # <<>> =>
       /\ q \in p + 1 .. Len(stream) /\ stream[q].off = stream[q].len
       /\ event'.section = SentSection(stream[q].sec)
  /\ \A r \in p + 1 .. q :
       stream[r].off = stream[r].len /\ Valid(SentSection(stream[r].sec)) =>
         r = q /\ event'.section # <<>>

LEMMA AtSectionIs ==
  ASSUME Conforming(stream), NEW p, NEW m, Lies(stream, input, p, m), Idles(p),
         input # <<>>, Head(input) # Stuffing,
         NEW n, n = p + 1, NEW l, l = stream[n].len
  PROVE  /\ p \in Nat /\ n \in 1 .. Len(stream) /\ p < m /\ m \in Nat
         /\ l \in Nat /\ l >= 3 /\ p + l <= Len(stream)
         /\ Len(stream) \in Nat /\ m <= Len(stream)
         /\ input \in Seq(Byte) /\ Len(input) \in Nat
         /\ \A j \in 1 .. l :
              /\ p + j \in 1 .. Len(stream) /\ stream[p + j].sec = stream[n].sec
              /\ stream[p + j].off = j /\ stream[p + j].len = l
         /\ IF l <= Len(input) THEN p + l <= m ELSE Len(input) = m - p
         /\ \A j \in 1 .. m - p : input[j] = stream[p + j]
         /\ SentSection(stream[n].sec) \in Seq(Byte)
         /\ Len(SentSection(stream[n].sec)) = l
         /\ \A j \in 1 .. l : SentSection(stream[n].sec)[j] = stream[p + j]
         /\ Len(input) >= 3 =>
              Total(input) = l /\ (Valid(input) <=> Valid(SentSection(stream[n].sec)))
<1>0. stream \in Seq(Byte)
  BY DEF Conforming
<1>1. /\ p \in Nat /\ m \in Nat /\ p <= m /\ m <= Len(stream) /\ Len(stream) \in Nat
      /\ input \in Seq(Byte) /\ Len(input) \in Nat /\ Len(input) \in {m - p, m - p + 1}
      /\ Len(input) > 0
  BY <1>0, LiesTypes, EmptySeq
<1>2. p < m
  <2>1. SUFFICES ASSUME p = m PROVE FALSE
    BY <1>1
  <2>2. Len(input) = 1 /\ m - p + 1 = 1
    BY <1>1, <2>1
  <2>3. input[1] = Stuffing
    BY <1>1, <2>1, <2>2 DEF Lies
  <2>4. QED BY <2>3
<1>3. n \in 1 .. Len(stream) /\ stream[n].off = 1
  BY <1>1, <1>2 DEF Idles, Boundary
<1>4. l \in Nat /\ l >= 3
  BY <1>3, ByteIs DEF HeaderSize
<1>5. \A j \in 1 .. l :
        /\ p + j \in 1 .. Len(stream) /\ stream[p + j].sec = stream[n].sec
        /\ stream[p + j].off = j /\ stream[p + j].len = l
  <2>1. TAKE j \in 1 .. l
  <2>2. j \in 1 .. stream[n].len /\ p + j = n - stream[n].off + j
    BY <1>1, <1>3, <1>4
  <2>3. QED BY <1>3, <2>2, SectionByte
<1>6. /\ SentSection(stream[n].sec) \in Seq(Byte)
      /\ Len(SentSection(stream[n].sec)) = l
      /\ \A j \in 1 .. l : SentSection(stream[n].sec)[j] = stream[p + j]
  <2>1. n - stream[n].off = p
    BY <1>1, <1>3
  <2>2. QED BY <1>3, <2>1, SectionIs DEF SentSection
<1>7. IF l <= Len(input) THEN p + l <= m ELSE Len(input) = m - p
  <2>1. l = stream[p + 1].len - stream[p + 1].off + 1
    BY <1>3, <1>4
  <2>2. QED BY <1>2, <2>1, LiesRoom
<1>8. p + l <= Len(stream)
  BY <1>1, <1>4, <1>5
<1>9. \A j \in 1 .. m - p : input[j] = stream[p + j]
  BY DEF Lies
<1>10. ASSUME Len(input) >= 3
       PROVE  Total(input) = l /\ (Valid(input) <=> Valid(SentSection(stream[n].sec)))
  <2>1. \A j \in 1 .. HeaderSize : input[j] = stream[n - stream[n].off + j]
    <3>1. TAKE j \in 1 .. HeaderSize
    <3>2. j \in 1 .. m - p /\ n - stream[n].off + j = p + j
      BY <1>1, <1>3, <1>4, <1>7, <1>10 DEF HeaderSize
    <3>3. QED BY <1>9, <3>2
  <2>2. QED BY <1>1, <1>3, <1>10, <2>1, HeaderSays DEF HeaderSize, SentSection
<1>11. QED BY <1>1, <1>2, <1>3, <1>4, <1>5, <1>6, <1>7, <1>8, <1>9, <1>10

(* An iteration reads some of the bytes it has in hand, from the first on. *)
LEMMA LoopDrops ==
  ASSUME FramerInv, Loop
  PROVE  InLoop /\ \E d \in 0 .. Len(input) : input' = Drop(input, d)
<1>1. InLoop
  BY DEF Loop, StuffingReached, HeaderStarts, SectionRejected, SectionInPlace, SectionStarts,
         CollectMore, HeaderCollected, SectionCollected, Ignore, AtSection, Collecting
<1>2. input \in Seq(Byte) /\ Len(input) \in Nat /\ count \in Nat
      /\ buf \in Seq(Byte) /\ Len(buf) \in Nat
  BY <1>1, InLoopFacts
<1>3. Drop(input, Len(input)) = <<>> /\ Len(input) \in 0 .. Len(input)
  <2>1. Len(input) \in 0 .. Len(input) /\ Len(input) - Len(input) = 0
    BY <1>2
  <2>2. Drop(input, Len(input)) \in Seq(Byte) /\ Len(Drop(input, Len(input))) = 0
    BY <1>2, <2>1, DropIs
  <2>3. QED BY <2>1, <2>2, EmptySeq
<1>4. CASE StuffingReached \/ HeaderStarts \/ SectionStarts
  <2>1. input' = <<>>
    BY <1>4 DEF StuffingReached, HeaderStarts, SectionStarts
  <2>2. QED BY <1>1, <1>3, <2>1
<1>5. CASE SectionRejected \/ SectionInPlace
  <2>1. Len(input) >= HeaderSize
    BY <1>5 DEF SectionRejected, SectionInPlace
  <2>2. Total(input) \in Nat
    BY <1>2, <2>1, HeaderIs DEF HeaderSize
  <2>3. CASE SectionRejected
    BY <1>1, <1>2, <2>2, <2>3, DropFirst DEF SectionRejected
  <2>4. CASE SectionInPlace
    BY <1>1, <1>2, <2>2, <2>4 DEF SectionInPlace
  <2>5. QED BY <1>5, <2>3, <2>4
<1>6. CASE CollectMore \/ HeaderCollected \/ SectionCollected
  <2>1. Collecting /\ mode = "Collecting" /\ input' = Drop(input, Taken)
    BY <1>6 DEF CollectMore, HeaderCollected, SectionCollected, Collecting
  <2>2. count - Len(buf) \in Nat
    BY <1>2, <2>1 DEF FramerInv, BufferBounded
  <2>3. Taken \in 0 .. Len(input)
    BY <1>2, <2>2, DropFirst DEF Taken
  <2>4. QED BY <1>1, <2>1, <2>3
<1>7. CASE Ignore
  <2>1. AtMost(count, Len(input)) \in 0 .. Len(input)
    BY <1>2, DropFirst
  <2>2. QED BY <1>1, <1>7, <2>1 DEF Ignore
<1>8. QED BY <1>4, <1>5, <1>6, <1>7 DEF Loop

(* In step and idle.                                                       *)
LEMMA StuffingInStep ==
  ASSUME Conforming(stream), stream' = stream, NEW p, NEW m, Lies(stream, input, p, m),
         Idles(p), StuffingReached,
         NEW d \in 0 .. Len(input), NEW q, q = AtMost(p + d, m)
  PROVE  InStep(q)' /\ Passes(p, q)
<1>1. /\ input \in Seq(Byte) /\ Len(input) \in Nat /\ p \in Nat /\ m \in Nat /\ p <= m
      /\ m <= Len(stream) /\ Len(stream) \in Nat /\ stream \in Seq(Byte)
      /\ Len(input) > 0
  <2>1. stream \in Seq(Byte)
    BY DEF Conforming
  <2>2. input # <<>>
    BY DEF StuffingReached, InLoop
  <2>3. QED BY <2>1, <2>2, LiesTypes, EmptySeq
<1>2. input[1] = Stuffing
  BY <1>1 DEF StuffingReached
<1>3. p = m
  <2>1. SUFFICES ASSUME p < m PROVE FALSE
    BY <1>1
  <2>2. input[1] = stream[p + 1] /\ p + 1 \in 1 .. Len(stream)
    BY <1>1, <2>1 DEF Lies
  <2>3. QED BY <1>2, <2>2, ByteIs
<1>4. q = p
  BY <1>1, <1>3 DEF AtMost
<1>5. event'.section = <<>> /\ mode' = mode
  BY EventSections DEF StuffingReached, Stay
<1>6. Idles(q)'
  BY <1>4, <1>5 DEF Idles
<1>7. \A r \in p + 1 .. q : FALSE
  BY <1>1, <1>4
<1>8. QED BY <1>5, <1>6, <1>7 DEF Passes, InStep

LEMMA AtSectionInStep ==
  ASSUME Conforming(stream), FramerInv, stream' = stream,
         NEW p, NEW m, Lies(stream, input, p, m), Idles(p),
         HeaderStarts \/ SectionRejected \/ SectionInPlace \/ SectionStarts,
         NEW d \in 0 .. Len(input), input' = Drop(input, d), NEW q, q = AtMost(p + d, m)
  PROVE  InStep(q)' /\ Passes(p, q)
<1> DEFINE n == p + 1
           l == stream[n].len
           k == stream[n].sec
<1>a. InLoop /\ mode = "Idle" /\ input # <<>> /\ Head(input) # Stuffing
  BY DEF HeaderStarts, SectionRejected, SectionInPlace, SectionStarts, AtSection, InLoop
<1>b. /\ p \in Nat /\ n \in 1 .. Len(stream) /\ p < m /\ m \in Nat
      /\ l \in Nat /\ l >= 3 /\ p + l <= Len(stream)
      /\ Len(stream) \in Nat /\ m <= Len(stream)
      /\ input \in Seq(Byte) /\ Len(input) \in Nat
      /\ \A j \in 1 .. l :
           /\ p + j \in 1 .. Len(stream) /\ stream[p + j].sec = k
           /\ stream[p + j].off = j /\ stream[p + j].len = l
      /\ IF l <= Len(input) THEN p + l <= m ELSE Len(input) = m - p
      /\ \A j \in 1 .. m - p : input[j] = stream[p + j]
      /\ SentSection(k) \in Seq(Byte)
      /\ Len(SentSection(k)) = l
      /\ \A j \in 1 .. l : SentSection(k)[j] = stream[p + j]
      /\ Len(input) >= 3 =>
           Total(input) = l /\ (Valid(input) <=> Valid(SentSection(k)))
  BY <1>a, AtSectionIs
<1> HIDE DEF n, l, k
<1>c. Len(input') = Len(input) - d
  BY <1>b, DropIs
<1>d. /\ d \in Nat /\ d <= Len(input) /\ Len(input) \in Nat
      /\ p \in Nat /\ m \in Nat /\ l \in Nat /\ l >= 3 /\ l \in 1 .. l
  BY <1>b
(* How far the iteration gets in the section, and which ends it passes.    *)
<1>e. ASSUME NEW j \in 1 .. l
      PROVE  \A r \in p + 1 .. p + j :
               stream[r].off = stream[r].len => r = p + l /\ j = l /\ stream[r].sec = k
  <2>1. TAKE r \in p + 1 .. p + j
  <2> DEFINE i == r - p
  <2>2. i \in 1 .. l /\ r = p + i /\ i <= j
    BY <1>d
  <2> HIDE DEF i
  <2>3. stream[r].off = i /\ stream[r].len = l /\ stream[r].sec = k
    BY <1>b, <2>2
  <2>4. QED BY <1>b, <2>2, <2>3
<1>f. /\ p + l \in 1 .. Len(stream) /\ stream[p + l].off = l /\ stream[p + l].len = l
      /\ stream[p + l].sec = k /\ Boundary(stream, p + l)
  <2>1. l \in 1 .. l
    BY <1>b
  <2>2. QED BY <1>b, <2>1, EndIsBoundary
<1>g. ASSUME Len(input) < l
      PROVE  /\ m - p \in 1 .. l /\ m - p # l /\ Len(input) = m - p /\ p + (m - p) = m
             /\ m \in 1 .. Len(stream)
             /\ stream[m].off = m - p /\ stream[m].len = l /\ stream[m].sec = k
  <2>1. m - p \in 1 .. l /\ m - p # l /\ Len(input) = m - p /\ p + (m - p) = m
    BY <1>b, <1>g
  <2>2. QED BY <1>b, <2>1
<1>1. CASE HeaderStarts \/ SectionStarts
  <2>1. /\ mode' = "Collecting" /\ buf' = input /\ input' = <<>>
        /\ event'.section = <<>>
    BY <1>1, EventSections DEF HeaderStarts, SectionStarts, Enter
  <2>2. Len(input) < l
    BY <1>1, <1>b DEF HeaderStarts, SectionStarts, HeaderSize
  <2>3. q = m /\ d = Len(input)
    BY <1>b, <1>c, <1>d, <1>g, <2>1, <2>2, EmptySection DEF AtMost
  <2>4. \A i \in 1 .. Len(input) : input[i] = stream[m - Len(input) + i]
    <3>1. m - Len(input) = p
      BY <1>b, <1>g, <2>2
    <3>2. QED BY <1>b, <1>g, <2>2, <3>1
  <2>5. Collects(q)'
    BY <1>b, <1>g, <2>1, <2>2, <2>3, <2>4 DEF Collects
  <2>6. \A r \in p + 1 .. q : ~(stream[r].off = stream[r].len)
    BY <1>e, <1>g, <2>2, <2>3
  <2>7. QED BY <2>1, <2>5, <2>6 DEF Passes, InStep
<1>2. CASE SectionRejected
  <2>1. /\ Len(input) >= 3 /\ ~Valid(SentSection(k)) /\ Total(input) = l
        /\ input' = Drop(input, AtMost(l, Len(input)))
        /\ event'.section = <<>>
        /\ IF l > AtMost(l, Len(input)) THEN Enter("Ignoring", l - AtMost(l, Len(input)), buf)
                                        ELSE Stay
    <3>1. Len(input) >= 3 /\ ~Valid(input)
      BY <1>2 DEF SectionRejected, HeaderSize
    <3>2. Total(input) = l /\ ~Valid(SentSection(k))
      BY <1>b, <3>1
    <3>3. QED BY <1>2, <3>1, <3>2, EventSections DEF SectionRejected
  <2>2. d = AtMost(l, Len(input))
    <3>1. AtMost(l, Len(input)) \in 0 .. Len(input)
      BY <1>b DEF AtMost
    <3>2. Len(input') = Len(input) - AtMost(l, Len(input))
      BY <1>b, <2>1, <3>1, DropIs
    <3>3. QED BY <1>c, <1>d, <3>1, <3>2
  <2>3. CASE l <= Len(input)
    <3>1. d = l /\ q = p + l
      BY <1>b, <2>2, <2>3 DEF AtMost
    <3>2. mode' = mode
      BY <1>b, <2>1, <2>2, <3>1 DEF Stay
    <3>3. Idles(q)'
      BY <1>a, <1>f, <3>1, <3>2 DEF Idles
    <3>4. \A r \in p + 1 .. q : stream[r].off = stream[r].len => stream[r].sec = k
      BY <1>d, <1>e, <3>1
    <3>5. QED BY <2>1, <3>3, <3>4 DEF Passes, InStep
  <2>4. CASE Len(input) < l
    <3>1. d = Len(input) /\ q = m
      BY <1>b, <1>g, <2>2, <2>4 DEF AtMost
    <3>2. mode' = "Ignoring" /\ count' = l - (m - p)
      BY <1>b, <1>g, <2>1, <2>2, <2>4, <3>1 DEF Enter
    <3>3. count' # 0 /\ stream[m].off >= HeaderSize
      BY <1>b, <1>g, <2>1, <2>4, <3>2 DEF HeaderSize
    <3>4. (~Valid(SentSection(stream[m].sec)))'
      <4>1. ~Valid(SentSection(stream[m].sec))
        BY <1>g, <2>1, <2>4
      <4>2. QED BY <4>1 DEF SentSection, Valid, HeaderError, Header, Take
    <3>5. Ignores(q)'
      BY <1>g, <2>4, <3>1, <3>2, <3>3, <3>4 DEF Ignores
    <3>6. \A r \in p + 1 .. q : ~(stream[r].off = stream[r].len)
      BY <1>e, <1>g, <2>4, <3>1
    <3>7. QED BY <2>1, <3>5, <3>6 DEF Passes, InStep
  <2>5. QED BY <1>b, <2>3, <2>4
<1>3. CASE SectionInPlace
  <2>1. /\ Len(input) >= l /\ input' = Drop(input, l) /\ event'.section = Take(input, l)
        /\ mode' = mode
    <3>1. Len(input) >= 3
      BY <1>3 DEF SectionInPlace, HeaderSize
    <3>2. Total(input) = l
      BY <1>b, <3>1
    <3>3. QED BY <1>3, <3>2, EventSections DEF SectionInPlace, Stay
  <2>2. l \in 0 .. Len(input)
    BY <1>b, <2>1
  <2>3. d = l /\ q = p + l
    <3>1. Len(input') = Len(input) - l
      BY <1>b, <2>1, <2>2, DropIs
    <3>2. d = l
      BY <1>c, <1>d, <3>1
    <3>3. QED BY <1>b, <2>1, <3>2 DEF AtMost
  <2>4. event'.section = SentSection(k)
    <3>1. /\ Take(input, l) \in Seq(Byte) /\ Len(Take(input, l)) = l
          /\ \A i \in 1 .. l : Take(input, l)[i] = input[i]
      BY <1>b, <2>2, TakeIs
    <3>2. \A i \in 1 .. l : Take(input, l)[i] = SentSection(k)[i]
      <4>1. TAKE i \in 1 .. l
      <4>2. i \in 1 .. m - p
        BY <1>b, <2>1
      <4>3. QED BY <1>b, <3>1, <4>2
    <3>3. Take(input, l) = SentSection(k)
      BY <1>b, <3>1, <3>2, SeqEqual
    <3>4. QED BY <2>1, <3>3
  <2>5. Idles(q)'
    BY <1>a, <1>f, <2>1, <2>3 DEF Idles
  <2>6. q \in p + 1 .. Len(stream) /\ stream[q].off = stream[q].len /\ stream[q].sec = k
    BY <1>b, <1>f, <2>3
  <2>7. \A r \in p + 1 .. q : stream[r].off = stream[r].len => r = q
    BY <1>d, <1>e, <2>3
  <2>8. SentSection(k) # <<>>
    BY <1>b, EmptySection
  <2>9. QED BY <2>4, <2>5, <2>6, <2>7, <2>8 DEF Passes, InStep
<1>4. QED BY <1>1, <1>2, <1>3

(* In step and collecting: what was collected is the section so far.       *)
HasCollected(p, q) ==
  LET l == stream[p].len
      k == stream[p].sec
      c == Len(Collected)
  IN
  /\ p \in Nat /\ l \in Nat /\ l >= 3 /\ count \in Nat
  /\ Collected \in Seq(Byte) /\ c \in Nat /\ c >= 1 /\ c <= count /\ count <= l
  /\ p < q /\ q \in 1 .. Len(stream) /\ q \in p + 1 .. Len(stream)
  /\ stream[q].off = c /\ stream[q].len = l /\ stream[q].sec = k
  /\ \A i \in 1 .. c : Collected[i] = stream[q - c + i]
  /\ c >= 3 => Total(Collected) = l /\ (Valid(Collected) <=> Valid(SentSection(k)))
  /\ c = l => Collected = SentSection(k)
  /\ \A r \in p + 1 .. q :
       stream[r].sec = k /\ (stream[r].off = stream[r].len => r = q /\ c = l)
  /\ count # 3 => count = l /\ Valid(SentSection(k))

LEMMA CollectedIsSent ==
  ASSUME Conforming(stream), FramerInv, NEW p, NEW m, Lies(stream, input, p, m),
         Collects(p), Collecting,
         NEW d \in 0 .. Len(input), input' = Drop(input, d), NEW q, q = AtMost(p + d, m)
  PROVE  HasCollected(p, q)
<1> DEFINE l == stream[p].len
           k == stream[p].sec
           o == Len(buf)
           b == p - o
           c == o + d
<1>a. /\ stream \in Seq(Byte) /\ input \in Seq(Byte) /\ Len(input) \in Nat /\ Len(input) > 0
      /\ p \in Nat /\ m \in Nat /\ p <= m /\ m <= Len(stream) /\ Len(stream) \in Nat
      /\ Len(input) \in {m - p, m - p + 1}
      /\ buf \in Seq(Byte) /\ o \in Nat /\ count \in Nat /\ d \in Nat /\ d <= Len(input)
  <2>1. InLoop
    BY DEF Collecting
  <2>2. stream \in Seq(Byte)
    BY DEF Conforming
  <2>3. QED BY <2>1, <2>2, InLoopFacts, LiesTypes
<1>b. p \in 1 .. Len(stream) /\ o = stream[p].off /\ o # l
  BY DEF Collects
<1>r. \A i \in 1 .. o : buf[i] = stream[b + i]
  BY DEF Collects
<1>c. l \in Nat /\ l >= 3 /\ o >= 1 /\ o <= l
  BY <1>b, ByteIs DEF HeaderSize
<1>d. b \in Nat /\ b + l <= Len(stream) /\ p = b + o
  <2>1. b = p - stream[p].off
    BY <1>b
  <2>2. b \in Nat /\ b + l <= Len(stream)
    BY <1>b, <2>1, SectionIs
  <2>3. QED BY <1>a, <2>2
<1>e. \A j \in 1 .. l :
        /\ b + j \in 1 .. Len(stream) /\ stream[b + j].sec = k
        /\ stream[b + j].off = j /\ stream[b + j].len = l
  <2>1. TAKE j \in 1 .. l
  <2> DEFINE i == b + j
  <2>2. j \in 1 .. stream[p].len /\ i = p - stream[p].off + j
    BY <1>b
  <2> HIDE DEF i
  <2>3. /\ i \in 1 .. Len(stream) /\ stream[i].sec = k
        /\ stream[i].off = j /\ stream[i].len = l
    BY <1>b, <2>2, SectionByte
  <2>4. QED BY <2>3 DEF i
<1> HIDE DEF l, k, o, b
<1>s. /\ p \in Nat /\ m \in Nat /\ o \in Nat /\ b \in Nat /\ l \in Nat /\ d \in Nat
      /\ count \in Nat /\ Len(input) \in Nat /\ Len(stream) \in Nat
      /\ o >= 1 /\ o + 1 <= l /\ p = b + o /\ b + l <= Len(stream)
      /\ m <= Len(stream) /\ d <= Len(input) /\ Len(input) >= 1
  <2>1. o # l /\ o <= l /\ o \in Nat /\ l \in Nat
    BY <1>a, <1>b, <1>c
  <2>2. o + 1 <= l
    BY <2>1
  <2>3. QED BY <1>a, <1>c, <1>d, <2>2
<1>f. p < m
  <2>1. SUFFICES ASSUME p = m PROVE FALSE
    BY <1>a
  <2>2. Boundary(stream, p)
    BY <1>a, <2>1 DEF Lies
  <2>3. QED BY <1>b, <2>2, EndIsBoundary DEF l
(* The target is at most the end of the section.                           *)
<1>g. /\ count <= l /\ o < count
      /\ count # 3 => count = l /\ Valid(SentSection(k))
      /\ o < 3 => count = 3
  <2>1. o < count
    BY DEF FramerInv, BufferBounded, Collects, o
  <2>2. ASSUME o < 3
        PROVE  count = 3
    BY <2>2 DEF FramerInv, TargetFitsHeader, Collects, o, HeaderSize
  <2>3. ASSUME o >= 3
        PROVE  count = l /\ Valid(SentSection(k))
    <3>1. Valid(buf) /\ count = Total(buf)
      BY <1>a, <2>3 DEF FramerInv, TargetFitsHeader, Collects, o, HeaderSize
    <3>2. Len(buf) >= HeaderSize
      BY <2>3 DEF o, HeaderSize
    <3>3. \A j \in 1 .. HeaderSize : buf[j] = stream[p - stream[p].off + j]
      <4>1. TAKE j \in 1 .. HeaderSize
      <4>2. j \in 1 .. o /\ p - stream[p].off + j = b + j
        BY <1>a, <1>b, <2>3 DEF HeaderSize, b
      <4>3. QED BY <1>r, <4>2
    <3>4. QED BY <1>a, <1>b, <3>1, <3>2, <3>3, HeaderSays DEF SentSection, l, k
  <2>4. QED BY <1>a, <1>c, <2>1, <2>2, <2>3
<1>t. d = Taken
  <2>1. Taken = AtMost(count - o, Len(input)) /\ input' = Drop(input, Taken)
    BY DEF Taken, o, Collecting
  <2>2. Taken \in 0 .. Len(input)
    BY <1>s, <1>g, <2>1 DEF AtMost
  <2>3. Len(input') = Len(input) - Taken /\ Len(input') = Len(input) - d
    BY <1>a, <2>1, <2>2, DropIs
  <2>4. QED BY <1>s, <2>2, <2>3
<1>h. d >= 1 /\ o + d <= count
  <2>1. d = AtMost(count - o, Len(input))
    BY <1>t DEF Taken, o
  <2>2. QED BY <1>s, <1>g, <2>1 DEF AtMost
<1>u. Collected = buf \o Take(input, d)
  BY <1>t DEF Collected
<1>i. p + d <= m
  <2>1. p + 1 \in 1 .. Len(stream) /\ stream[p + 1].off = o + 1 /\ stream[p + 1].len = l
    <3>1. o + 1 \in 1 .. l /\ p + 1 = b + (o + 1)
      BY <1>s
    <3>2. QED BY <1>e, <3>1
  <2>2. l - o = stream[p + 1].len - stream[p + 1].off + 1
    BY <1>s, <2>1
  <2>3. IF l - o <= Len(input) THEN p + (l - o) <= m ELSE Len(input) = m - p
    BY <1>f, <2>2, LiesRoom
  <2>4. QED BY <1>s, <1>g, <1>h, <2>3
<1>j. q = p + d /\ q = b + c /\ c \in 1 .. l /\ c \in Nat
  BY <1>s, <1>g, <1>h, <1>i DEF AtMost
<1>k. /\ Collected \in Seq(Byte) /\ Len(Collected) = c
      /\ \A i \in 1 .. c : Collected[i] = stream[b + i]
  <2> DEFINE t == Take(input, d)
  <2>1. t \in Seq(Byte) /\ Len(t) = d /\ \A i \in 1 .. d : t[i] = input[i]
    BY <1>a, TakeIs
  <2> HIDE DEF t
  <2>2. /\ Collected \in Seq(Byte) /\ Len(Collected) = c
        /\ \A i \in 1 .. c : Collected[i] = IF i <= o THEN buf[i] ELSE t[i - o]
    <3>1. Collected = buf \o t /\ c = Len(buf) + Len(t)
      BY <1>u, <2>1 DEF t, o
    <3>2. /\ Collected \in Seq(Byte) /\ Len(Collected) = Len(buf) + Len(t)
          /\ \A i \in 1 .. Len(buf) + Len(t) :
               Collected[i] = IF i <= Len(buf) THEN buf[i] ELSE t[i - Len(buf)]
      <4>1. buf \in Seq(Byte) /\ t \in Seq(Byte)
        BY <1>a, <2>1
      <4>2. QED BY <3>1, <4>1, ConcatProperties
    <3>3. QED BY <3>1, <3>2 DEF o
  <2>3. ASSUME NEW i \in 1 .. c
        PROVE  Collected[i] = stream[b + i]
    <3>1. CASE i <= o
      <4>1. i \in 1 .. o
        BY <1>a, <1>j, <3>1
      <4>2. QED BY <1>r, <2>2, <3>1, <4>1
    <3>2. CASE ~(i <= o)
      <4>1. i - o \in 1 .. d /\ i - o \in 1 .. m - p /\ p + (i - o) = b + i
        BY <1>a, <1>d, <1>i, <1>j, <3>2
      <4>2. Collected[i] = input[i - o]
        BY <2>1, <2>2, <3>2, <4>1
      <4>3. input[i - o] = stream[p + (i - o)]
        BY <4>1 DEF Lies
      <4>4. QED BY <4>1, <4>2, <4>3
    <3>3. QED BY <3>1, <3>2
  <2>4. QED BY <2>2, <2>3
<1> HIDE DEF c
<1>l. ASSUME c >= 3
      PROVE  Total(Collected) = l /\ (Valid(Collected) <=> Valid(SentSection(k)))
  <2>1. \A j \in 1 .. HeaderSize : Collected[j] = stream[p - stream[p].off + j]
    <3>1. TAKE j \in 1 .. HeaderSize
    <3>2. j \in 1 .. c /\ p - stream[p].off + j = b + j
      BY <1>a, <1>b, <1>j, <1>l DEF HeaderSize, b
    <3>3. QED BY <1>k, <3>2
  <2>2. QED BY <1>b, <1>k, <1>l, <2>1, HeaderSays DEF HeaderSize, SentSection, l, k
<1>m. ASSUME c = l
      PROVE  Collected = SentSection(k)
  <2>1. /\ SentSection(k) \in Seq(Byte) /\ Len(SentSection(k)) = l
        /\ \A j \in 1 .. l : SentSection(k)[j] = stream[p - stream[p].off + j]
    BY <1>b, SectionIs DEF SentSection, l, k
  <2>2. p - stream[p].off = b
    BY <1>b DEF b
  <2>3. \A j \in 1 .. l : Collected[j] = SentSection(k)[j]
    BY <1>k, <1>m, <2>1, <2>2
  <2>4. QED BY <1>k, <1>m, <2>1, <2>3, SeqEqual
<1>n. ASSUME NEW r \in p + 1 .. q
      PROVE  stream[r].sec = k /\ (stream[r].off = stream[r].len => r = q /\ c = l)
  <2> DEFINE i == r - b
  <2>1. i \in 1 .. l /\ r = b + i /\ i <= c
    BY <1>s, <1>j
  <2> HIDE DEF i
  <2>2. stream[r].off = i /\ stream[r].len = l /\ stream[r].sec = k
    BY <1>e, <2>1
  <2>3. QED BY <1>s, <1>j, <2>1, <2>2
<1>o. /\ stream[q].off = c /\ stream[q].len = l /\ stream[q].sec = k
      /\ q \in 1 .. Len(stream) /\ q \in p + 1 .. Len(stream) /\ p < q /\ q - c = b
  <2>1. /\ stream[q].off = c /\ stream[q].len = l /\ stream[q].sec = k
        /\ q \in 1 .. Len(stream)
    BY <1>e, <1>j
  <2>2. QED BY <1>s, <1>h, <1>j, <2>1
<1>p. Len(Collected) >= 1 /\ Len(Collected) <= count /\ Len(Collected) \in Nat
  BY <1>s, <1>h, <1>k DEF c
<1>q. c = Len(Collected)
  BY <1>k
<1>v. \A i \in 1 .. c : Collected[i] = stream[q - c + i]
  BY <1>k, <1>o
<1>w. QED
  BY <1>a, <1>c, <1>g, <1>k, <1>l, <1>m, <1>n, <1>o, <1>p, <1>q, <1>v, Zenon DEF HasCollected, l, k

LEMMA CollectingInStep ==
  ASSUME Conforming(stream), FramerInv, stream' = stream,
         NEW p, NEW m, Lies(stream, input, p, m), Collects(p),
         CollectMore \/ HeaderCollected \/ SectionCollected,
         NEW d \in 0 .. Len(input), input' = Drop(input, d), NEW q, q = AtMost(p + d, m)
  PROVE  InStep(q)' /\ Passes(p, q)
<1> DEFINE l == stream[p].len
           k == stream[p].sec
           c == Len(Collected)
<1>a. Collecting
  BY DEF CollectMore, HeaderCollected, SectionCollected
<1>b. /\ p \in Nat /\ l \in Nat /\ l >= 3 /\ count \in Nat
      /\ Collected \in Seq(Byte) /\ c \in Nat /\ c >= 1 /\ c <= count /\ count <= l
      /\ p < q /\ q \in 1 .. Len(stream) /\ q \in p + 1 .. Len(stream)
      /\ stream[q].off = c /\ stream[q].len = l /\ stream[q].sec = k
      /\ \A i \in 1 .. c : Collected[i] = stream[q - c + i]
      /\ c >= 3 => Total(Collected) = l /\ (Valid(Collected) <=> Valid(SentSection(k)))
      /\ c = l => Collected = SentSection(k)
      /\ \A r \in p + 1 .. q :
           stream[r].sec = k /\ (stream[r].off = stream[r].len => r = q /\ c = l)
      /\ count # 3 => count = l /\ Valid(SentSection(k))
  <2>1. HasCollected(p, q)
    BY <1>a, CollectedIsSent
  <2>2. QED BY <2>1, Zenon DEF HasCollected
<1> HIDE DEF l, k, c
<1>c. /\ l \in Nat /\ count \in Nat /\ c \in Nat /\ c <= count /\ count <= l
      /\ stream[q].off = c /\ stream[q].len = l /\ stream[q].sec = k
      /\ Collected \in Seq(Byte)
  BY <1>b
(* It goes on collecting, or the section's end is reached.                 *)
<1>1. ASSUME c # l, mode' = "Collecting", buf' = Collected, event'.section = <<>>
      PROVE  InStep(q)' /\ Passes(p, q)
  <2>1. Collects(q)'
    BY <1>b, <1>1 DEF Collects, c
  <2>2. \A r \in p + 1 .. q : ~(stream[r].off = stream[r].len)
    BY <1>b, <1>1
  <2>3. QED BY <1>1, <2>1, <2>2 DEF InStep, Passes
<1>2. ASSUME c = l, mode' = "Idle", event'.section = Collected
      PROVE  InStep(q)' /\ Passes(p, q)
  <2>1. Boundary(stream, q)
    BY <1>b, <1>2, EndIsBoundary
  <2>2. Idles(q)'
    BY <1>2, <2>1 DEF Idles
  <2>3. Collected = SentSection(k) /\ Collected # <<>>
    BY <1>b, <1>2, EmptySection DEF c
  <2>4. QED BY <1>b, <1>2, <2>2, <2>3 DEF InStep, Passes
<1>3. CASE CollectMore
  <2>1. c < count /\ mode' = "Collecting" /\ buf' = Collected /\ event'.section = <<>>
    BY <1>3, EventSections DEF CollectMore, Enter, c
  <2>2. QED BY <1>1, <1>b, <2>1
<1>4. CASE HeaderCollected
  <2>1. c = 3 /\ Total(Collected) = l /\ (Valid(Collected) <=> Valid(SentSection(k)))
    BY <1>4, <1>b DEF HeaderCollected, HeaderSize, c
  <2>2. SectionLength(Collected) \in Nat /\ l = 3 + SectionLength(Collected)
    <3>1. Header(Collected) = Collected
      BY <1>b, <2>1, HeaderAlone DEF c, HeaderSize
    <3>2. SectionLength(Collected) \in Nat
      <4>1. Len(Collected) >= HeaderSize
        BY <2>1 DEF c, HeaderSize
      <4>2. SectionLength(Header(Collected)) \in Nat
        BY <1>c, <4>1, HeaderIs
      <4>3. QED BY <3>1, <4>2
    <3>3. QED BY <2>1, <3>1, <3>2 DEF Total, HeaderSize
  <2>3. CASE ~Valid(Collected)
    <3>1. mode' = "Ignoring" /\ count' = SectionLength(Collected) /\ event'.section = <<>>
      BY <1>4, <2>3, EventSections DEF HeaderCollected, Enter
    <3>2. ~Valid(SentSection(k)) /\ (~Valid(SentSection(k)))'
      <4>1. ~Valid(SentSection(k))
        BY <2>1, <2>3
      <4>2. QED BY <4>1 DEF SentSection, Valid, HeaderError, Header, Take, k
    <3>3. stream[q].off >= HeaderSize /\ count' = stream[q].len - stream[q].off
          /\ (count' = 0 => stream[q].len = HeaderSize)
      BY <1>c, <2>1, <2>2, <3>1 DEF HeaderSize
    <3>4. (~Valid(SentSection(stream[q].sec)))'
      BY <1>c, <3>2 DEF SentSection, Valid, HeaderError, Header, Take
    <3>5. Ignores(q)'
      BY <1>b, <3>1, <3>3, <3>4 DEF Ignores
    <3>6. \A r \in p + 1 .. q : ~Valid(SentSection(stream[r].sec))
      BY <1>b, <3>2
    <3>7. QED BY <3>1, <3>5, <3>6 DEF InStep, Passes
  <2>4. CASE Valid(Collected) /\ Total(Collected) = HeaderSize
    <3>1. mode' = "Idle" /\ event'.section = Collected
      BY <1>4, <2>4, EventSections DEF HeaderCollected, BecomeIdle, Enter
    <3>2. QED BY <1>2, <2>1, <2>4, <3>1 DEF HeaderSize
  <2>5. CASE Valid(Collected) /\ Total(Collected) # HeaderSize
    <3>1. mode' = "Collecting" /\ buf' = Collected /\ event'.section = <<>>
      BY <1>4, <2>5, EventSections DEF HeaderCollected, Enter
    <3>2. QED BY <1>1, <2>1, <2>5, <3>1 DEF HeaderSize
  <2>6. QED BY <2>3, <2>4, <2>5
<1>5. CASE SectionCollected
  <2>1. count # 3 /\ c = count /\ mode' = "Idle" /\ event'.section = Collected
    BY <1>5, EventSections DEF SectionCollected, BecomeIdle, Enter, HeaderSize, c
  <2>2. QED BY <1>2, <1>b, <2>1
<1>6. QED BY <1>3, <1>4, <1>5

(* In step and ignoring a section.                                         *)
LEMMA IgnoringInStep ==
  ASSUME Conforming(stream), FramerInv, stream' = stream,
         NEW p, NEW m, Lies(stream, input, p, m), Ignores(p), Ignore,
         NEW d \in 0 .. Len(input), input' = Drop(input, d), NEW q, q = AtMost(p + d, m)
  PROVE  InStep(q)' /\ Passes(p, q)
<1> DEFINE l == stream[p].len
           k == stream[p].sec
           o == stream[p].off
<1>a. /\ stream \in Seq(Byte) /\ input \in Seq(Byte) /\ Len(input) \in Nat /\ Len(input) > 0
      /\ p \in Nat /\ m \in Nat /\ p <= m /\ m <= Len(stream) /\ Len(stream) \in Nat
      /\ count \in Nat /\ d \in Nat /\ d <= Len(input)
  <2>1. InLoop
    BY DEF Ignore
  <2>2. stream \in Seq(Byte)
    BY DEF Conforming
  <2>3. QED BY <2>1, <2>2, InLoopFacts, LiesTypes
<1>b. /\ p \in 1 .. Len(stream) /\ o >= 3 /\ count = l - o /\ ~Valid(SentSection(k))
      /\ mode = "Ignoring"
  BY DEF Ignores, HeaderSize
<1>c. l \in Nat /\ o \in Nat /\ o <= l /\ o >= 1
  BY <1>b, ByteIs
<1>d. ASSUME NEW i \in 1 .. l - o
      PROVE  /\ p + i \in 1 .. Len(stream) /\ stream[p + i].sec = k
             /\ stream[p + i].off = o + i /\ stream[p + i].len = l
  <2> DEFINE j == o + i
             r == p + i
  <2> HIDE DEF l, o
  <2>0. j \in 1 .. l /\ r = p - o + j
    <3>1. p \in Nat /\ l \in Nat /\ o \in Nat /\ o <= l
      BY <1>a, <1>c
    <3>2. QED BY <1>d, <3>1
  <2> HIDE DEF j, r
  <2>1. j \in 1 .. stream[p].len /\ r = p - stream[p].off + j
    BY <2>0 DEF l, o
  <2>2. r \in 1 .. Len(stream) /\ stream[r].sec = k /\ stream[r].off = j /\ stream[r].len = l
    BY <1>b, <2>1, SectionByte DEF l
  <2>3. QED BY <2>2 DEF j, r
<1>e. d = AtMost(count, Len(input)) /\ event'.section = <<>>
      /\ IF d = count THEN mode' = "Idle" ELSE mode' = "Ignoring" /\ count' = count - d
  <2>1. /\ input' = Drop(input, AtMost(count, Len(input))) /\ event'.section = <<>>
        /\ IF AtMost(count, Len(input)) = count
           THEN mode' = "Idle"
           ELSE mode' = "Ignoring" /\ count' = count - AtMost(count, Len(input))
    BY EventSections DEF Ignore, Enter
  <2>2. AtMost(count, Len(input)) \in 0 .. Len(input)
    BY <1>a DEF AtMost
  <2>3. Len(input') = Len(input) - d /\ Len(input') = Len(input) - AtMost(count, Len(input))
    BY <1>a, <2>1, <2>2, DropIs
  <2>4. d = AtMost(count, Len(input))
    <3> DEFINE z == AtMost(count, Len(input))
    <3>1. z \in 0 .. Len(input) /\ Len(input) - d = Len(input) - z
      BY <2>2, <2>3
    <3> HIDE DEF z
    <3>2. d = z
      BY <1>a, <3>1
    <3>3. QED BY <3>2 DEF z
  <2>5. QED BY <2>1, <2>4
<1>f. Boundary(stream, p) <=> o = l
  BY <1>b, EndIsBoundary
<1> HIDE DEF l, k, o
<1>1. CASE count = 0
  <2>1. d = 0 /\ q = p /\ o = l
    BY <1>a, <1>b, <1>c, <1>e, <1>1 DEF AtMost
  <2>2. Idles(q)'
    BY <1>e, <1>f, <1>1, <2>1 DEF Idles
  <2>3. \A r \in p + 1 .. q : FALSE
    BY <1>a, <2>1
  <2>4. QED BY <1>e, <2>2, <2>3 DEF InStep, Passes
<1>2. CASE count # 0
  <2>1. p < m
    <3>1. SUFFICES ASSUME p = m PROVE FALSE
      BY <1>a
    <3>2. m - p = 0 /\ Len(input) # 0
      BY <1>a, <3>1
    <3>3. Boundary(stream, p)
      BY <3>1, <3>2 DEF Lies
    <3>4. QED BY <1>b, <1>c, <1>f, <1>2, <3>3
  <2>2. IF count <= Len(input) THEN p + count <= m ELSE Len(input) = m - p
    <3>1. 1 \in 1 .. l - o
      BY <1>a, <1>b, <1>c, <1>2
    <3>2. stream[p + 1].off = o + 1 /\ stream[p + 1].len = l
      BY <1>d, <3>1
    <3>3. count = stream[p + 1].len - stream[p + 1].off + 1
      BY <1>b, <1>c, <3>2
    <3>4. QED BY <2>1, <3>3, LiesRoom
  <2>3. q = p + d /\ d \in 1 .. l - o /\ q - p = d
    <3>1. p + d <= m /\ d >= 1 /\ d <= count
      BY <1>a, <1>e, <1>2, <2>2 DEF AtMost
    <3>2. QED BY <1>a, <1>b, <3>1 DEF AtMost
  <2>4. /\ q \in 1 .. Len(stream) /\ stream[q].sec = k
        /\ stream[q].off = o + d /\ stream[q].len = l
    BY <1>d, <2>3
  <2>5. \A r \in p + 1 .. q : stream[r].sec = k
    <3>1. TAKE r \in p + 1 .. q
    <3> DEFINE i == r - p
    <3>2. i \in 1 .. l - o /\ r = p + i
      BY <1>a, <1>c, <2>3
    <3> HIDE DEF i
    <3>3. QED BY <1>d, <3>2
  <2>6. Passes(p, q)
    BY <1>b, <1>e, <2>5 DEF Passes
  <2>7. CASE d = count
    <3>1. stream[q].off = stream[q].len
      BY <1>b, <1>c, <2>4, <2>7
    <3>2. Boundary(stream, q)
      BY <2>4, <3>1, EndIsBoundary
    <3>3. Idles(q)'
      BY <1>e, <2>7, <3>2 DEF Idles
    <3>4. QED BY <2>6, <3>3 DEF InStep
  <2>8. CASE d # count
    <3>1. mode' = "Ignoring" /\ count' = l - (o + d) /\ count' # 0 /\ o + d >= HeaderSize
      <4>1. mode' = "Ignoring" /\ count' = count - d
        BY <1>e, <2>8
      <4>2. count - d = l - (o + d) /\ l - (o + d) # 0 /\ o + d >= HeaderSize
        BY <1>a, <1>b, <1>c, <2>8 DEF HeaderSize
      <4>3. QED BY <4>1, <4>2
    <3>2. (~Valid(SentSection(stream[q].sec)))'
      BY <1>b, <2>4 DEF SentSection, Valid, HeaderError, Header, Take
    <3>3. Ignores(q)'
      BY <2>4, <3>1, <3>2 DEF Ignores
    <3>4. QED BY <2>6, <3>3 DEF InStep
  <2>9. QED BY <2>7, <2>8
<1>3. QED BY <1>1, <1>2

(* Once in step, the framer stays in step: whatever the packets are cut    *)
(* like, each iteration leaves it where the bytes it has read put it, and  *)
(* delivers the sections that end on the way.                              *)
LEMMA LoopInStep ==
  ASSUME Conforming(stream), FramerInv, stream' = stream,
         NEW p, NEW m, Lies(stream, input, p, m), InStep(p), Loop,
         NEW d \in 0 .. Len(input), input' = Drop(input, d), NEW q, q = AtMost(p + d, m)
  PROVE  InStep(q)' /\ Passes(p, q)
<1>1. CASE mode = "Idle"
  <2>1. Idles(p)
    BY <1>1 DEF InStep, Collects, Ignores
  <2>2. \/ StuffingReached
        \/ HeaderStarts \/ SectionRejected \/ SectionInPlace \/ SectionStarts
    BY <1>1 DEF Loop, CollectMore, HeaderCollected, SectionCollected, Collecting, Ignore
  <2>3. QED BY <2>1, <2>2, StuffingInStep, AtSectionInStep
<1>2. CASE mode = "Collecting"
  <2>1. Collects(p)
    BY <1>2 DEF InStep, Idles, Ignores
  <2>2. CollectMore \/ HeaderCollected \/ SectionCollected
    BY <1>2 DEF Loop, StuffingReached, HeaderStarts, SectionRejected, SectionInPlace,
                SectionStarts, AtSection, Ignore
  <2>3. QED BY <2>1, <2>2, CollectingInStep
<1>3. CASE mode = "Ignoring"
  <2>1. Ignores(p)
    BY <1>3 DEF InStep, Idles, Collects
  <2>2. Ignore
    BY <1>3 DEF Loop, StuffingReached, HeaderStarts, SectionRejected, SectionInPlace,
                SectionStarts, AtSection, CollectMore, HeaderCollected, SectionCollected,
                Collecting
  <2>3. QED BY <2>1, <2>2, IgnoringInStep
<1>4. QED BY <1>1, <1>2, <1>3 DEF FramerInv, TypeOK, Mode

-----------------------------------------------------------------------------
(* In step or not, a section begins with the first byte that was read of   *)
(* it, and ends with the last byte that the iteration reads: a byte of the *)
(* stream or stuffing.                                                     *)

FirstByte(p) == IF mode = "Collecting" THEN buf[1] ELSE stream[p + 1]

Edges(p, q) ==
  /\ event'.section # <<>> =>
       /\ event'.section[1] = FirstByte(p)
       /\ mode # "Collecting" => p < q
       /\ \/ event'.section[Len(event'.section)] = Stuffing
          \/ q > p /\ event'.section[Len(event'.section)] = stream[q]
  /\ mode' = "Collecting" =>
       /\ Len(buf') > 0 /\ buf'[1] = FirstByte(p)
       /\ mode # "Collecting" => p < q

LEMMA SectionEdges ==
  ASSUME Conforming(stream), FramerInv, NEW p, NEW m, Lies(stream, input, p, m), Loop,
         mode = "Collecting" => Len(buf) > 0,
         NEW d \in 0 .. Len(input), input' = Drop(input, d), NEW q, q = AtMost(p + d, m)
  PROVE  Edges(p, q)
<1>a. /\ stream \in Seq(Byte) /\ input \in Seq(Byte) /\ Len(input) \in Nat /\ Len(input) > 0
      /\ p \in Nat /\ m \in Nat /\ p <= m /\ m <= Len(stream) /\ Len(stream) \in Nat
      /\ Len(input) \in {m - p, m - p + 1} /\ d \in Nat /\ d <= Len(input)
      /\ buf \in Seq(Byte) /\ Len(buf) \in Nat /\ count \in Nat
  <2>1. InLoop
    BY LoopDrops
  <2>2. stream \in Seq(Byte)
    BY DEF Conforming
  <2>3. QED BY <2>1, <2>2, InLoopFacts, LiesTypes
<1>b. Len(input') = Len(input) - d
  BY <1>a, DropIs
<1>c. \A i \in 1 .. m - p : input[i] = stream[p + i]
  BY DEF Lies
<1>d. ASSUME d >= 1
      PROVE  input[d] = Stuffing \/ (q > p /\ input[d] = stream[q])
  <2>1. CASE p + d <= m
    <3>1. q = p + d /\ d \in 1 .. m - p /\ q > p
      BY <1>a, <1>d, <2>1 DEF AtMost
    <3>2. QED BY <1>c, <3>1
  <2>2. CASE ~(p + d <= m)
    <3>1. d = m - p + 1 /\ Len(input) = m - p + 1 /\ Len(input) # m - p
      BY <1>a, <2>2
    <3>2. input[m - p + 1] = Stuffing
      BY <3>1 DEF Lies
    <3>3. QED BY <3>1, <3>2
  <2>3. QED BY <2>1, <2>2
<1>e. ASSUME p < m, d >= 1
      PROVE  p < q /\ input[1] = stream[p + 1]
  <2>1. p < q /\ 1 \in 1 .. m - p
    BY <1>a, <1>e DEF AtMost
  <2>2. QED BY <1>c, <2>1
<1>1. CASE HeaderStarts \/ SectionStarts
  <2>1. /\ mode = "Idle" /\ mode' = "Collecting" /\ buf' = input /\ input' = <<>>
        /\ event'.section = <<>> /\ Head(input) # Stuffing
    BY <1>1, EventSections DEF HeaderStarts, SectionStarts, AtSection, Enter
  <2>2. d >= 1
    BY <1>a, <1>b, <2>1, EmptySection
  <2>3. p < m
    <3>1. SUFFICES ASSUME p = m PROVE FALSE
      BY <1>a
    <3>2. Len(input) # m - p /\ m - p + 1 = 1
      BY <1>a, <3>1
    <3>3. input[1] = Stuffing
      BY <3>2 DEF Lies
    <3>4. QED BY <2>1, <3>3
  <2>4. QED BY <1>a, <1>e, <2>1, <2>2, <2>3 DEF Edges, FirstByte
<1>2. CASE SectionInPlace
  <2> DEFINE l == Total(input)
  <2>1. /\ mode = "Idle" /\ mode' = "Idle" /\ input' = Drop(input, l)
        /\ event'.section = Take(input, l)
        /\ Len(input) >= 3 /\ Len(input) >= l
    BY <1>2, EventSections DEF SectionInPlace, AtSection, Stay, HeaderSize
  <2>2. l \in Nat /\ l >= 3
    BY <1>a, <2>1, HeaderIs DEF HeaderSize
  <2> HIDE DEF l
  <2>3. d = l
    <3>1. l \in 0 .. Len(input)
      BY <1>a, <2>1, <2>2
    <3>2. Len(input') = Len(input) - l
      BY <1>a, <2>1, <3>1, DropIs
    <3>3. QED BY <1>a, <1>b, <2>2, <3>2
  <2>4. p < m /\ d >= 1
    BY <1>a, <2>1, <2>2, <2>3
  <2>5. /\ Len(event'.section) = d
        /\ \A i \in 1 .. d : event'.section[i] = input[i]
    BY <1>a, <2>1, <2>3, TakeIs
  <2>6. 1 \in 1 .. d /\ d \in 1 .. d
    BY <1>a, <2>4
  <2>7. event'.section[1] = input[1] /\ event'.section[Len(event'.section)] = input[d]
    BY <2>5, <2>6
  <2>8. QED BY <1>d, <1>e, <2>1, <2>4, <2>7 DEF Edges, FirstByte
<1>3. CASE CollectMore \/ HeaderCollected \/ SectionCollected
  <2>1. /\ mode = "Collecting" /\ input' = Drop(input, Taken)
        /\ event'.section \in {<<>>, Collected}
        /\ mode' = "Collecting" => buf' = Collected
    BY <1>3, EventSections
       DEF CollectMore, HeaderCollected, SectionCollected, Collecting, Enter, BecomeIdle
  <2>2. Len(buf) < count
    BY <2>1 DEF FramerInv, BufferBounded
  <2>3. Taken \in 0 .. Len(input) /\ Taken >= 1
    BY <1>a, <2>2 DEF Taken, AtMost
  <2>4. d = Taken
    <3>1. Len(input') = Len(input) - Taken
      BY <1>a, <2>1, <2>3, DropIs
    <3>2. QED BY <1>a, <1>b, <2>3, <3>1
  <2> DEFINE t == Take(input, d)
  <2>5. t \in Seq(Byte) /\ Len(t) = d /\ \A i \in 1 .. d : t[i] = input[i]
    BY <1>a, TakeIs
  <2>6. Collected = buf \o t
    BY <2>4 DEF Collected
  <2> HIDE DEF t
  <2>7. /\ Len(Collected) = Len(buf) + Len(t)
        /\ \A i \in 1 .. Len(buf) + Len(t) :
             Collected[i] = IF i <= Len(buf) THEN buf[i] ELSE t[i - Len(buf)]
    <3>1. buf \in Seq(Byte) /\ t \in Seq(Byte)
      BY <1>a, <2>5
    <3>2. QED BY <2>6, <3>1, ConcatProperties
  <2>8. Len(buf) > 0 /\ d >= 1 /\ d \in 1 .. d
    BY <1>a, <2>1, <2>3, <2>4
  <2>9. Len(Collected) > 0 /\ Collected[1] = buf[1]
    <3>1. 1 \in 1 .. Len(buf) + Len(t) /\ 1 <= Len(buf) /\ Len(buf) + Len(t) > 0
      BY <1>a, <2>5, <2>8
    <3>2. QED BY <2>7, <3>1
  <2>10. Collected[Len(Collected)] = input[d]
    <3> DEFINE c == Len(buf) + Len(t)
    <3>1. c \in 1 .. c /\ ~(c <= Len(buf)) /\ c - Len(buf) = d
      BY <1>a, <2>5, <2>8
    <3>2. Collected[c] = t[c - Len(buf)]
      BY <2>7, <3>1
    <3> HIDE DEF c
    <3>3. Collected[c] = input[d]
      BY <2>5, <2>8, <3>1, <3>2
    <3>4. QED BY <2>7, <3>3 DEF c
  <2>11. QED BY <1>d, <2>1, <2>8, <2>9, <2>10 DEF Edges, FirstByte
<1>4. CASE StuffingReached \/ SectionRejected \/ Ignore
  <2>1. event'.section = <<>> /\ mode' # "Collecting"
    BY <1>4, EventSections
       DEF StuffingReached, SectionRejected, AtSection, Ignore, Stay, Enter
  <2>2. QED BY <2>1 DEF Edges
<1>5. QED BY <1>1, <1>2, <1>3, <1>4 DEF Loop

-----------------------------------------------------------------------------
(* Which bytes of the stream have come.                                    *)

NoStart(s, p, q) == \A r \in p + 1 .. q : s[r].off > 1

(* Of the section of byte p, all that was sent up to p is in g.            *)
Arrived(s, g, p) == \A q \in 1 .. p : s[q].sec = s[p].sec => q \in g

(* All of section k was sent up to p, and is in g.                         *)
Whole(s, k, p, g) == \A i \in 1 .. Len(s) : s[i].sec = k => i <= p /\ i \in g

LEMMA StreamStarts ==
  ASSUME NEW s, Conforming(s), NEW q \in 1 .. Len(s)
  PROVE  s[1].off = 1
<1>1. 1 \in 1 .. Len(s)
  BY ByteIs
<1>2. 1 - s[1].off \in Nat /\ s[1].off \in Nat /\ s[1].off >= 1
  BY <1>1, ByteIs, SectionIs
<1>3. QED BY <1>2

LEMMA SectionEnds ==
  ASSUME NEW s, Conforming(s), NEW i \in 1 .. Len(s)
  PROVE  \E e \in i .. Len(s) :
           /\ e \in 1 .. Len(s) /\ s[e].sec = s[i].sec /\ s[e].off = s[e].len
<1> DEFINE l == s[i].len
           e == i - s[i].off + l
<1>1. /\ i \in Nat /\ i >= 1 /\ i <= Len(s) /\ Len(s) \in Nat
      /\ s[i].off \in Nat /\ l \in Nat /\ s[i].off <= l /\ l >= 3
  BY ByteIs DEF HeaderSize
<1>2. l \in 1 .. s[i].len /\ e >= i /\ e \in Int
  BY <1>1
<1>3. e = i - s[i].off + l
  OBVIOUS
<1> HIDE DEF l, e
<1>4. e \in 1 .. Len(s) /\ s[e].sec = s[i].sec /\ s[e].off = l /\ s[e].len = s[i].len
  BY <1>2, <1>3, SectionByte
<1>5. QED BY <1>1, <1>2, <1>4 DEF l

(* A section that is whole at q and was not at p ends in between.          *)
LEMMA BecomesWhole ==
  ASSUME NEW s, Conforming(s), NEW k, NEW p, NEW q, NEW g, NEW h,
         Whole(s, k, q, g), ~Whole(s, k, p, h), p \in Nat, q \in Nat, q <= Len(s),
         \A i \in 1 .. p : i \in g => i \in h
  PROVE  \E r \in p + 1 .. q : r \in 1 .. Len(s) /\ s[r].sec = k /\ s[r].off = s[r].len
<1>1. PICK i \in 1 .. Len(s) : s[i].sec = k /\ ~(i <= p /\ i \in h)
  BY DEF Whole
<1>2. i \in g /\ i \in Nat /\ i >= 1 /\ Len(s) \in Nat
  BY <1>1, ByteIs DEF Whole
<1>3. i > p
  BY <1>1, <1>2
<1>4. PICK e \in i .. Len(s) : e \in 1 .. Len(s) /\ s[e].sec = s[i].sec /\ s[e].off = s[e].len
  BY SectionEnds
<1>5. e <= q
  BY <1>1, <1>4 DEF Whole
<1>6. e \in p + 1 .. q
  BY <1>2, <1>3, <1>4, <1>5
<1>7. QED BY <1>1, <1>4, <1>6

(* Bytes between two positions with no start in between are of one section.*)
LEMMA OneSection ==
  ASSUME NEW s, Conforming(s), NEW p \in 1 .. Len(s), NEW q \in p .. Len(s),
         NoStart(s, p, q), NEW r \in p .. q
  PROVE  s[r].sec = s[p].sec /\ r \in 1 .. Len(s)
<1>1. r \in p .. Len(s) /\ r \in 1 .. Len(s) /\ \A x \in p + 1 .. r : s[x].off > 1
  BY ByteIs DEF NoStart
<1>2. QED BY <1>1, SameUntilStart

LEMMA ArrivedBefore ==
  ASSUME NEW s, Conforming(s), NEW p \in Nat, NEW q \in p .. Len(s), NEW g,
         NoStart(s, p, q), Arrived(s, g, q)
  PROVE  Arrived(s, g, p)
<1>1. CASE p = 0
  BY <1>1 DEF Arrived
<1>2. CASE p # 0
  <2>1. p \in 1 .. Len(s) /\ q \in p .. q /\ Len(s) \in Nat
    <3>1. Len(s) \in Nat
      BY LenProperties DEF Conforming
    <3>2. QED BY <1>2, <3>1
  <2>2. s[q].sec = s[p].sec
    BY <2>1, OneSection
  <2>3. QED BY <2>1, <2>2 DEF Arrived
<1>3. QED BY <1>1, <1>2

LEMMA WholeHasArrived ==
  ASSUME NEW s, Conforming(s), NEW p \in Nat, NEW q \in p .. Len(s), NEW g, NEW k, NEW e,
         NoStart(s, p, q), NEW r \in p + 1 .. q, s[r].sec = k, Whole(s, k, e, g)
  PROVE  Arrived(s, g, p)
<1>1. CASE p = 0
  BY <1>1 DEF Arrived
<1>2. CASE p # 0
  <2>1. p \in 1 .. Len(s) /\ r \in p .. q /\ Len(s) \in Nat
    <3>1. Len(s) \in Nat
      BY LenProperties DEF Conforming
    <3>2. QED BY <1>2, <3>1
  <2>2. s[r].sec = s[p].sec
    BY <2>1, OneSection
  <2>3. QED BY <2>1, <2>2 DEF Arrived, Whole
<1>3. QED BY <1>1, <1>2

(* A section that was sent, and its first, third and last bytes.           *)
LEMMA SentIs ==
  ASSUME NEW s, Conforming(s), NEW n \in 1 .. Len(s), NEW t, t = SectionOf(s, s[n].sec)
  PROVE  /\ t \in Seq(Byte) /\ Len(t) \in Nat /\ Len(t) >= 3 /\ t # <<>>
         /\ t[1].sec = s[n].sec
         /\ t[1].version = t[3].version /\ t[1].version # NoVersion
         /\ t[Len(t)].sec = s[n].sec /\ t[Len(t)].off = t[Len(t)].len
         /\ t[Len(t)] # Stuffing
<1> DEFINE l == s[n].len
           b == n - s[n].off
<1>1. t \in Seq(Byte) /\ Len(t) = l /\ \A j \in 1 .. l : t[j] = s[b + j]
  BY SectionIs
<1>2. l \in Nat /\ l >= 3 /\ 1 \in 1 .. l /\ 3 \in 1 .. l /\ l \in 1 .. l
  BY ByteIs DEF HeaderSize
<1>3. \A j \in 1 .. l :
        /\ b + j \in 1 .. Len(s) /\ s[b + j].sec = s[n].sec /\ s[b + j].off = j
        /\ s[b + j].len = l /\ s[b + j].version = s[n].version
  BY SectionIs
<1> HIDE DEF l, b
<1>4. \A j \in 1 .. l :
        /\ t[j].sec = s[n].sec /\ t[j].off = j /\ t[j].len = l
        /\ t[j].version = s[n].version /\ t[j] # Stuffing
  BY <1>1, <1>3, ByteIs
<1>5. s[n].version # NoVersion
  BY ByteIs
<1>6. t # <<>>
  BY <1>1, <1>2, EmptySection
<1>7. QED BY <1>1, <1>2, <1>4, <1>5, <1>6

-----------------------------------------------------------------------------
(* Sections delivered: d is a sequence of them, s the stream they are of.  *)

Sent(s, x) == x = SectionOf(s, x[1].sec)

(* A section delivered begins with a byte of the stream.                   *)
Origin(s, x) ==
  x \in Seq(Byte) /\ x # <<>> /\ Valid(x) /\ \E n \in 1 .. Len(s) : x[1] = s[n]
Origins(s, d) == d \in Seq(Seq(Byte)) /\ \A i \in 1 .. Len(d) : Origin(s, d[i])

AllSent(s, d) == \A i \in 1 .. Len(d) : Sent(s, d[i])

Older(s, d, b) == \A i \in 1 .. Len(d) : Sent(s, d[i]) => d[i][1].sec < b.sec

Increasing(s, d) ==
  \A i, j \in 1 .. Len(d) :
    i < j /\ Sent(s, d[i]) /\ Sent(s, d[j]) => d[i][1].sec < d[j][1].sec

Delivers(d, x) == \E i \in 1 .. Len(d) : d[i] = x

Complete(s, d, p, g) ==
  \A k \in Accepted(s) : Whole(s, k, p, g) => Delivers(d, SectionOf(s, k))

LEMMA OriginIs ==
  ASSUME NEW s, Conforming(s), NEW x, Origin(s, x), Sent(s, x)
  PROVE  /\ x[1].sec \in Accepted(s) /\ x[1].sec \in Nat
         /\ x[1].version = x[3].version /\ x[1].version # NoVersion
         /\ x[Len(x)].sec = x[1].sec /\ x[Len(x)].off = x[Len(x)].len
         /\ x[Len(x)] # Stuffing
<1>1. PICK n \in 1 .. Len(s) : x[1] = s[n]
  BY DEF Origin
<1>2. x = SectionOf(s, s[n].sec)
  BY <1>1 DEF Sent
<1>3. s[n].sec \in Nat
  BY ByteIs
<1>4. Valid(SectionOf(s, s[n].sec))
  BY <1>2 DEF Origin
<1>5. s[n].sec \in Accepted(s)
  BY <1>4 DEF Accepted
<1>6. QED BY <1>1, <1>2, <1>3, <1>5, SentIs

(* A section delivered after all the older ones and before all the later   *)
(* ones: its last byte is that of the section that ends at q, or stuffing. *)
LEMMA OrderGrows ==
  ASSUME NEW s, Conforming(s), NEW d, Origins(s, d), Increasing(s, d),
         NEW x, Origin(s, x), Older(s, d, x[1]), NEW q \in Nat,
         x[Len(x)] = Stuffing \/ (q \in 1 .. Len(s) /\ x[Len(x)] = s[q]),
         \A r \in q + 1 .. Len(s) : Older(s, d, s[r])
  PROVE  /\ Origins(s, Append(d, x)) /\ Increasing(s, Append(d, x))
         /\ \A r \in q + 1 .. Len(s) : Older(s, Append(d, x), s[r])
<1> DEFINE e == Append(d, x)
           n == Len(d)
<1>1. d \in Seq(Seq(Byte)) /\ x \in Seq(Byte) /\ n \in Nat
  BY LenProperties DEF Origins, Origin
<1>2. /\ e \in Seq(Seq(Byte)) /\ Len(e) = n + 1 /\ e[n + 1] = x
      /\ \A i \in 1 .. n : e[i] = d[i]
  BY <1>1, AppendProperties
<1> HIDE DEF e, n
<1>3. \A i \in 1 .. n + 1 : i \in 1 .. n \/ i = n + 1
  BY <1>1
<1>4. Origins(s, e)
  BY <1>2, <1>3 DEF Origins, n
<1>5. Increasing(s, e)
  <2>1. SUFFICES ASSUME NEW i \in 1 .. n + 1, NEW j \in 1 .. n + 1, i < j,
                        Sent(s, e[i]), Sent(s, e[j])
                 PROVE  e[i][1].sec < e[j][1].sec
    BY <1>2 DEF Increasing
  <2>2. i \in 1 .. n
    BY <1>1, <2>1
  <2>3. CASE j \in 1 .. n
    BY <1>2, <2>1, <2>2, <2>3 DEF Increasing, n
  <2>4. CASE j = n + 1
    BY <1>2, <2>1, <2>2, <2>4 DEF Older, n
  <2>5. QED BY <1>3, <2>3, <2>4
<1>6. ASSUME NEW r \in q + 1 .. Len(s)
      PROVE  Older(s, e, s[r])
  <2>1. SUFFICES ASSUME NEW i \in 1 .. n + 1, Sent(s, e[i])
                 PROVE  e[i][1].sec < s[r].sec
    BY <1>2 DEF Older
  <2>2. CASE i \in 1 .. n
    <3>1. Older(s, d, s[r])
      BY <1>6
    <3>2. QED BY <1>2, <2>1, <2>2, <3>1 DEF Older, n
  <2>3. CASE i = n + 1
    <3>1. Sent(s, x)
      BY <1>2, <2>1, <2>3
    <3>2. x[Len(x)].sec = x[1].sec /\ x[Len(x)].off = x[Len(x)].len /\ x[Len(x)] # Stuffing
      BY <3>1, OriginIs
    <3>3. q \in 1 .. Len(s) /\ s[q].sec = x[1].sec /\ s[q].off = s[q].len
      BY <3>2
    <3>4. s[q].sec < s[r].sec
      BY <3>3, LaterSections
    <3>5. QED BY <1>2, <2>3, <3>3, <3>4
  <2>4. QED BY <1>3, <2>2, <2>3
<1>7. QED BY <1>4, <1>5, <1>6 DEF e

OlderWhole(s, n, q, g) == \A k \in Accepted(s) : k < n => Whole(s, k, q, g)

(* The table x has a new version exactly if it is not y's.                 *)
Renews(y, x) == y[1].version = x[1].version <=> y[1].content = x[1].content

(* When all that is delivered was sent, there is no section that the       *)
(* framer accepts between one delivered and the next.                      *)
LEMMA NextDelivered ==
  ASSUME NEW s, Conforming(s), Versioned(s), NEW d, Origins(s, d), d # <<>>,
         NEW x, Origin(s, x), NEW e, e = Append(d, x), Increasing(s, e), AllSent(s, e),
         NEW q, NEW g, Complete(s, e, q, g),
         OlderWhole(s, x[1].sec, q, g)
  PROVE  Renews(d[Len(d)], x)
<1> DEFINE n == Len(d)
           y == d[n]
<1>1. d \in Seq(Seq(Byte)) /\ x \in Seq(Byte) /\ n \in Nat /\ n >= 1
  BY EmptySeq, LenProperties DEF Origins, Origin
<1>2. /\ Len(e) = n + 1 /\ e[n + 1] = x /\ \A i \in 1 .. n : e[i] = d[i]
  BY <1>1, AppendProperties
<1>3. n \in 1 .. n /\ n \in 1 .. n + 1 /\ n + 1 \in 1 .. n + 1 /\ n < n + 1
      /\ \A i \in 1 .. n + 1 : i \in Nat /\ (i < n \/ i = n \/ i = n + 1)
  BY <1>1
<1>4. Origin(s, y) /\ Sent(s, y) /\ Sent(s, x) /\ e[n] = y
  BY <1>2, <1>3 DEF Origins, AllSent
<1> HIDE DEF n, y
<1>5. /\ y[1].sec \in Accepted(s) /\ x[1].sec \in Accepted(s)
      /\ y[1].sec \in Nat /\ x[1].sec \in Nat
  BY <1>4, OriginIs
<1>6. y[1].sec < x[1].sec
  BY <1>2, <1>3, <1>4 DEF Increasing
<1>7. ASSUME NEW k \in Accepted(s), ~(k <= y[1].sec \/ x[1].sec <= k)
      PROVE  FALSE
  <2>1. PICK i \in 1 .. Len(s) : s[i].sec = k
    BY DEF Accepted
  <2>2. k \in Nat
    BY <2>1, ByteIs
  <2>3. k < x[1].sec /\ y[1].sec < k
    BY <1>5, <1>7, <2>2
  <2>4. Delivers(e, SectionOf(s, k))
    BY <2>3 DEF Complete, OlderWhole
  <2>5. PICK j \in 1 .. n + 1 : e[j] = SectionOf(s, k)
    BY <1>2, <2>4 DEF Delivers
  <2>6. e[j][1].sec = k
    BY <2>1, <2>5, SentIs
  <2>7. Sent(s, e[j])
    BY <1>2 DEF AllSent
  <2>8. CASE j < n
    <3>1. k < y[1].sec
      BY <1>2, <1>3, <1>4, <2>6, <2>7, <2>8 DEF Increasing
    <3>2. QED BY <1>5, <2>2, <2>3, <3>1
  <2>9. CASE j = n
    <3>1. y[1].sec = k
      BY <1>4, <2>6, <2>9
    <3>2. QED BY <1>5, <2>3, <3>1
  <2>10. CASE j = n + 1
    <3>1. x[1].sec = k
      BY <1>2, <2>6, <2>10
    <3>2. QED BY <1>5, <2>3, <3>1
  <2>11. QED BY <1>3, <2>8, <2>9, <2>10
<1>8. SectionOf(s, y[1].sec) = y /\ SectionOf(s, x[1].sec) = x
  BY <1>4 DEF Sent
<1>9. QED BY <1>5, <1>6, <1>7, <1>8 DEF Versioned, Renews, y, n

(* What the inner parser has seen, of the sections delivered so far.       *)
Chain(c, d, v) ==
  /\ \A i \in 1 .. Len(c) - 1 : c[i] # c[i + 1]
  /\ d = <<>> => c = <<>> /\ v = NoVersion
  /\ d # <<>> => /\ c # <<>> /\ c[Len(c)] = d[Len(d)][1].content
                 /\ v = d[Len(d)][1].version

LEMMA ChainGrows ==
  ASSUME NEW C, NEW c \in Seq(C), NEW d \in Seq(Seq(Byte)), NEW v, Chain(c, d, v),
         NEW x \in Seq(Byte), x[1].content \in C,
         x[1].version = x[3].version, x[1].version # NoVersion,
         d # <<>> => Renews(d[Len(d)], x)
  PROVE  /\ v = x[3].version => Chain(c, Append(d, x), v)
         /\ v # x[3].version =>
              Chain(Append(c, x[1].content), Append(d, x), x[3].version)
<1> DEFINE n == Len(c)
           z == x[1].content
<1>1. /\ Append(d, x) # <<>> /\ Append(d, x)[Len(Append(d, x))] = x
  BY AppendProperties
<1>2. n \in Nat
  BY LenProperties
<1>3. /\ Append(c, z) \in Seq(C) /\ Append(c, z) # <<>> /\ Len(Append(c, z)) = n + 1
      /\ \A i \in 1 .. n : Append(c, z)[i] = c[i]
      /\ Append(c, z)[n + 1] = z
  BY AppendProperties
<1> HIDE DEF z
<1>4. CASE v = x[3].version
  <2>1. d # <<>>
    BY <1>4 DEF Chain
  <2>2. z = c[Len(c)] /\ c # <<>>
    BY <1>4, <2>1 DEF Chain, Renews, z
  <2>3. Chain(c, Append(d, x), v)
    BY <1>1, <1>4, <2>2 DEF Chain, z
  <2>4. QED BY <1>4, <2>3
<1>5. CASE v # x[3].version
  <2> DEFINE a == Append(c, z)
  <2>1. n > 0 => c[n] # z
    <3>1. SUFFICES ASSUME n > 0 PROVE c[n] # z
      OBVIOUS
    <3>2. c # <<>>
      BY <3>1, EmptySeq
    <3>3. d # <<>>
      BY <3>2 DEF Chain
    <3>4. QED BY <1>5, <3>3 DEF Chain, Renews, z
  <2> HIDE DEF a
  <2>2. ASSUME NEW i \in 1 .. Len(a) - 1
        PROVE  a[i] # a[i + 1]
    <3>1. i \in 1 .. n /\ Len(a) = n + 1
      BY <1>2, <1>3, <2>2 DEF a
    <3>2. a[i] = c[i]
      BY <1>3, <3>1 DEF a
    <3>3. CASE i = n
      BY <1>2, <1>3, <2>1, <3>1, <3>2, <3>3 DEF a
    <3>4. CASE i # n
      <4>1. i + 1 \in 1 .. n /\ i \in 1 .. n - 1
        BY <1>2, <3>1, <3>4
      <4>2. a[i + 1] = c[i + 1]
        BY <1>3, <4>1 DEF a
      <4>3. QED BY <3>2, <4>1, <4>2 DEF Chain
    <3>5. QED BY <3>3, <3>4
  <2>3. a \in Seq(C) /\ a # <<>> /\ a[Len(a)] = z
    BY <1>3 DEF a
  <2>4. Chain(a, Append(d, x), x[3].version)
    BY <1>1, <2>2, <2>3 DEF Chain, z
  <2>5. QED BY <1>5, <2>4 DEF a, z
<1>6. QED BY <1>4, <1>5

-----------------------------------------------------------------------------
(* The inductive invariant.  The framer has read the stream up to p; what  *)
(* feed() has in hand ends at m, and what is left for its second call at   *)
(* pos.  No section starts between p and m when there is a second call.    *)

InHand(p, m) ==
  /\ Lies(stream, input, p, m) /\ Lies(stream, rest, m, pos)
  /\ pc # "first" => rest = <<>>
  /\ pc = "first" => m < pos /\ stream[m + 1].off = 1 /\ NoStart(stream, p, m)

(* reset() came in the middle of a section.                                *)
Adrift == resets /\ mode = "Idle" /\ input = <<>> /\ pc \in {"ready", "first"}

(* If of the section in progress nothing is lost, the framer is where the  *)
(* stream is; if it is not, it reads no byte of the next section.          *)
Aligned(p, m) ==
  /\ Arrived(stream, got, p) => InStep(p) \/ Adrift
  /\ input # <<>> => InStep(p) \/ NoStart(stream, p, m)

(* What is delivered that was sent comes in its order, and before all that *)
(* is still to be read or delivered.                                       *)
Ordered(p) ==
  /\ Increasing(stream, delivered)
  /\ \A q \in p + 1 .. Len(stream) : Older(stream, delivered, stream[q])
  /\ mode = "Collecting" =>
       /\ Len(buf) > 0
       /\ \E n \in 1 .. p : buf[1] = stream[n] /\ Older(stream, delivered, stream[n])

Progress(p, m) ==
  /\ InHand(p, m) /\ Aligned(p, m) /\ Ordered(p)
  /\ ~resets => Complete(stream, delivered, p, got)

Contents == {b.content : b \in Byte}

StreamTypes ==
  /\ Conforming(stream) /\ Versioned(stream)
  /\ pos \in 0 .. Len(stream) /\ got \subseteq 1 .. pos
  /\ Origins(stream, delivered)
  /\ parsed \in Seq(Contents)

Sound == Lossless => AllSent(stream, delivered)

NoneRejectedBare == \A k \in SectionNumbers : ~RejectedWithNoBody(k)

Changes == Lossless /\ ~resets /\ NoneRejectedBare => Chain(parsed, delivered, last_version)

StreamInv ==
  /\ FramerInv /\ StreamTypes /\ Sound /\ Changes /\ NoFalseAlarm
  /\ \E p, m \in 0 .. pos : Progress(p, m)

LEMMA ProgressTypes ==
  ASSUME StreamTypes, NEW p, NEW m, InHand(p, m)
  PROVE  /\ p \in Nat /\ m \in Nat /\ p <= m /\ m <= pos /\ pos \in Nat
         /\ pos <= Len(stream) /\ Len(stream) \in Nat /\ stream \in Seq(Byte)
         /\ input \in Seq(Byte) /\ rest \in Seq(Byte)
         /\ input = <<>> => p = m
         /\ rest = <<>> => m = pos
<1>1. stream \in Seq(Byte)
  BY DEF StreamTypes, Conforming
<1>2. QED BY <1>1, LiesTypes, LiesEmpty DEF InHand

-----------------------------------------------------------------------------
(* An iteration of feed().                                                 *)

LEMMA LoopReports ==
  ASSUME Loop
  PROVE  /\ event'.reset = FALSE /\ event'.error # "ExtraDataAfterSectionComplete"
         /\ event'.section # <<>> => mode' = "Idle"
<1>1. /\ Quiet.reset = FALSE /\ Quiet.error = "-"
      /\ \A e : Error(e).reset = FALSE /\ Error(e).error = e
      /\ \A x : Section(x).reset = FALSE /\ Section(x).error = "-"
  BY DEF Quiet, Error, Section
<1>2. \A h : HeaderError(h) \in {"UnexpectedSectionSyntaxIndicator", "PsiSectionTooLarge",
                                 "SectionDataTooShort", "-"}
  BY DEF HeaderError
<1>3. CASE SectionRejected \/ HeaderCollected
  <2>1. event' \in {Quiet, Section(Collected), Error(HeaderError(Collected)),
                    Error(HeaderError(Header(input)))}
    BY <1>3 DEF SectionRejected, HeaderCollected
  <2>2. event'.section # <<>> => mode' = "Idle"
    BY <1>3, EventSections DEF SectionRejected, HeaderCollected, BecomeIdle, Enter
  <2>3. event'.reset = FALSE
    BY <1>1, <2>1
  <2>4. event'.error \in {"-", HeaderError(Collected), HeaderError(Header(input))}
    BY <1>1, <2>1
  <2>5. QED BY <1>2, <2>2, <2>3, <2>4
<1>4. CASE SectionInPlace \/ SectionCollected
  <2>1. \E x : event' = Section(x)
    BY <1>4 DEF SectionInPlace, SectionCollected
  <2>2. mode' = "Idle"
    BY <1>4 DEF SectionInPlace, AtSection, Stay, SectionCollected, BecomeIdle, Enter
  <2>3. QED BY <1>1, <2>1, <2>2
<1>5. CASE StuffingReached \/ HeaderStarts \/ SectionStarts \/ CollectMore \/ Ignore
  <2>1. event' = Quiet
    BY <1>5 DEF StuffingReached, HeaderStarts, SectionStarts, CollectMore, Ignore
  <2>2. QED BY <1>1, <2>1, EventSections
<1>6. QED BY <1>3, <1>4, <1>5 DEF Loop

(* It reads from p to q.                                                   *)
Iteration(p, m, q) ==
  /\ Loop /\ Parse /\ UNCHANGED pathVars
  /\ StreamInv /\ Progress(p, m) /\ FramerInv'
  /\ p \in Nat /\ q \in Nat /\ m \in Nat /\ p <= q /\ q <= m /\ m <= pos
  /\ pos <= Len(stream) /\ Len(stream) \in Nat /\ pos \in Nat
  /\ Edges(p, q) /\ (InStep(p) => InStep(q)' /\ Passes(p, q))
  /\ InHand(q, m)'

LEMMA LoopIterates ==
  ASSUME StreamInv, Loop, Parse, UNCHANGED pathVars, NEW p, NEW m, Progress(p, m)
  PROVE  \E q : Iteration(p, m, q)
<1>1. InLoop
  BY LoopDrops DEF StreamInv
<1>2. PICK d \in 0 .. Len(input) : input' = Drop(input, d)
  BY LoopDrops DEF StreamInv
<1> DEFINE q == AtMost(p + d, m)
<1>3. /\ Conforming(stream) /\ InHand(p, m) /\ Lies(stream, input, p, m) /\ FramerInv
      /\ mode = "Collecting" => Len(buf) > 0
  BY DEF StreamInv, StreamTypes, Progress, InHand, Ordered
<1>4. /\ p \in Nat /\ m \in Nat /\ p <= m /\ m <= pos /\ pos \in Nat
      /\ pos <= Len(stream) /\ Len(stream) \in Nat /\ stream \in Seq(Byte)
      /\ Len(input) \in Nat
  <2>1. input \in Seq(Byte)
    BY <1>3, ProgressTypes DEF StreamInv
  <2>2. QED BY <1>3, <2>1, ProgressTypes, LenProperties DEF StreamInv
<1>5. q \in Nat /\ p <= q /\ q <= m
  BY <1>2, <1>4 DEF AtMost
<1>6. stream' = stream /\ pos' = pos /\ got' = got /\ resets' = resets
  BY DEF pathVars
<1>7. Lies(stream, Drop(input, d), q, m)
  BY <1>2, <1>3, <1>4, LiesDrop
<1>8. q = AtMost(p + d, m)
  OBVIOUS
<1> HIDE DEF q
<1>9. Edges(p, q) /\ (InStep(p) => InStep(q)' /\ Passes(p, q))
  BY <1>2, <1>3, <1>6, <1>8, SectionEdges, LoopInStep
<1>10. FramerInv'
  BY <1>3, RunKeepsInv DEF Run
<1>11. InHand(q, m)'
  <2>1. pc' = pc /\ rest' = rest /\ Lies(stream, input', q, m)
    BY <1>1, <1>2, <1>7 DEF InLoop
  <2>2. NoStart(stream, p, m) => NoStart(stream, q, m)
    BY <1>4, <1>5 DEF NoStart
  <2>3. /\ Lies(stream', input', q, m) /\ Lies(stream', rest', m, pos')
        /\ pc' # "first" => rest' = <<>>
        /\ pc' = "first" => m < pos' /\ stream'[m + 1].off = 1 /\ NoStart(stream', q, m)
    BY <1>3, <1>6, <2>1, <2>2 DEF InHand
  <2>4. QED BY <2>3 DEF InHand, Lies, Boundary, NoStart
<1>12. Iteration(p, m, q)
  BY <1>4, <1>5, <1>9, <1>10, <1>11 DEF Iteration
<1>13. QED BY <1>12

LEMMA IterationAligned ==
  ASSUME NEW p, NEW m, NEW q, Iteration(p, m, q)
  PROVE  /\ Aligned(q, m)'
         /\ ~InStep(p) => NoStart(stream, p, q) /\ ~Arrived(stream, got, p)
<1>1. /\ Conforming(stream) /\ p \in Nat /\ q \in Nat /\ m \in Nat /\ p <= q /\ q <= m
      /\ q \in p .. Len(stream) /\ Len(stream) \in Nat
      /\ InStep(p) => InStep(q)'
      /\ stream' = stream /\ got' = got /\ input # <<>>
      /\ Arrived(stream, got, p) => InStep(p) \/ Adrift
      /\ InStep(p) \/ NoStart(stream, p, m)
  <2>1. Conforming(stream) /\ Aligned(p, m) /\ UNCHANGED pathVars
    BY DEF Iteration, StreamInv, StreamTypes, Progress
  <2>2. input # <<>>
    BY LoopDrops DEF Iteration, StreamInv, InLoop
  <2>3. q \in p .. Len(stream)
    BY DEF Iteration
  <2>4. QED BY <2>1, <2>2, <2>3 DEF Iteration, Aligned, pathVars
<1>2. ASSUME ~InStep(p)
      PROVE  /\ NoStart(stream, p, q) /\ NoStart(stream, q, m)
             /\ ~Arrived(stream, got, p) /\ ~Arrived(stream, got, q)
  <2>1. NoStart(stream, p, q) /\ NoStart(stream, q, m)
    BY <1>1, <1>2 DEF NoStart
  <2>2. ~Arrived(stream, got, p)
    BY <1>1, <1>2 DEF Adrift
  <2>3. QED BY <1>1, <2>1, <2>2, ArrivedBefore
<1>3. /\ Arrived(stream', got', q) => InStep(q)'
      /\ InStep(q)' \/ NoStart(stream', q, m)
  BY <1>1, <1>2
<1>4. Aligned(q, m)'
  BY <1>3 DEF Aligned, Arrived, NoStart
<1>5. QED BY <1>2, <1>4

(* What an iteration delivers, if anything.                                *)
LEMMA IterationDelivers ==
  ASSUME NEW p, NEW m, NEW q, Iteration(p, m, q), NEW x, x = event'.section
  PROVE  /\ x = <<>> => UNCHANGED outVars /\ last_version' = last_version
         /\ x # <<>> => /\ Origin(stream, x) /\ Older(stream, delivered, x[1])
                        /\ x[Len(x)] = Stuffing
                             \/ (q \in 1 .. Len(stream) /\ x[Len(x)] = stream[q])
                        /\ delivered' = Append(delivered, x)
                        /\ mode' = "Idle"
<1>a. /\ Conforming(stream) /\ Ordered(p) /\ Edges(p, q) /\ Parse /\ FramerInv'
      /\ p \in Nat /\ q \in Nat /\ p <= q /\ q <= Len(stream) /\ Len(stream) \in Nat
  BY DEF Iteration, StreamInv, StreamTypes, Progress
<1>1. event'.reset = FALSE /\ (x # <<>> => mode' = "Idle")
  BY LoopReports DEF Iteration
<1>2. CASE x = <<>>
  <2>1. UNCHANGED outVars /\ NoSection
    BY <1>1, <1>2, <1>a DEF Parse
  <2>2. QED BY <1>2, <2>1 DEF NoSection
<1>3. CASE x # <<>>
  <2>1. delivered' = Append(delivered, x)
    BY <1>3, <1>a DEF Parse
  <2>2. x \in Seq(Byte) /\ Valid(x)
    <3>1. TypeOK' /\ SectionsAreWhole'
      BY <1>a DEF FramerInv
    <3>2. x \in Seq(Byte)
      BY <3>1 DEF TypeOK
    <3>3. Valid(x)
      BY <1>3, <3>1 DEF SectionsAreWhole, Valid, HeaderError, Header, Take
    <3>4. QED BY <3>2, <3>3
  <2>3. /\ x[1] = FirstByte(p) /\ (mode # "Collecting" => p < q)
        /\ \/ x[Len(x)] = Stuffing
           \/ q > p /\ x[Len(x)] = stream[q]
    BY <1>3, <1>a DEF Edges
  <2>4. \E n \in 1 .. Len(stream) : x[1] = stream[n] /\ Older(stream, delivered, stream[n])
    <3>1. CASE mode = "Collecting"
      <4>1. PICK n \in 1 .. p : buf[1] = stream[n] /\ Older(stream, delivered, stream[n])
        BY <1>a, <3>1 DEF Ordered
      <4>2. n \in 1 .. Len(stream)
        BY <1>a
      <4>3. QED BY <2>3, <3>1, <4>1, <4>2 DEF FirstByte
    <3>2. CASE mode # "Collecting"
      <4> DEFINE n == p + 1
      <4>1. n \in 1 .. Len(stream) /\ n \in p + 1 .. Len(stream)
        BY <1>a, <2>3, <3>2
      <4>2. Older(stream, delivered, stream[n])
        BY <1>a, <4>1 DEF Ordered
      <4>3. QED BY <2>3, <3>2, <4>1, <4>2 DEF FirstByte
    <3>3. QED BY <3>1, <3>2
  <2>5. Origin(stream, x) /\ Older(stream, delivered, x[1])
    BY <1>3, <2>2, <2>4 DEF Origin
  <2>6. q > p => q \in 1 .. Len(stream)
    BY <1>a
  <2>7. QED BY <1>1, <1>3, <2>1, <2>3, <2>5, <2>6
<1>4. QED BY <1>2, <1>3

LEMMA IterationOrdered ==
  ASSUME NEW p, NEW m, NEW q, Iteration(p, m, q)
  PROVE  Ordered(q)' /\ Origins(stream, delivered')
<1> DEFINE x == event'.section
<1>a. /\ Conforming(stream) /\ Ordered(p) /\ Edges(p, q) /\ Origins(stream, delivered)
      /\ p \in Nat /\ q \in Nat /\ p <= q /\ q <= Len(stream) /\ Len(stream) \in Nat
      /\ stream' = stream
  BY DEF Iteration, StreamInv, StreamTypes, Progress, pathVars
<1>b. /\ x = <<>> => UNCHANGED outVars
      /\ x # <<>> => /\ Origin(stream, x) /\ Older(stream, delivered, x[1])
                     /\ x[Len(x)] = Stuffing
                          \/ (q \in 1 .. Len(stream) /\ x[Len(x)] = stream[q])
                     /\ delivered' = Append(delivered, x)
                     /\ mode' = "Idle"
  BY IterationDelivers
<1> HIDE DEF x
<1>c. \A r \in q + 1 .. Len(stream) : Older(stream, delivered, stream[r])
  <2>1. \A r \in q + 1 .. Len(stream) : r \in p + 1 .. Len(stream)
    BY <1>a
  <2>2. QED BY <1>a, <2>1 DEF Ordered
<1>1. CASE x # <<>>
  <2>1. /\ Origins(stream, Append(delivered, x)) /\ Increasing(stream, Append(delivered, x))
        /\ \A r \in q + 1 .. Len(stream) : Older(stream, Append(delivered, x), stream[r])
    BY <1>1, <1>a, <1>b, <1>c, OrderGrows DEF Ordered
  <2>2. /\ Increasing(stream', delivered')
        /\ \A r \in q + 1 .. Len(stream') : Older(stream', delivered', stream'[r])
        /\ mode' # "Collecting"
    BY <1>1, <1>a, <1>b, <2>1
  <2>3. Ordered(q)'
    BY <2>2 DEF Ordered, Increasing, Older, Sent
  <2>4. QED BY <1>1, <1>b, <2>1, <2>3
<1>2. CASE x = <<>>
  <2>1. delivered' = delivered
    BY <1>2, <1>b DEF outVars
  <2>2. ASSUME mode' = "Collecting"
        PROVE  /\ Len(buf') > 0
               /\ \E n \in 1 .. q : buf'[1] = stream[n] /\ Older(stream, delivered, stream[n])
    <3>1. /\ Len(buf') > 0 /\ buf'[1] = FirstByte(p) /\ (mode # "Collecting" => p < q)
      BY <1>a, <2>2 DEF Edges
    <3>2. CASE mode = "Collecting"
      <4>1. PICK n \in 1 .. p : buf[1] = stream[n] /\ Older(stream, delivered, stream[n])
        BY <1>a, <3>2 DEF Ordered
      <4>2. n \in 1 .. q
        BY <1>a
      <4>3. QED BY <3>1, <3>2, <4>1, <4>2 DEF FirstByte
    <3>3. CASE mode # "Collecting"
      <4> DEFINE n == p + 1
      <4>1. n \in 1 .. q /\ n \in p + 1 .. Len(stream)
        BY <1>a, <3>1, <3>3
      <4>2. Older(stream, delivered, stream[n])
        BY <1>a, <4>1 DEF Ordered
      <4>3. QED BY <3>1, <3>3, <4>1, <4>2 DEF FirstByte
    <3>4. QED BY <3>2, <3>3
  <2>3. /\ Increasing(stream', delivered')
        /\ \A r \in q + 1 .. Len(stream') : Older(stream', delivered', stream'[r])
        /\ mode' = "Collecting" =>
             /\ Len(buf') > 0
             /\ \E n \in 1 .. q : buf'[1] = stream'[n] /\ Older(stream', delivered', stream'[n])
    BY <1>a, <1>c, <2>1, <2>2 DEF Ordered
  <2>4. Ordered(q)'
    BY <2>3 DEF Ordered, Increasing, Older, Sent
  <2>5. QED BY <1>a, <2>1, <2>4
<1>3. QED BY <1>1, <1>2

(* A section that the iteration reads the last byte of, and all of which   *)
(* arrived, is delivered.                                                  *)
LEMMA IterationComplete ==
  ASSUME NEW p, NEW m, NEW q, Iteration(p, m, q), ~resets
  PROVE  Complete(stream, delivered', q, got)
<1> DEFINE x == event'.section
<1>a. /\ Conforming(stream) /\ Origins(stream, delivered)
      /\ p \in Nat /\ q \in Nat /\ p <= q /\ q <= Len(stream) /\ Len(stream) \in Nat
      /\ q \in p .. Len(stream)
      /\ Complete(stream, delivered, p, got)
      /\ InStep(p) => Passes(p, q)
      /\ ~InStep(p) => NoStart(stream, p, q) /\ ~Arrived(stream, got, p)
  <2>1. p \in Nat /\ q \in Nat /\ p <= q /\ q <= Len(stream) /\ Len(stream) \in Nat
    BY DEF Iteration
  <2>2. q \in p .. Len(stream)
    BY <2>1
  <2>3. QED BY <2>1, <2>2, IterationAligned DEF Iteration, StreamInv, StreamTypes, Progress
<1>b. /\ x = <<>> => UNCHANGED outVars
      /\ x # <<>> => Origin(stream, x) /\ delivered' = Append(delivered, x)
  BY IterationDelivers
<1>1. SUFFICES ASSUME NEW k \in Accepted(stream), Whole(stream, k, q, got)
               PROVE  Delivers(delivered', SectionOf(stream, k))
  BY DEF Complete
<1>2. \A y : Delivers(delivered, y) => Delivers(delivered', y)
  <2>1. CASE x = <<>>
    BY <2>1, <1>b DEF outVars
  <2>2. CASE x # <<>>
    <3>1. delivered \in Seq(Seq(Byte)) /\ x \in Seq(Byte) /\ delivered' = Append(delivered, x)
      BY <1>a, <1>b, <2>2 DEF Origins, Origin
    <3>2. /\ Len(delivered) \in Nat /\ Len(delivered') = Len(delivered) + 1
          /\ \A i \in 1 .. Len(delivered) : delivered'[i] = delivered[i]
      BY <3>1, AppendProperties, LenProperties
    <3>3. \A i \in 1 .. Len(delivered) : i \in 1 .. Len(delivered')
      BY <3>2
    <3>4. QED BY <3>2, <3>3 DEF Delivers
  <2>3. QED BY <2>1, <2>2
<1>3. CASE Whole(stream, k, p, got)
  BY <1>3, <1>a, <1>2 DEF Complete
<1>4. CASE ~Whole(stream, k, p, got)
  <2>1. PICK r \in p + 1 .. q :
          r \in 1 .. Len(stream) /\ stream[r].sec = k /\ stream[r].off = stream[r].len
    BY <1>a, <1>1, <1>4, BecomesWhole
  <2>2. CASE ~InStep(p)
    BY <1>a, <1>1, <2>1, <2>2, WholeHasArrived
  <2>3. CASE InStep(p)
    <3>1. Valid(SentSection(stream[r].sec))
      BY <2>1 DEF Accepted, SentSection
    <3>2. r = q /\ x # <<>>
      BY <1>a, <2>1, <2>3, <3>1 DEF Passes
    <3>3. x = SectionOf(stream, k)
      BY <1>a, <2>1, <2>3, <3>2 DEF Passes, SentSection
    <3>4. delivered \in Seq(Seq(Byte)) /\ x \in Seq(Byte) /\ delivered' = Append(delivered, x)
      BY <1>a, <1>b, <3>2 DEF Origins, Origin
    <3>5. /\ Len(delivered') = Len(delivered) + 1 /\ Len(delivered) \in Nat
          /\ delivered'[Len(delivered) + 1] = x
      BY <3>4, AppendProperties, LenProperties
    <3>6. Len(delivered) + 1 \in 1 .. Len(delivered')
      BY <3>5
    <3>7. QED BY <3>3, <3>5, <3>6 DEF Delivers
  <2>4. QED BY <2>2, <2>3
<1>5. QED BY <1>3, <1>4

LEMMA LosslessArrives ==
  ASSUME Lossless, NEW p \in Nat, p <= pos, pos \in Nat
  PROVE  Arrived(stream, got, p)
BY DEF Lossless, Arrived

(* With nothing lost, what the iteration delivers is the section that ends *)
(* at q.                                                                   *)
LEMMA IterationSound ==
  ASSUME NEW p, NEW m, NEW q, Iteration(p, m, q), Lossless,
         NEW x, x = event'.section
  PROVE  /\ AllSent(stream, delivered')
         /\ x # <<>> => q \in 1 .. Len(stream) /\ Sent(stream, x) /\ x[1].sec = stream[q].sec
<1>a. /\ Conforming(stream) /\ Origins(stream, delivered)
      /\ p \in Nat /\ p <= pos /\ pos \in Nat /\ q \in Nat
      /\ AllSent(stream, delivered)
      /\ InStep(p) => Passes(p, q)
      /\ ~InStep(p) => ~Arrived(stream, got, p)
      /\ p <= q /\ q <= Len(stream) /\ Len(stream) \in Nat
  <2>1. p \in Nat /\ q \in Nat /\ m \in Nat /\ p <= q /\ q <= m /\ m <= pos
        /\ pos <= Len(stream) /\ Len(stream) \in Nat /\ pos \in Nat
    BY DEF Iteration
  <2>2. p <= pos /\ q <= Len(stream)
    BY <2>1
  <2>3. QED BY <2>1, <2>2, IterationAligned DEF Iteration, StreamInv, StreamTypes, Sound
<1>b. Passes(p, q)
  BY <1>a, LosslessArrives
<1>c. /\ x = <<>> => UNCHANGED outVars
      /\ x # <<>> => Origin(stream, x) /\ delivered' = Append(delivered, x)
  BY IterationDelivers
<1>1. CASE x = <<>>
  BY <1>1, <1>a, <1>c DEF outVars
<1>2. CASE x # <<>>
  <2>1. q \in 1 .. Len(stream) /\ x = SectionOf(stream, stream[q].sec)
    <3>1. q \in p + 1 .. Len(stream) /\ x = SectionOf(stream, stream[q].sec)
      BY <1>2, <1>b DEF Passes, SentSection
    <3>2. QED BY <1>a, <3>1
  <2>2. x[1].sec = stream[q].sec
    BY <1>a, <2>1, SentIs
  <2>3. Sent(stream, x)
    BY <2>1, <2>2 DEF Sent
  <2>4. delivered \in Seq(Seq(Byte)) /\ x \in Seq(Byte) /\ delivered' = Append(delivered, x)
    BY <1>2, <1>a, <1>c DEF Origins, Origin
  <2>5. /\ Len(delivered') = Len(delivered) + 1 /\ Len(delivered) \in Nat
        /\ delivered'[Len(delivered) + 1] = x
        /\ \A i \in 1 .. Len(delivered) : delivered'[i] = delivered[i]
    BY <2>4, AppendProperties, LenProperties
  <2>6. \A i \in 1 .. Len(delivered') : i \in 1 .. Len(delivered) \/ i = Len(delivered) + 1
    BY <2>5
  <2>7. AllSent(stream, delivered')
    BY <1>a, <2>3, <2>5, <2>6 DEF AllSent
  <2>8. QED BY <2>1, <2>2, <2>3, <2>7
<1>3. QED BY <1>1, <1>2

LEMMA ParsedTypes ==
  ASSUME NEW s, Conforming(s), NEW x, Origin(s, x)
  PROVE  x[1].content \in Contents
<1>1. PICK n \in 1 .. Len(s) : x[1] = s[n]
  BY DEF Origin
<1>2. QED BY <1>1, ByteIs DEF Contents

(* What is parsed of it.                                                   *)
LEMMA IterationParsed ==
  ASSUME NEW p, NEW m, NEW q, Iteration(p, m, q)
  PROVE  /\ parsed' \in Seq(Contents)
         /\ Lossless /\ ~resets /\ NoneRejectedBare => Chain(parsed', delivered', last_version')
<1> DEFINE x == event'.section
           z == x[1].content
<1>a. /\ Conforming(stream) /\ Versioned(stream) /\ Origins(stream, delivered)
      /\ parsed \in Seq(Contents) /\ Parse /\ Changes
      /\ UNCHANGED pathVars
  BY DEF Iteration, StreamInv, StreamTypes
<1>b. /\ x = <<>> => UNCHANGED outVars /\ last_version' = last_version
      /\ x # <<>> => Origin(stream, x) /\ delivered' = Append(delivered, x)
  BY IterationDelivers
<1>1. CASE x = <<>>
  BY <1>1, <1>a, <1>b DEF outVars, Changes
<1>2. CASE x # <<>>
  <2>1. /\ ParseSection(x[3].version, Intact(x))
        /\ parsed' = IF verdict' = "parsed" THEN Append(parsed, z) ELSE parsed
    BY <1>2, <1>a DEF Parse
  <2>2. z \in Contents /\ delivered \in Seq(Seq(Byte)) /\ x \in Seq(Byte)
        /\ Origin(stream, x) /\ delivered' = Append(delivered, x)
    BY <1>2, <1>a, <1>b, ParsedTypes DEF Origins, Origin
  <2> HIDE DEF x, z
  <2>3. parsed' \in Seq(Contents)
    BY <1>a, <2>1, <2>2, AppendProperties
  <2>4. ASSUME Lossless, ~resets, NoneRejectedBare
        PROVE  Chain(parsed', delivered', last_version')
    <3>1. /\ AllSent(stream, delivered') /\ Sent(stream, x) /\ x[1].sec = stream[q].sec
          /\ q \in 1 .. Len(stream)
      BY <1>2, <2>4, IterationSound DEF x
    <3>2. x[1].version = x[3].version /\ x[1].version # NoVersion
      BY <1>a, <2>2, <3>1, OriginIs
    <3>3. Intact(x)
      BY <3>1 DEF Intact, Sent, SentSection
    <3>4. /\ last_version' = x[3].version
          /\ parsed' = IF last_version = x[3].version THEN parsed ELSE Append(parsed, z)
      BY <2>1, <3>3 DEF ParseSection
    <3>5. Complete(stream, delivered', q, got) /\ Increasing(stream, delivered')
      <4>1. Ordered(q)'
        BY IterationOrdered
      <4>2. Increasing(stream', delivered')
        BY <4>1 DEF Ordered, Increasing, Sent
      <4>3. QED BY <1>a, <2>4, <4>2, IterationComplete DEF pathVars
    <3>6. OlderWhole(stream, x[1].sec, q, got)
      <4>1. SUFFICES ASSUME NEW i \in 1 .. Len(stream), stream[i].sec < stream[q].sec
                     PROVE  i <= q /\ i \in got
        BY <3>1 DEF OlderWhole, Whole
      <4>2. i \in Nat /\ i >= 1 /\ q \in Nat /\ stream[i].sec \in Nat /\ stream[q].sec \in Nat
            /\ q <= pos /\ pos \in Nat
        <5>1. q \in Nat /\ m \in Nat /\ pos \in Nat /\ q <= m /\ m <= pos
          BY DEF Iteration
        <5>2. QED BY <1>a, <3>1, <5>1, ByteIs
      <4>3. ~(q <= i)
        <5>1. q <= i => stream[q].sec <= stream[i].sec
          BY <1>a, <3>1 DEF Conforming
        <5>2. QED BY <4>1, <4>2, <5>1
      <4>4. i <= q /\ i \in 1 .. pos
        BY <4>2, <4>3
      <4>5. QED BY <2>4, <4>4 DEF Lossless
    <3>7. delivered # <<>> => Renews(delivered[Len(delivered)], x)
      <4>1. SUFFICES ASSUME delivered # <<>>
                     PROVE  Renews(delivered[Len(delivered)], x)
        BY DEF Renews
      <4>2. /\ Conforming(stream) /\ Versioned(stream) /\ Origins(stream, delivered)
            /\ Origin(stream, x) /\ delivered' = Append(delivered, x)
        BY <1>a, <2>2
      <4>3. /\ AllSent(stream, delivered') /\ Increasing(stream, delivered')
            /\ Complete(stream, delivered', q, got)
        BY <3>1, <3>5
      <4>4. QED BY <3>6, <4>1, <4>2, <4>3, NextDelivered
    <3>8. Chain(parsed, delivered, last_version)
      BY <1>a, <2>4 DEF Changes
    <3>9. parsed \in Seq(Contents) /\ x[1].content \in Contents
          /\ delivered \in Seq(Seq(Byte)) /\ x \in Seq(Byte)
      BY <1>a, <2>2 DEF z
    <3>10. parsed' = IF last_version = x[3].version THEN parsed
                     ELSE Append(parsed, x[1].content)
      BY <3>4 DEF z
    <3>11. CASE last_version = x[3].version
      <4>1. Chain(parsed, Append(delivered, x), last_version)
        BY <3>2, <3>7, <3>8, <3>9, <3>11, ChainGrows
      <4>2. QED BY <2>2, <3>4, <3>10, <3>11, <4>1
    <3>12. CASE last_version # x[3].version
      <4>1. Chain(Append(parsed, x[1].content), Append(delivered, x), x[3].version)
        BY <3>2, <3>7, <3>8, <3>9, <3>12, ChainGrows
      <4>2. QED BY <2>2, <3>4, <3>10, <3>12, <4>1
    <3>13. QED BY <3>11, <3>12
  <2>5. QED BY <2>3, <2>4
<1>3. QED BY <1>1, <1>2

LEMMA LoopKeepsInv ==
  ASSUME StreamInv, Loop, Parse, UNCHANGED pathVars
  PROVE  StreamInv'
<1>a. StreamTypes /\ NoFalseAlarm
  BY DEF StreamInv
<1>b. stream' = stream /\ pos' = pos /\ got' = got /\ resets' = resets
  BY DEF pathVars
<1>1. PICK p \in 0 .. pos, m \in 0 .. pos : Progress(p, m)
  BY DEF StreamInv
<1>2. PICK q : Iteration(p, m, q)
  BY <1>1, LoopIterates
<1>3. FramerInv' /\ q \in 0 .. pos' /\ m \in 0 .. pos'
  BY <1>1, <1>2, <1>b DEF Iteration
<1>4. StreamTypes'
  <2>1. Origins(stream, delivered') /\ parsed' \in Seq(Contents)
    BY <1>2, IterationOrdered, IterationParsed
  <2>2. Conforming(stream) /\ Versioned(stream) /\ pos \in 0 .. Len(stream)
        /\ got \subseteq 1 .. pos
    BY <1>a DEF StreamTypes
  <2>3. Conforming(stream)'
    BY <1>b, <2>2 DEF Conforming
  <2>4. Versioned(stream)'
    <3>1. Accepted(stream)' = Accepted(stream)
      BY <1>b DEF Accepted, SectionOf, Valid, HeaderError, Header, Take
    <3>2. \A k : SectionOf(stream, k)' = SectionOf(stream, k)
      BY <1>b DEF SectionOf
    <3>3. QED BY <2>2, <3>1, <3>2 DEF Versioned
  <2>5. Origins(stream, delivered)'
    BY <1>b, <2>1 DEF Origins, Origin, Valid, HeaderError, Header, Take
  <2>6. QED BY <1>b, <2>1, <2>2, <2>3, <2>4, <2>5 DEF StreamTypes, Contents
<1>5. Sound'
  <2>1. Lossless' => AllSent(stream', delivered')
    BY <1>2, <1>b, IterationSound DEF Lossless
  <2>2. QED BY <2>1 DEF Sound, AllSent, Sent
<1>6. NoFalseAlarm'
  BY <1>2, LoopReports DEF Iteration, NoFalseAlarm
<1>7. Changes'
  <2>1. Lossless' /\ ~resets' /\ NoneRejectedBare' => Lossless /\ ~resets /\ NoneRejectedBare
    BY <1>b DEF Lossless, NoneRejectedBare, SectionNumbers, RejectedWithNoBody, SentSection,
                Valid, HeaderError, Header, Take
  <2>2. Lossless' /\ ~resets' /\ NoneRejectedBare' => Chain(parsed', delivered', last_version')
    BY <1>2, <2>1, IterationParsed
  <2>3. QED BY <2>2 DEF Changes, Chain
<1>8. Progress(q, m)'
  <2>1. InHand(q, m)' /\ Aligned(q, m)' /\ Ordered(q)'
    BY <1>2, IterationAligned, IterationOrdered DEF Iteration
  <2>2. ~resets' => Complete(stream', delivered', q, got')
    BY <1>2, <1>b, IterationComplete
  <2>3. QED
    BY <2>1, <2>2
       DEF Progress, Complete, Accepted, Whole, Delivers, SectionOf, Valid, HeaderError, Header,
           Take
<1>9. QED BY <1>3, <1>4, <1>5, <1>6, <1>7, <1>8 DEF StreamInv

-----------------------------------------------------------------------------
(* Steps that deliver nothing.                                             *)

LEMMA StreamStays ==
  ASSUME stream' = stream, Conforming(stream), Versioned(stream)
  PROVE  Conforming(stream)' /\ Versioned(stream)'
<1>1. Conforming(stream)'
  BY DEF Conforming
<1>2. Accepted(stream)' = Accepted(stream)
  BY DEF Accepted, SectionOf, Valid, HeaderError, Header, Take
<1>3. \A k : SectionOf(stream, k)' = SectionOf(stream, k)
  BY DEF SectionOf
<1>4. QED BY <1>1, <1>2, <1>3 DEF Versioned

LEMMA OutputsStay ==
  ASSUME StreamTypes, Sound, Changes, stream' = stream, resets' = resets, UNCHANGED outVars,
         pos' \in 0 .. Len(stream), got' \subseteq 1 .. pos',
         Lossless' => Lossless,
         Lossless /\ ~resets /\ NoneRejectedBare => last_version' = last_version
  PROVE  StreamTypes' /\ Sound' /\ Changes'
<1>1. delivered' = delivered /\ parsed' = parsed
  BY DEF outVars
<1>2. StreamTypes'
  <2>2. Conforming(stream) /\ Versioned(stream) /\ Origins(stream, delivered)
        /\ parsed \in Seq(Contents)
    BY DEF StreamTypes
  <2>3. Conforming(stream)' /\ Versioned(stream)'
    BY <2>2, StreamStays
  <2>5. Origins(stream, delivered)'
    BY <1>1, <2>2 DEF Origins, Origin, Valid, HeaderError, Header, Take
  <2>6. QED BY <1>1, <2>2, <2>3, <2>5 DEF StreamTypes, Contents
<1>3. Sound'
  <2>1. Lossless' => AllSent(stream', delivered')
    BY <1>1 DEF Sound
  <2>2. QED BY <2>1 DEF Sound, AllSent, Sent
<1>4. Changes'
  <2>1. NoneRejectedBare' => NoneRejectedBare
    BY DEF NoneRejectedBare, SectionNumbers, RejectedWithNoBody, SentSection,
           Valid, HeaderError, Header, Take
  <2>2. Lossless' /\ ~resets' /\ NoneRejectedBare' => Chain(parsed', delivered', last_version')
    BY <1>1, <2>1 DEF Changes
  <2>3. QED BY <2>2 DEF Changes, Chain
<1>5. QED BY <1>2, <1>3, <1>4

LEMMA NothingDelivered ==
  ASSUME Parse, event'.section = <<>>
  PROVE  UNCHANGED outVars /\ (~event'.reset => last_version' = last_version)
BY DEF Parse, NoSection

LEMMA OrderStays ==
  ASSUME NEW p \in Nat, NEW q \in Nat, p <= q, Len(stream) \in Nat, Ordered(p),
         stream' = stream, delivered' = delivered,
         mode' = "Collecting" => mode = "Collecting" /\ buf' = buf
  PROVE  Ordered(q)'
<1>1. \A r \in q + 1 .. Len(stream) : r \in p + 1 .. Len(stream)
  OBVIOUS
<1>2. \A r \in 1 .. p : r \in 1 .. q
  OBVIOUS
<1>3. /\ Increasing(stream', delivered')
      /\ \A r \in q + 1 .. Len(stream') : Older(stream', delivered', stream'[r])
      /\ mode' = "Collecting" =>
           /\ Len(buf') > 0
           /\ \E n \in 1 .. q : buf'[1] = stream'[n] /\ Older(stream', delivered', stream'[n])
  BY <1>1, <1>2 DEF Ordered
<1>4. QED BY <1>3 DEF Ordered, Increasing, Older, Sent

LEMMA InStepStays ==
  ASSUME stream' = stream, Stay, NEW p, InStep(p)
  PROVE  InStep(p)'
<1>1. mode' = mode /\ count' = count /\ buf' = buf
  BY DEF Stay
<1>2. CASE Idles(p)
  BY <1>1, <1>2 DEF InStep, Idles, Boundary
<1>3. CASE Collects(p)
  BY <1>1, <1>3 DEF InStep, Collects
<1>4. CASE Ignores(p)
  <2>1. (~Valid(SentSection(stream[p].sec)))'
    BY <1>4 DEF Ignores, SentSection, SectionOf, Valid, HeaderError, Header, Take
  <2>2. QED BY <1>1, <1>4, <2>1 DEF InStep, Ignores
<1>5. QED BY <1>2, <1>3, <1>4 DEF InStep

(* Bytes of the section in progress are passed over, and it is known not   *)
(* to have arrived.                                                        *)
LEMMA CompleteStays ==
  ASSUME NEW s, Conforming(s), NEW d, NEW p \in Nat, NEW q \in p .. Len(s), NEW g, NEW h,
         Complete(s, d, p, g), NoStart(s, p, q), \A i \in 1 .. p : i \in h => i \in g,
         p < q => ~Arrived(s, g, p)
  PROVE  Complete(s, d, q, h)
<1>0. Len(s) \in Nat
  BY LenProperties DEF Conforming
<1>1. SUFFICES ASSUME NEW k \in Accepted(s), Whole(s, k, q, h), ~Whole(s, k, p, g)
               PROVE  FALSE
  BY DEF Complete
<1>2. PICK r \in p + 1 .. q : r \in 1 .. Len(s) /\ s[r].sec = k
  BY <1>0, <1>1, BecomesWhole
<1>3. Arrived(s, h, p)
  BY <1>1, <1>2, WholeHasArrived
<1>4. Arrived(s, g, p)
  BY <1>3 DEF Arrived
<1>5. QED BY <1>2, <1>4

LEMMA ReadyIs ==
  ASSUME StreamInv, pc = "ready"
  PROVE  /\ input = <<>> /\ rest = <<>> /\ Progress(pos, pos)
         /\ pos \in Nat /\ pos <= Len(stream) /\ Len(stream) \in Nat
         /\ Conforming(stream) /\ got \subseteq 1 .. pos
<1>1. PICK p \in 0 .. pos, m \in 0 .. pos : Progress(p, m)
  BY DEF StreamInv
<1>2. input = <<>> /\ rest = <<>> /\ InHand(p, m)
  BY <1>1 DEF StreamInv, FramerInv, NothingInHand, Progress, InHand
<1>3. p = pos /\ m = pos /\ pos \in Nat /\ pos <= Len(stream) /\ Len(stream) \in Nat
  BY <1>2, ProgressTypes DEF StreamInv
<1>4. QED BY <1>1, <1>2, <1>3 DEF StreamInv, StreamTypes

(* More of the stream has come, in a packet of n bytes.                    *)
Comes(n) ==
  /\ StreamInv /\ pc = "ready"
  /\ n \in Nat /\ n >= 1 /\ pos + n <= Len(stream)
  /\ stream' = stream /\ resets' = resets /\ delivered' = delivered
  /\ got' = got \union (pos + 1 .. pos + n)

LEMMA ComesIs ==
  ASSUME NEW n, Comes(n), NEW p \in 0 .. pos
  PROVE  /\ \A i \in 1 .. p : i \in got' => i \in got
         /\ Arrived(stream, got', p) => Arrived(stream, got, p)
<1>1. pos \in Nat /\ n \in Nat /\ got' = got \union (pos + 1 .. pos + n)
  BY ReadyIs DEF Comes
<1>2. \A i \in 1 .. p : i \in got' => i \in got
  BY <1>1
<1>3. QED BY <1>2 DEF Arrived

(* The framer takes no notice of its first bytes: it is idle.              *)
LEMMA Skips ==
  ASSUME NEW n, Comes(n), NEW q \in pos .. pos + n, NoStart(stream, pos, q),
         mode = "Idle", mode' = "Idle", input' = <<>>, pc' \in {"ready", "first"}
  PROVE  /\ Aligned(q, q)' /\ Ordered(q)'
         /\ (~resets => Complete(stream, delivered, q, got'))
<1>1. /\ input = <<>> /\ Progress(pos, pos) /\ Conforming(stream)
      /\ pos \in Nat /\ Len(stream) \in Nat /\ q \in pos .. Len(stream) /\ q \in Nat
      /\ stream' = stream /\ delivered' = delivered /\ resets' = resets
  <2>1. StreamInv /\ pc = "ready"
    BY DEF Comes
  <2>2. pos \in Nat /\ Len(stream) \in Nat /\ n \in Nat /\ pos + n <= Len(stream)
    BY <2>1, ReadyIs DEF Comes
  <2>3. QED BY <2>1, <2>2, ReadyIs DEF Comes
<1>2. Arrived(stream, got, pos) => InStep(pos) \/ resets
  BY <1>1 DEF Progress, Aligned, Adrift
<1>3. InStep(pos) => Boundary(stream, pos)
  BY DEF InStep, Idles, Collects, Ignores
<1>4. pos < q => ~Boundary(stream, pos)
  <2>1. SUFFICES ASSUME pos < q PROVE ~Boundary(stream, pos)
    OBVIOUS
  <2>2. pos # Len(stream) /\ pos + 1 \in pos + 1 .. q
    BY <1>1, <2>1
  <2>3. stream[pos + 1].off > 1
    BY <2>2 DEF NoStart
  <2>4. QED BY <2>2, <2>3 DEF Boundary
<1>5. Arrived(stream, got', q) => Arrived(stream, got, pos)
  <2>1. pos \in 0 .. pos
    BY <1>1
  <2>2. QED BY <1>1, <2>1, ArrivedBefore, ComesIs
<1>6. Aligned(q, q)'
  <2>1. Arrived(stream', got', q) => InStep(q)' \/ resets'
    <3>1. SUFFICES ASSUME Arrived(stream, got', q), ~resets
                   PROVE  InStep(q)'
      BY <1>1
    <3>2. Boundary(stream, pos)
      BY <1>2, <1>3, <1>5, <3>1
    <3>3. q = pos
      BY <1>1, <1>4, <3>2
    <3>4. QED BY <1>1, <3>2, <3>3 DEF InStep, Idles, Boundary
  <2>2. QED BY <2>1 DEF Aligned, Adrift, Arrived
<1>7. Ordered(q)'
  BY <1>1, OrderStays DEF Progress
<1>8. ASSUME ~resets
      PROVE  Complete(stream, delivered, q, got')
  <2>1. pos < q => ~Arrived(stream, got, pos)
    BY <1>2, <1>3, <1>4, <1>8
  <2>2. \A i \in 1 .. pos : i \in got' => i \in got
    BY <1>1, ComesIs
  <2>3. Complete(stream, delivered, pos, got)
    BY <1>1, <1>8 DEF Progress
  <2>4. QED BY <1>1, <2>1, <2>2, <2>3, CompleteStays
<1>9. QED BY <1>6, <1>7, <1>8

(* The framer is given those up to e.                                      *)
LEMMA IsFed ==
  ASSUME NEW n, Comes(n), NEW p, p = pos, NEW e, NoStart(stream, p, e),
         mode # "Idle", Stay
  PROVE  /\ Aligned(p, e)' /\ Ordered(p)'
         /\ (~resets => Complete(stream, delivered, p, got'))
<1>1. /\ Progress(p, p) /\ Conforming(stream)
      /\ p \in Nat /\ p \in 0 .. pos /\ Len(stream) \in Nat /\ p \in p .. Len(stream)
      /\ stream' = stream /\ delivered' = delivered /\ resets' = resets
  BY ReadyIs DEF Comes
<1>2. Arrived(stream, got', p) => InStep(p)
  BY <1>1, ComesIs DEF Progress, Aligned, Adrift
<1>3. Aligned(p, e)'
  <2>1. Arrived(stream', got', p) => InStep(p)'
    BY <1>1, <1>2, InStepStays
  <2>2. NoStart(stream', p, e)
    BY <1>1
  <2>3. Aligned(p, e)'
    BY <2>1, <2>2 DEF Aligned, Arrived, NoStart
  <2>4. QED BY <2>3
<1>4. Ordered(p)'
  BY <1>1, OrderStays DEF Progress, Stay
<1>5. ASSUME ~resets
      PROVE  Complete(stream, delivered, p, got')
  <2>1. \A i \in 1 .. p : i \in got' => i \in got
    BY <1>1, ComesIs
  <2>2. Complete(stream, delivered, p, got) /\ NoStart(stream, p, p)
    BY <1>1, <1>5 DEF Progress, NoStart
  <2>3. QED BY <1>1, <2>1, <2>2, CompleteStays
<1>6. QED BY <1>3, <1>4, <1>5

-----------------------------------------------------------------------------
(* A packet.                                                               *)

LEMMA LiesTake ==
  ASSUME NEW s \in Seq(Byte), NEW x, NEW p, NEW e, Lies(s, x, p, e), NEW n \in 0 .. e - p
  PROVE  Lies(s, Take(x, n), p, p + n)
<1>1. /\ x \in Seq(Byte) /\ Len(x) \in Nat /\ Len(s) \in Nat /\ p \in Nat /\ e \in Nat
      /\ p <= e /\ e <= Len(s) /\ Len(x) \in {e - p, e - p + 1}
  BY LiesTypes
<1>2. n \in Nat /\ n \in 0 .. Len(x) /\ p + n \in p .. Len(s) /\ (p + n) - p = n
      /\ \A i \in 1 .. n : i \in 1 .. e - p
  BY <1>1
<1>3. /\ Take(x, n) \in Seq(Byte) /\ Len(Take(x, n)) = n
      /\ \A i \in 1 .. n : Take(x, n)[i] = x[i]
  BY <1>1, <1>2, TakeIs
<1>4. \A i \in 1 .. n : Take(x, n)[i] = s[p + i]
  BY <1>2, <1>3 DEF Lies
<1>5. QED BY <1>1, <1>2, <1>3, <1>4 DEF Lies

LEMMA DataLies ==
  ASSUME StreamTypes, NEW n \in Nat, n >= 1, pos + n <= Len(stream), NEW stuffed,
         stuffed => EndsSection(n),
         NEW data, data = IF stuffed THEN Append(Bytes(n), Stuffing) ELSE Bytes(n)
  PROVE  Lies(stream, data, pos, pos + n)
<1> DEFINE e == pos + n
<1>1. Conforming(stream) /\ stream \in Seq(Byte) /\ Len(stream) \in Nat /\ pos \in Nat
  <2>1. Conforming(stream) /\ pos \in 0 .. Len(stream)
    BY DEF StreamTypes
  <2>2. QED BY <2>1, LenProperties DEF Conforming
<1>2. e \in pos .. Len(stream) /\ e - pos = n /\ e \in 1 .. Len(stream) /\ e \in Nat
  BY <1>1
<1>3. /\ Bytes(n) \in Seq(Byte) /\ Len(Bytes(n)) = n
      /\ \A i \in 1 .. n : Bytes(n)[i] = stream[pos + i]
  BY <1>1, SubSeqIs DEF Bytes
<1>4. stuffed => Boundary(stream, e)
  BY <1>1, <1>2, EndIsBoundary DEF EndsSection
<1> HIDE DEF e
<1>5. CASE stuffed
  <2>1. Stuffing \in Byte
    BY FramerAssumption
  <2>2. /\ data \in Seq(Byte) /\ Len(data) = n + 1 /\ data[n + 1] = Stuffing
        /\ \A i \in 1 .. n : data[i] = Bytes(n)[i]
    BY <1>3, <1>5, <2>1, AppendProperties
  <2>3. \A i \in 1 .. n : data[i] = stream[pos + i]
    BY <1>3, <2>2
  <2>4. Lies(stream, data, pos, e)
    BY <1>1, <1>2, <1>4, <1>5, <2>2, <2>3 DEF Lies
  <2>5. QED BY <2>4 DEF e
<1>6. CASE ~stuffed
  <2>1. Lies(stream, data, pos, e)
    BY <1>1, <1>2, <1>3, <1>6 DEF Lies
  <2>2. QED BY <2>1 DEF e
<1>7. QED BY <1>5, <1>6

LEMMA PacketEvents ==
  ASSUME NEW data, NEW i,
         Continuation(data) \/ UnitStart(i, data) \/ Return \/ Reset \/ AtPointer
  PROVE  /\ event'.section = <<>>
         /\ Continuation(data) \/ UnitStart(i, data) \/ Return => ~event'.reset
         /\ UnitStart(i, data) \/ Return => event'.error # "ExtraDataAfterSectionComplete"
         /\ Reset => event'.error # "ExtraDataAfterSectionComplete"
<1>1. /\ Quiet.reset = FALSE /\ Quiet.error = "-" /\ Quiet.section = <<>>
      /\ [Quiet EXCEPT !.reset = TRUE].error = "-"
      /\ [Quiet EXCEPT !.reset = TRUE].section = <<>>
      /\ \A e : Error(e).reset = FALSE /\ Error(e).section = <<>> /\ ErrorReset(e).section = <<>>
  BY DEF Quiet, Error, ErrorReset
<1>2. Continuation(data) =>
        event' = Quiet \/ event' = Error("ExtraDataAfterSectionComplete")
  BY DEF Continuation
<1>3. UnitStart(i, data) \/ Return => event' = Quiet
  BY DEF UnitStart, Return
<1>4. Reset => event' = [Quiet EXCEPT !.reset = TRUE]
  BY DEF Reset
<1>5. AtPointer => event' = Quiet \/ event' = ErrorReset("ExtraDataAfterSectionComplete")
  BY DEF AtPointer
<1>6. QED BY <1>1, <1>2, <1>3, <1>4, <1>5

(* What the arrival of n bytes changes outside the framer.                 *)
LEMMA ArrivalIs ==
  ASSUME StreamInv, NEW n \in Nat, n >= 1, NEW stuffed, CanSend(n, stuffed), Parse,
         pos' = pos + n, got' = got \union (pos + 1 .. pos + n),
         UNCHANGED <<stream, lossy, resets>>, event'.section = <<>>, ~event'.reset
  PROVE  Comes(n) /\ StreamTypes' /\ Sound' /\ Changes' /\ (Lossless' => Lossless)
<1>1. pc = "ready" /\ pos + n <= Len(stream) /\ stream' = stream /\ resets' = resets
  BY DEF CanSend
<1>2. pos \in Nat /\ Len(stream) \in Nat /\ got \subseteq 1 .. pos
  BY <1>1, ReadyIs
<1>3. UNCHANGED outVars /\ last_version' = last_version
  BY NothingDelivered
<1>4. Comes(n)
  BY <1>1, <1>3 DEF Comes, outVars
<1>5. pos' \in 0 .. Len(stream) /\ got' \subseteq 1 .. pos'
  BY <1>1, <1>2
<1>6. Lossless' => Lossless
  <2>1. SUFFICES ASSUME got \union (pos + 1 .. pos + n) = 1 .. pos + n
                 PROVE  got = 1 .. pos
    BY DEF Lossless
  <2>2. \A i \in 1 .. pos : i \in 1 .. pos + n /\ i \notin pos + 1 .. pos + n
    BY <1>2
  <2>3. QED BY <1>2, <2>1, <2>2
<1>7. StreamTypes' /\ Sound' /\ Changes'
  BY <1>1, <1>3, <1>5, <1>6, OutputsStay DEF StreamInv
<1>8. QED BY <1>4, <1>6, <1>7

(* With nothing lost, a packet in which no section starts finds the framer *)
(* in the middle of a section.                                             *)
LEMMA LosslessIsInStep ==
  ASSUME StreamInv, NEW n, Comes(n), Lossless, ~resets, NEW e, e = pos + n,
         NoStart(stream, pos, e)
  PROVE  mode # "Idle"
<1>1. /\ Progress(pos, pos) /\ pos \in Nat /\ n \in Nat /\ n >= 1 /\ e <= Len(stream)
      /\ Len(stream) \in Nat
  BY ReadyIs DEF Comes
<1>2. InStep(pos)
  BY <1>1, LosslessArrives DEF Progress, Aligned, Adrift
<1>3. SUFFICES ASSUME Boundary(stream, pos) PROVE FALSE
  BY <1>2 DEF InStep, Idles, Collects, Ignores
<1>4. pos # Len(stream) /\ pos + 1 \in pos + 1 .. e
  BY <1>1
<1>5. stream[pos + 1].off > 1
  BY <1>4 DEF NoStart
<1>6. QED BY <1>3, <1>4, <1>5 DEF Boundary

LEMMA NextProgress ==
  ASSUME NEW p, NEW m, Lies(stream', input', p, m), Lies(stream', rest', m, pos'),
         pc' # "first" => rest' = <<>>,
         pc' = "first" => m < pos' /\ stream'[m + 1].off = 1 /\ NoStart(stream', p, m),
         Aligned(p, m)', Ordered(p)', ~resets' => Complete(stream', delivered', p, got')
  PROVE  Progress(p, m)'
<1>1. InHand(p, m)'
  BY DEF InHand, Lies, Boundary, NoStart
<1>2. QED
  BY <1>1
     DEF Progress, Complete, Accepted, Whole, Delivers, SectionOf, Valid, HeaderError, Header,
         Take

LEMMA ContinuationKeepsStreamInv ==
  ASSUME StreamInv, NEW n \in Nat, n >= 1, NEW stuffed, CanSend(n, stuffed), Parse,
         Starts(n) = {}, pos' = pos + n, got' = got \union (pos + 1 .. pos + n),
         UNCHANGED <<stream, lossy, resets>>,
         NEW data, data = IF stuffed THEN Append(Bytes(n), Stuffing) ELSE Bytes(n),
         Continuation(data)
  PROVE  StreamInv'
<1>1. Comes(n) /\ StreamTypes' /\ Sound' /\ Changes' /\ (Lossless' => Lossless)
  BY ArrivalIs, PacketEvents
<1>2. PICK p, e : p = pos /\ e = pos + n
  OBVIOUS
<1>3. /\ input = <<>> /\ rest = <<>> /\ Conforming(stream)
      /\ p \in Nat /\ e \in Nat /\ p < e /\ e <= Len(stream) /\ Len(stream) \in Nat
      /\ e \in pos .. pos + n /\ p \in 0 .. e /\ e \in 0 .. Len(stream) /\ e \in 0 .. e
  <2>1. pc = "ready" /\ pos + n <= Len(stream)
    BY DEF CanSend
  <2>2. QED BY <1>2, <2>1, ReadyIs
<1>4. Lies(stream, data, p, e)
  BY <1>2, <1>3, DataLies DEF StreamInv, CanSend
<1>5. FramerInv'
  BY <1>4, ContinuationKeepsInv DEF StreamInv, Lies
<1>6. NoStart(stream, p, e)
  <2>1. SUFFICES ASSUME NEW r \in p + 1 .. e PROVE stream[r].off > 1
    BY DEF NoStart
  <2>2. r \in 1 .. Len(stream) /\ r - p \in 1 .. n /\ p + (r - p) = r
    BY <1>2, <1>3
  <2>3. stream[r].off # 1
    BY <1>2, <2>2 DEF Starts
  <2>4. QED BY <1>3, <2>2, <2>3, ByteIs
<1>7. pos' = e /\ stream' = stream /\ resets' = resets
      /\ delivered' = delivered /\ rest' = <<>>
  BY <1>1, <1>2, <1>3 DEF Comes, Continuation
<1>8. NoFalseAlarm'
  <2>1. CASE mode = "Idle"
    <3>1. ~(Lossless /\ ~resets)
      BY <1>1, <1>2, <1>6, <2>1, LosslessIsInStep
    <3>2. QED BY <1>1, <1>7, <3>1 DEF NoFalseAlarm
  <2>2. CASE mode # "Idle"
    <3>1. synced
      BY <2>2 DEF StreamInv, FramerInv, UnsyncedIsIdle
    <3>2. event' = Quiet
      BY <2>2, <3>1 DEF Continuation
    <3>3. QED BY <3>2 DEF NoFalseAlarm, Quiet
  <2>3. QED BY <2>1, <2>2
<1>9. \E q, m \in 0 .. pos' : Progress(q, m)'
  <2>1. CASE mode = "Idle"
    <3>1. mode' = "Idle" /\ input' = <<>> /\ pc' = "ready"
      BY <1>3, <2>1 DEF Continuation, CanSend, Stay
    <3>2. /\ Aligned(e, e)' /\ Ordered(e)'
          /\ (~resets => Complete(stream, delivered, e, got'))
      BY <1>1, <1>2, <1>3, <1>6, <2>1, <3>1, Skips
    <3>3. Lies(stream', input', e, e) /\ Lies(stream', rest', e, pos') /\ pc' # "first"
      BY <1>3, <1>4, <1>7, <3>1, LiesEmpty DEF Conforming
    <3>4. ~resets' => Complete(stream', delivered', e, got')
      BY <1>7, <3>2
    <3>5. Progress(e, e)'
      BY <1>7, <3>2, <3>3, <3>4, NextProgress
    <3>6. QED BY <1>3, <1>7, <3>5
  <2>2. CASE mode # "Idle"
    <3>1. Stay /\ input' = data /\ pc' = "last"
      <4>1. synced
        BY <2>2 DEF StreamInv, FramerInv, UnsyncedIsIdle
      <4>2. QED BY <2>2, <4>1 DEF Continuation
    <3>2. /\ Aligned(p, e)' /\ Ordered(p)'
          /\ (~resets => Complete(stream, delivered, p, got'))
      BY <1>1, <1>2, <1>6, <2>2, <3>1, IsFed
    <3>3. Lies(stream', input', p, e) /\ Lies(stream', rest', e, pos') /\ pc' # "first"
      BY <1>3, <1>4, <1>7, <3>1, LiesEmpty DEF Conforming
    <3>4. ~resets' => Complete(stream', delivered', p, got')
      BY <1>7, <3>2
    <3>5. Progress(p, e)'
      BY <1>7, <3>2, <3>3, <3>4, NextProgress
    <3>6. QED BY <1>3, <1>7, <3>5
  <2>3. QED BY <2>1, <2>2
<1>10. QED BY <1>1, <1>5, <1>8, <1>9 DEF StreamInv

LEMMA UnitStartKeepsStreamInv ==
  ASSUME StreamInv, NEW n \in Nat, n >= 1, NEW stuffed, CanSend(n, stuffed), Parse,
         NEW i \in Starts(n), \A j \in Starts(n) : i <= j,
         pos' = pos + n, got' = got \union (pos + 1 .. pos + n),
         UNCHANGED <<stream, lossy, resets>>,
         NEW data, data = IF stuffed THEN Append(Bytes(n), Stuffing) ELSE Bytes(n),
         UnitStart(i - 1, data)
  PROVE  StreamInv'
<1>1. Comes(n) /\ StreamTypes' /\ Sound' /\ Changes'
  BY ArrivalIs, PacketEvents
<1>2. PICK p, m, e : p = pos /\ m = pos + (i - 1) /\ e = pos + n
  OBVIOUS
<1>3. /\ i \in 1 .. n /\ stream[pos + i].off = 1
      /\ \A j \in 1 .. n : stream[pos + j].off = 1 => i <= j
  BY DEF Starts
<1>4. /\ input = <<>> /\ rest = <<>> /\ Conforming(stream) /\ stream \in Seq(Byte)
      /\ p \in Nat /\ m \in Nat /\ e \in Nat /\ p <= m /\ m < e /\ e <= Len(stream)
      /\ Len(stream) \in Nat
      /\ m \in pos .. pos + n /\ p \in 0 .. e /\ m \in 0 .. e
      /\ m + 1 = pos + i /\ i - 1 \in 0 .. e - p /\ p + (i - 1) = m
  <2>1. pc = "ready" /\ pos + n <= Len(stream)
    BY DEF CanSend
  <2>2. pos \in Nat /\ Len(stream) \in Nat /\ input = <<>> /\ rest = <<>> /\ Conforming(stream)
    BY <2>1, ReadyIs
  <2>3. QED BY <1>2, <1>3, <2>1, <2>2 DEF Conforming
<1>5. Lies(stream, data, p, e)
  BY <1>2, <1>4, DataLies DEF StreamInv, CanSend
<1>6. data \in Seq(Byte) /\ Len(data) \in Nat /\ i - 1 \in 0 .. Len(data)
  <2>1. data \in Seq(Byte) /\ Len(data) \in Nat /\ Len(data) \in {e - p, e - p + 1}
    BY <1>4, <1>5, LiesTypes
  <2>2. QED BY <1>4, <2>1
<1>7. FramerInv'
  BY <1>6, UnitStartKeepsInv DEF StreamInv
<1>8. NoStart(stream, p, m) /\ NoStart(stream, m, m)
  <2>1. ASSUME NEW r \in p + 1 .. m
        PROVE  stream[r].off > 1
    <3>0. /\ p \in Nat /\ m \in Nat /\ i \in Nat /\ i <= n /\ p + (i - 1) = m /\ pos = p
          /\ m <= Len(stream) /\ Len(stream) \in Nat
      BY <1>2, <1>3, <1>4
    <3>1. r \in 1 .. Len(stream) /\ r - p \in 1 .. n /\ pos + (r - p) = r /\ ~(i <= r - p)
      BY <3>0
    <3>2. stream[r].off # 1
      BY <1>3, <3>1
    <3>3. QED BY <1>4, <3>1, <3>2, ByteIs
  <2>2. QED BY <1>4, <2>1 DEF NoStart
<1>9. /\ pos' = e /\ stream' = stream /\ resets' = resets /\ delivered' = delivered
      /\ rest' = Drop(data, i - 1) /\ pc' = "first" /\ Stay
      /\ input' = IF synced /\ mode # "Idle" THEN Take(data, i - 1) ELSE <<>>
  BY <1>1, <1>2 DEF Comes, UnitStart
<1>10. NoFalseAlarm'
  BY PacketEvents DEF NoFalseAlarm
<1>11. Lies(stream', rest', m, pos')
  <2>1. Lies(stream, Drop(data, i - 1), AtMost(p + (i - 1), e), e)
    BY <1>4, <1>5, <1>6, LiesDrop
  <2>2. AtMost(p + (i - 1), e) = m
    BY <1>4 DEF AtMost
  <2>3. QED BY <1>9, <2>1, <2>2
<1>12. m < pos' /\ stream'[m + 1].off = 1
  BY <1>3, <1>4, <1>9
<1>13. CASE mode = "Idle"
  <2>1. mode' = "Idle" /\ input' = <<>>
    BY <1>9, <1>13 DEF Stay
  <2>2. /\ Aligned(m, m)' /\ Ordered(m)'
        /\ (~resets => Complete(stream, delivered, m, got'))
    BY <1>1, <1>2, <1>4, <1>8, <1>9, <1>13, <2>1, Skips
  <2>3. Lies(stream', input', m, m) /\ NoStart(stream', m, m)
    <3>1. m \in 0 .. Len(stream)
      BY <1>4
    <3>2. QED BY <1>4, <1>8, <1>9, <2>1, <3>1, LiesEmpty
  <2>4. ~resets' => Complete(stream', delivered', m, got')
    BY <1>9, <2>2
  <2>5. Progress(m, m)'
    BY <1>9, <1>11, <1>12, <2>2, <2>3, <2>4, NextProgress
  <2>6. QED BY <1>1, <1>4, <1>7, <1>9, <1>10, <2>5 DEF StreamInv
<1>14. CASE mode # "Idle"
  <2>1. input' = Take(data, i - 1)
    BY <1>9, <1>14 DEF StreamInv, FramerInv, UnsyncedIsIdle
  <2>2. /\ Aligned(p, m)' /\ Ordered(p)'
        /\ (~resets => Complete(stream, delivered, p, got'))
    BY <1>1, <1>2, <1>8, <1>9, <1>14, IsFed
  <2>3. Lies(stream', input', p, m) /\ NoStart(stream', p, m)
    BY <1>4, <1>5, <1>8, <1>9, <2>1, LiesTake
  <2>4. ~resets' => Complete(stream', delivered', p, got')
    BY <1>9, <2>2
  <2>5. Progress(p, m)'
    BY <1>9, <1>11, <1>12, <2>2, <2>3, <2>4, NextProgress
  <2>6. QED BY <1>1, <1>4, <1>7, <1>9, <1>10, <2>5 DEF StreamInv
<1>15. QED BY <1>13, <1>14

LEMMA ArriveKeepsInv ==
  ASSUME StreamInv, NEW n \in 1 .. PacketSize, NEW stuffed \in BOOLEAN, Arrive(n, stuffed)
  PROVE  StreamInv'
<1>1. n \in Nat /\ n >= 1
  BY StreamAssumption
<1> DEFINE data == IF stuffed THEN Append(Bytes(n), Stuffing) ELSE Bytes(n)
<1>2. /\ CanSend(n, stuffed) /\ Parse
      /\ pos' = pos + n /\ got' = got \union (pos + 1 .. pos + n)
      /\ UNCHANGED <<stream, lossy, resets>>
      /\ IF Starts(n) = {} THEN Continuation(data)
         ELSE \E i \in Starts(n) : (\A j \in Starts(n) : i <= j) /\ UnitStart(i - 1, data)
  BY DEF Arrive
<1> PICK x : x = data
  OBVIOUS
<1> HIDE DEF data
<1>3. x = IF stuffed THEN Append(Bytes(n), Stuffing) ELSE Bytes(n)
  BY DEF data
<1>4. CASE Starts(n) = {}
  <2>1. Continuation(x)
    BY <1>2, <1>4
  <2>2. QED BY <1>1, <1>2, <1>3, <1>4, <2>1, ContinuationKeepsStreamInv
<1>5. CASE Starts(n) # {}
  <2>1. PICK i \in Starts(n) : (\A j \in Starts(n) : i <= j) /\ UnitStart(i - 1, x)
    BY <1>2, <1>5
  <2>2. QED BY <1>1, <1>2, <1>3, <2>1, UnitStartKeepsStreamInv
<1>6. QED BY <1>4, <1>5

(* A packet that is lost: the section its last byte belongs to is hurt.    *)
LEMMA LoseKeepsInv ==
  ASSUME StreamInv, NEW n \in 1 .. PacketSize, Lose(n)
  PROVE  StreamInv'
<1>1. /\ n \in Nat /\ n >= 1 /\ pc = "ready" /\ pos + n <= Len(stream) /\ pos' = pos + n
      /\ got' = got /\ stream' = stream /\ resets' = resets /\ UNCHANGED outVars
      /\ delivered' = delivered /\ last_version' = last_version
      /\ UNCHANGED framerVars
  BY StreamAssumption DEF Lose, CanSend, parserVars, outVars
<1>2. PICK p, e : p = pos /\ e = pos + n
  OBVIOUS
<1>3. /\ input = <<>> /\ rest = <<>> /\ Progress(pos, pos) /\ got \subseteq 1 .. pos
      /\ pos \in Nat /\ Conforming(stream) /\ Len(stream) \in Nat /\ stream \in Seq(Byte)
  BY <1>1, ReadyIs DEF Conforming
<1>4. /\ p \in Nat /\ e \in Nat /\ p < e /\ e <= Len(stream) /\ e \in 0 .. Len(stream)
      /\ e \in 1 .. e /\ e \in 0 .. e /\ e \notin got
  BY <1>1, <1>2, <1>3
<1>5. FramerInv'
  BY <1>1
     DEF StreamInv, FramerInv, framerVars, TypeOK, BufferBounded, TargetFitsHeader,
         UnsyncedIsIdle, SectionsAreWhole, NothingInHand, Valid, HeaderError, Total, Header, Take
<1>6. StreamTypes' /\ Sound' /\ Changes' /\ NoFalseAlarm'
  <2>1. ~Lossless'
    BY <1>1, <1>2, <1>4 DEF Lossless
  <2>2. pos' \in 0 .. Len(stream) /\ got' \subseteq 1 .. pos'
    BY <1>1, <1>2, <1>3, <1>4
  <2>3. StreamTypes' /\ Sound' /\ Changes'
    BY <1>1, <2>1, <2>2, OutputsStay DEF StreamInv
  <2>4. QED BY <2>1, <2>3 DEF NoFalseAlarm
<1>7. input' = <<>> /\ rest' = <<>> /\ pc' # "first" /\ mode' = mode /\ buf' = buf /\ pos' = e
  BY <1>1, <1>2, <1>3 DEF framerVars
<1>8. Aligned(e, e)'
  <2>1. ~Arrived(stream', got', e)
    BY <1>1, <1>4 DEF Arrived
  <2>2. QED BY <1>7, <2>1 DEF Aligned, Arrived
<1>9. Ordered(e)'
  <2>1. Ordered(p) /\ p <= e
    BY <1>2, <1>3, <1>4 DEF Progress
  <2>2. QED BY <1>1, <1>3, <1>4, <1>7, <2>1, OrderStays
<1>10. ASSUME ~resets'
       PROVE  Complete(stream', delivered', e, got')
  <2>1. Complete(stream, delivered, p, got)
    BY <1>1, <1>2, <1>3, <1>10 DEF Progress
  <2>2. ASSUME NEW k, Whole(stream, k, e, got)
        PROVE  Whole(stream, k, p, got)
    BY <1>2, <1>3, <2>2 DEF Whole
  <2>3. QED BY <1>1, <2>1, <2>2 DEF Complete
<1>11. Lies(stream', input', e, e) /\ Lies(stream', rest', e, pos')
  BY <1>1, <1>3, <1>4, <1>7, LiesEmpty
<1>12. Progress(e, e)'
  BY <1>7, <1>8, <1>9, <1>10, <1>11, NextProgress
<1>13. QED BY <1>4, <1>5, <1>6, <1>7, <1>12 DEF StreamInv

-----------------------------------------------------------------------------
(* reset(), and what consume() does between and after its calls of feed(). *)

(* Steps in which the path stands still and nothing is delivered.          *)
LEMMA PathStays ==
  ASSUME StreamInv, FramerInv', Parse, UNCHANGED pathVars, event'.section = <<>>,
         NoFalseAlarm',
         event'.reset => ~(Lossless /\ ~resets /\ NoneRejectedBare),
         \E p, m \in 0 .. pos : Progress(p, m)'
  PROVE  StreamInv'
<1>1. stream' = stream /\ pos' = pos /\ got' = got /\ resets' = resets
  BY DEF pathVars
<1>2. UNCHANGED outVars /\ (~event'.reset => last_version' = last_version)
  BY NothingDelivered
<1>3. pos' \in 0 .. Len(stream) /\ got' \subseteq 1 .. pos' /\ (Lossless' => Lossless)
  BY <1>1 DEF StreamInv, StreamTypes, Lossless
<1>4. StreamTypes' /\ Sound' /\ Changes'
  BY <1>1, <1>2, <1>3, OutputsStay DEF StreamInv
<1>5. QED BY <1>1, <1>4 DEF StreamInv

LEMMA AppResetsKeepsInv ==
  ASSUME StreamInv, AppResets
  PROVE  StreamInv'
<1>1. /\ pc = "ready" /\ resets /\ Reset /\ Parse /\ UNCHANGED pathVars
      /\ pc' = "ready" /\ mode' = "Idle" /\ input' = input /\ rest' = rest
  BY DEF AppResets, Reset, BecomeIdle, Enter
<1>2. stream' = stream /\ pos' = pos /\ got' = got /\ resets' = resets
  BY <1>1 DEF pathVars
<1>3. PICK p : p = pos
  OBVIOUS
<1>4. /\ input = <<>> /\ rest = <<>> /\ Progress(p, p)
      /\ p \in Nat /\ p \in 0 .. pos /\ Len(stream) \in Nat
      /\ Lies(stream, input, p, p) /\ Lies(stream, rest, p, pos)
  <2>1. input = <<>> /\ rest = <<>> /\ Progress(p, p) /\ p \in Nat /\ Len(stream) \in Nat
    BY <1>1, <1>3, ReadyIs
  <2>2. QED BY <1>3, <2>1 DEF Progress, InHand
<1>5. event'.section = <<>> /\ UNCHANGED outVars /\ delivered' = delivered
      /\ event'.error # "ExtraDataAfterSectionComplete"
  BY <1>1, PacketEvents, NothingDelivered DEF outVars
<1>6. FramerInv'
  BY <1>1, ResetKeepsInv DEF StreamInv
<1>7. Aligned(p, p)'
  BY <1>1, <1>2, <1>4 DEF Aligned, Adrift
<1>8. Ordered(p)'
  BY <1>1, <1>2, <1>4, <1>5, OrderStays DEF Progress
<1>9. Progress(p, p)'
  BY <1>1, <1>2, <1>4, <1>7, <1>8, NextProgress
<1>10. QED BY <1>1, <1>4, <1>5, <1>6, <1>9, PathStays DEF NoFalseAlarm

LEMMA ReturnKeepsInv ==
  ASSUME StreamInv, Return, Parse, UNCHANGED pathVars
  PROVE  StreamInv'
<1>1. /\ pc = "last" /\ input = <<>> /\ pc' = "ready" /\ Stay
      /\ input' = input /\ rest' = rest
  BY DEF Return
<1>2. stream' = stream /\ pos' = pos /\ got' = got /\ resets' = resets
  BY DEF pathVars
<1>3. PICK p \in 0 .. pos, m \in 0 .. pos : Progress(p, m)
  BY DEF StreamInv
<1>4. Lies(stream, input, p, m) /\ Lies(stream, rest, m, pos) /\ rest = <<>>
      /\ p \in Nat /\ Len(stream) \in Nat
  BY <1>1, <1>3, ProgressTypes DEF Progress, InHand, StreamInv
<1>5. event'.section = <<>> /\ UNCHANGED outVars /\ delivered' = delivered
      /\ ~event'.reset /\ event'.error # "ExtraDataAfterSectionComplete"
  BY PacketEvents, NothingDelivered DEF outVars
<1>6. FramerInv'
  BY RunKeepsInv DEF StreamInv, Run
<1>7. Aligned(p, m)'
  <2>1. Arrived(stream', got', p) => InStep(p)'
    BY <1>1, <1>2, <1>3, InStepStays DEF Progress, Aligned, Adrift
  <2>2. QED BY <1>1, <2>1 DEF Aligned, Arrived
<1>8. Ordered(p)'
  BY <1>1, <1>2, <1>3, <1>4, <1>5, OrderStays DEF Progress, Stay
<1>9. ~resets' => Complete(stream', delivered', p, got')
  BY <1>2, <1>3, <1>5 DEF Progress
<1>10. Progress(p, m)'
  BY <1>1, <1>2, <1>4, <1>7, <1>8, <1>9, NextProgress
<1>11. QED BY <1>3, <1>5, <1>6, <1>10, PathStays DEF NoFalseAlarm

(* With nothing lost, the framer is in the middle of a section at the      *)
(* pointer only if it ignores a section that is all header.                *)
LEMMA AlarmMeansRejected ==
  ASSUME StreamInv, NEW p \in 0 .. pos, Arrived(stream, got, p), Aligned(p, p),
         Boundary(stream, p), mode # "Idle"
  PROVE  \E k \in SectionNumbers : RejectedWithNoBody(k)
<1>1. Conforming(stream) /\ InStep(p)
  BY DEF StreamInv, StreamTypes, Aligned, Adrift
<1>2. p \in 1 .. Len(stream)
  BY <1>1 DEF InStep, Idles, Collects, Ignores
<1>3. stream[p].off = stream[p].len /\ stream[p].len \in Nat
  BY <1>1, <1>2, EndIsBoundary, ByteIs
<1>4. ~Collects(p)
  BY <1>3 DEF Collects
<1>5. Ignores(p)
  BY <1>1, <1>4 DEF InStep, Idles
<1>6. stream[p].len = HeaderSize /\ ~Valid(SentSection(stream[p].sec))
  BY <1>3, <1>5 DEF Ignores
<1>7. Len(SentSection(stream[p].sec)) = HeaderSize
  BY <1>1, <1>2, <1>6, SectionIs DEF SentSection
<1>8. stream[p].sec \in SectionNumbers
  BY <1>2 DEF SectionNumbers
<1>9. QED BY <1>6, <1>7, <1>8 DEF RejectedWithNoBody

LEMMA AtPointerKeepsInv ==
  ASSUME StreamInv, AtPointer, Parse, UNCHANGED pathVars
  PROVE  StreamInv'
<1>1. /\ pc = "first" /\ input = <<>> /\ pc' = "last" /\ input' = rest /\ rest' = <<>>
      /\ mode' = "Idle"
      /\ mode = "Idle" => event' = Quiet
  BY DEF AtPointer, BecomeIdle, Enter, Stay
<1>2. stream' = stream /\ pos' = pos /\ got' = got /\ resets' = resets
  BY DEF pathVars
<1>3. PICK p \in 0 .. pos, e \in 0 .. pos : Progress(p, e)
  BY DEF StreamInv
<1>4. /\ Lies(stream, rest, p, pos) /\ p < pos /\ stream[p + 1].off = 1 /\ Aligned(p, p)
      /\ p \in Nat /\ Len(stream) \in Nat /\ pos \in Nat /\ p <= pos /\ pos <= Len(stream)
      /\ stream \in Seq(Byte) /\ Ordered(p)
      /\ ~resets => Complete(stream, delivered, p, got)
  <2>1. InHand(p, e)
    BY <1>3 DEF Progress
  <2>2. p = e
    BY <1>1, <2>1, ProgressTypes DEF StreamInv
  <2>3. QED BY <1>1, <1>3, <2>1, <2>2, ProgressTypes DEF Progress, InHand, StreamInv
<1>5. event'.section = <<>> /\ UNCHANGED outVars /\ delivered' = delivered
  BY PacketEvents, NothingDelivered DEF outVars
<1>6. FramerInv'
  BY RunKeepsInv DEF StreamInv, Run
<1>7. mode # "Idle" => ~(Lossless /\ ~resets) \/ ~NoneRejectedBare
  <2>1. Lossless => Arrived(stream, got, p)
    BY <1>4, LosslessArrives
  <2>2. Boundary(stream, p)
    BY <1>4 DEF Boundary
  <2>3. QED BY <1>4, <2>1, <2>2, AlarmMeansRejected DEF NoneRejectedBare
<1>8. NoFalseAlarm' /\ (event'.reset => ~(Lossless /\ ~resets /\ NoneRejectedBare))
  <2>1. CASE mode = "Idle"
    BY <1>1, <2>1 DEF NoFalseAlarm, Quiet
  <2>2. CASE mode # "Idle"
    <3>1. NoneRejectedBare' => NoneRejectedBare
      BY <1>2
         DEF NoneRejectedBare, SectionNumbers, RejectedWithNoBody, SentSection, Valid,
             HeaderError, Header, Take
    <3>2. Lossless' /\ ~resets' => ~NoneRejectedBare'
      BY <1>2, <1>7, <2>2, <3>1 DEF Lossless
    <3>3. NoFalseAlarm'
      BY <3>2
         DEF NoFalseAlarm, NoneRejectedBare, SectionNumbers, RejectedWithNoBody, SentSection,
             SectionOf, Valid, HeaderError, Header, Take
    <3>4. QED BY <1>7, <2>2, <3>3
  <2>3. QED BY <2>1, <2>2
<1>9. PICK m : m = pos
  OBVIOUS
<1>10. Aligned(p, m)'
  <2>1. InStep(p)'
    BY <1>1, <1>2, <1>4 DEF InStep, Idles, Boundary
  <2>2. QED BY <2>1 DEF Aligned
<1>11. Ordered(p)'
  BY <1>1, <1>2, <1>4, <1>5, OrderStays
<1>12. Lies(stream', input', p, m) /\ Lies(stream', rest', m, pos')
  <2>1. m \in 0 .. Len(stream)
    BY <1>4, <1>9
  <2>2. QED BY <1>1, <1>2, <1>4, <1>9, <2>1, LiesEmpty
<1>13. ~resets' => Complete(stream', delivered', p, got')
  BY <1>2, <1>4, <1>5
<1>14. Progress(p, m)' /\ m \in 0 .. pos
  BY <1>1, <1>4, <1>9, <1>10, <1>11, <1>12, <1>13, NextProgress
<1>15. QED BY <1>3, <1>5, <1>6, <1>8, <1>14, PathStays

-----------------------------------------------------------------------------

LEMMA StreamInitInv ==
  ASSUME StreamInit
  PROVE  StreamInv
<1>1. /\ pc = "ready" /\ input = <<>> /\ rest = <<>> /\ mode = "Idle" /\ event = Quiet
      /\ pos = 0 /\ got = {} /\ delivered = <<>> /\ parsed = <<>> /\ last_version = NoVersion
  BY DEF StreamInit, FramerInit, ParsersInit
<1>2. Conforming(stream) /\ Versioned(stream)
  BY StreamAssumption DEF StreamInit
<1>3. Len(stream) \in Nat /\ stream \in Seq(Byte)
  BY <1>2, LenProperties DEF Conforming
<1>4. FramerInv
  BY InitInv DEF StreamInit
<1>5. /\ delivered \in Seq(Seq(Byte)) /\ parsed \in Seq(Contents)
      /\ Len(delivered) = 0 /\ Len(parsed) = 0
      /\ \A i : i \notin 1 .. Len(delivered)
  BY <1>1, EmptySeq
<1>6. StreamTypes
  BY <1>1, <1>2, <1>3, <1>5 DEF StreamTypes, Origins
<1>7. Sound /\ NoFalseAlarm
  BY <1>1, <1>5 DEF Sound, AllSent, NoFalseAlarm, Quiet
<1>8. Changes
  <2>1. \A i : i \notin 1 .. Len(parsed) - 1
    BY <1>5
  <2>2. QED BY <1>1, <2>1 DEF Changes, Chain
<1>9. Boundary(stream, 0)
  <2>1. CASE Len(stream) = 0
    BY <2>1 DEF Boundary
  <2>2. CASE Len(stream) # 0
    <3>1. Len(stream) \in 1 .. Len(stream)
      BY <1>3, <2>2
    <3>2. stream[1].off = 1
      BY <1>2, <3>1, StreamStarts
    <3>3. QED BY <3>2 DEF Boundary
  <2>3. QED BY <2>1, <2>2
<1>10. InHand(0, 0)
  <2>1. Lies(stream, <<>>, 0, 0)
    BY <1>3, LiesEmpty
  <2>2. QED BY <1>1, <2>1 DEF InHand
<1>11. Aligned(0, 0)
  BY <1>1, <1>9 DEF Aligned, InStep, Idles
<1>12. Ordered(0)
  BY <1>1, <1>5 DEF Ordered, Increasing, Older
<1>13. Complete(stream, delivered, 0, got)
  <2>1. SUFFICES ASSUME NEW k \in Accepted(stream), Whole(stream, k, 0, got)
                 PROVE  FALSE
    BY DEF Complete
  <2>2. PICK i \in 1 .. Len(stream) : stream[i].sec = k
    BY DEF Accepted
  <2>3. i <= 0
    BY <2>1, <2>2 DEF Whole
  <2>4. QED BY <1>3, <2>3
<1>14. Progress(0, 0) /\ 0 \in 0 .. pos
  BY <1>1, <1>10, <1>11, <1>12, <1>13 DEF Progress
<1>15. QED BY <1>4, <1>6, <1>7, <1>8, <1>14 DEF StreamInv

LEMMA StreamStepInv ==
  ASSUME StreamInv, [StreamNext]_streamVars
  PROVE  StreamInv'
<1>1. ASSUME NEW n \in 1 .. PacketSize, NEW stuffed \in BOOLEAN, Arrive(n, stuffed)
      PROVE  StreamInv'
  BY <1>1, ArriveKeepsInv
<1>2. ASSUME NEW n \in 1 .. PacketSize, Lose(n)
      PROVE  StreamInv'
  BY <1>2, LoseKeepsInv
<1>3. CASE AppResets
  BY <1>3, AppResetsKeepsInv
<1>4. CASE Runs
  BY <1>4, LoopKeepsInv, AtPointerKeepsInv, ReturnKeepsInv DEF Runs, Run
<1>5. CASE UNCHANGED streamVars
  <2>1. /\ UNCHANGED framerVars /\ UNCHANGED outVars /\ last_version' = last_version
        /\ stream' = stream /\ resets' = resets /\ pos' = pos /\ got' = got
        /\ delivered' = delivered
    BY <1>5 DEF streamVars, pathVars, outVars, parserVars
  <2>2. /\ input' = input /\ rest' = rest /\ pc' = pc /\ mode' = mode /\ buf' = buf
        /\ count' = count /\ event' = event
    BY <2>1 DEF framerVars
  <2>3. FramerInv'
    BY <2>1
       DEF StreamInv, FramerInv, framerVars, TypeOK, BufferBounded, TargetFitsHeader,
           UnsyncedIsIdle, SectionsAreWhole, NothingInHand, Valid, HeaderError, Total, Header,
           Take
  <2>4. StreamTypes' /\ Sound' /\ Changes'
    <3>1. pos' \in 0 .. Len(stream) /\ got' \subseteq 1 .. pos' /\ (Lossless' => Lossless)
      BY <2>1 DEF StreamInv, StreamTypes, Lossless
    <3>2. QED BY <2>1, <3>1, OutputsStay DEF StreamInv
  <2>5. NoFalseAlarm'
    BY <2>1, <2>2
       DEF StreamInv, NoFalseAlarm, Lossless, SectionNumbers, RejectedWithNoBody, SentSection,
           Valid, HeaderError, Header, Take
  <2>6. PICK p \in 0 .. pos, m \in 0 .. pos : Progress(p, m)
    BY DEF StreamInv
  <2>7. InHand(p, m) /\ Aligned(p, m) /\ Ordered(p) /\ p \in Nat /\ Len(stream) \in Nat
    BY <2>6, ProgressTypes DEF StreamInv, Progress
  <2>8. InStep(p) => InStep(p)'
    BY <2>1, <2>2, InStepStays DEF Stay
  <2>9. Aligned(p, m)'
    <3>1. /\ Arrived(stream', got', p) => InStep(p)' \/ Adrift'
          /\ input' # <<>> => InStep(p)' \/ NoStart(stream', p, m)
      BY <2>1, <2>2, <2>7, <2>8 DEF Aligned, Adrift
    <3>2. QED BY <3>1 DEF Aligned, Arrived, NoStart
  <2>10. Ordered(p)'
    BY <2>1, <2>2, <2>7, OrderStays
  <2>11. Progress(p, m)'
    BY <2>1, <2>2, <2>6, <2>7, <2>9, <2>10, NextProgress DEF InHand, Progress
  <2>12. QED BY <2>1, <2>3, <2>4, <2>5, <2>6, <2>11 DEF StreamInv
<1>6. QED BY <1>1, <1>2, <1>3, <1>4, <1>5 DEF StreamNext

LEMMA StreamInvariant == StreamSpec => []StreamInv
<1>1. StreamInit => StreamInv
  BY StreamInitInv
<1>2. StreamInv /\ [StreamNext]_streamVars => StreamInv'
  BY StreamStepInv
<1>3. QED BY <1>1, <1>2, PTL DEF StreamSpec

-----------------------------------------------------------------------------
(* What follows of it.                                                     *)

LEMMA SentIsIntact == \A x : Sent(stream, x) <=> Intact(x)
BY DEF Sent, Intact, SentSection

LEMMA SoundInOrder ==
  ASSUME StreamInv, Lossless
  PROVE  InOrder /\ \A i \in 1 .. Len(delivered) : Intact(delivered[i])
<1>1. AllSent(stream, delivered)
  BY DEF StreamInv, Sound
<1>2. Increasing(stream, delivered)
  BY DEF StreamInv, Progress, Ordered
<1>3. InOrder
  BY <1>1, <1>2 DEF InOrder, AllSent, Increasing
<1>4. QED BY <1>1, <1>3, SentIsIntact DEF AllSent

(* Between packets, sections delivered that were sent end before pos.      *)
LEMMA DeliveredIsSendable ==
  ASSUME StreamInv, pc = "ready", NEW i \in 1 .. Len(delivered),
         Sent(stream, delivered[i])
  PROVE  delivered[i][1].sec \in Sendable(pos)
<1> DEFINE x == delivered[i]
           k == x[1].sec
<1>1. Conforming(stream) /\ Origin(stream, x)
  BY DEF StreamInv, StreamTypes, Origins
<1>2. k \in Accepted(stream) /\ k \in Nat
  BY <1>1, OriginIs
<1>3. Ordered(pos) /\ pos \in Nat
  BY ReadyIs DEF Progress
<1>4. ASSUME NEW q \in Positions(k)
      PROVE  q <= pos
  <2>1. q \in 1 .. Len(stream) /\ stream[q].sec = k /\ q \in Nat /\ Len(stream) \in Nat
    BY <1>1, <1>4, ByteIs DEF Positions
  <2>2. SUFFICES ASSUME q > pos PROVE FALSE
    BY <1>3, <2>1
  <2>3. q \in pos + 1 .. Len(stream)
    BY <1>3, <2>1, <2>2
  <2>4. k < stream[q].sec
    BY <1>3, <2>3 DEF Ordered, Older
  <2>5. QED BY <1>2, <2>1, <2>4
<1>5. QED BY <1>2, <1>4 DEF Sendable

LEMMA SendableIsDelivered ==
  ASSUME StreamInv, pc = "ready", ~resets, NEW k \in Sendable(pos), Positions(k) \subseteq got
  PROVE  \E i \in 1 .. Len(delivered) : delivered[i] = SentSection(k)
<1>1. Complete(stream, delivered, pos, got)
  BY ReadyIs DEF Progress
<1>2. k \in Accepted(stream) /\ Whole(stream, k, pos, got)
  BY DEF Sendable, Whole, Positions
<1>3. QED BY <1>1, <1>2 DEF Complete, Delivers, SentSection

LEMMA SentIsSent ==
  ASSUME StreamInv, NEW k \in Accepted(stream)
  PROVE  Sent(stream, SentSection(k)) /\ SentSection(k)[1].sec = k /\ k \in Nat
<1>1. Conforming(stream)
  BY DEF StreamInv, StreamTypes
<1>2. PICK n \in 1 .. Len(stream) : stream[n].sec = k
  BY DEF Accepted
<1>3. SectionOf(stream, k)[1].sec = k /\ k \in Nat
  BY <1>1, <1>2, SentIs, ByteIs
<1>4. QED BY <1>3 DEF SentSection, Sent

(* psi/mod.rs: whatever resets come, and however sections are cut into     *)
(* packets, what the framer delivers of a stream that nothing is lost of   *)
(* is sections byte for byte as they were sent, in their order.            *)
THEOREM OnlyIntactDelivered == StreamSpec => []DeliveredAreIntact
<1>1. StreamInv => DeliveredAreIntact
  BY SoundInOrder DEF DeliveredAreIntact
<1>2. QED BY <1>1, StreamInvariant, PTL

(* The framer complains of a stream that nothing is lost of only if it     *)
(* holds a rejected section with no body.                                  *)
THEOREM NoFalseAlarms == StreamSpec => []NoFalseAlarm
<1>1. StreamInv => NoFalseAlarm
  BY DEF StreamInv
<1>2. QED BY <1>1, StreamInvariant, PTL

(* With nothing lost and no reset(), what is delivered is exactly the      *)
(* sections sent so far that the framer accepts.                           *)
THEOREM AllAreDelivered == StreamSpec => []LosslessInOrder
<1>1. ASSUME StreamInv, Lossless, ~resets, pc = "ready"
      PROVE  {delivered[i] : i \in 1 .. Len(delivered)} = {SentSection(k) : k \in Sendable(pos)}
  <2>1. ASSUME NEW i \in 1 .. Len(delivered)
        PROVE  delivered[i] \in {SentSection(k) : k \in Sendable(pos)}
    <3>1. Sent(stream, delivered[i])
      BY <1>1, <2>1, SoundInOrder, SentIsIntact
    <3>2. delivered[i][1].sec \in Sendable(pos)
      BY <1>1, <3>1, DeliveredIsSendable
    <3>3. delivered[i] = SentSection(delivered[i][1].sec)
      BY <3>1 DEF Sent, SentSection
    <3>4. QED BY <3>2, <3>3
  <2>2. ASSUME NEW k \in Sendable(pos)
        PROVE  SentSection(k) \in {delivered[i] : i \in 1 .. Len(delivered)}
    <3>1. Positions(k) \subseteq got
      <4>1. pos \in Nat /\ Conforming(stream) /\ Len(stream) \in Nat
        BY <1>1, ReadyIs
      <4>2. \A i \in Positions(k) : i \in Nat /\ i >= 1 /\ i <= pos
        BY <2>2, <4>1 DEF Positions, Sendable
      <4>3. QED BY <1>1, <4>1, <4>2 DEF Lossless
    <3>2. QED BY <1>1, <3>1, SendableIsDelivered
  <2>3. QED BY <2>1, <2>2
<1>2. StreamInv => LosslessInOrder
  BY <1>1, SoundInOrder DEF LosslessInOrder
<1>3. QED BY <1>2, StreamInvariant, PTL

(* Whatever is lost before it or after it, a section all of whose packets  *)
(* arrive is delivered, once.                                              *)
THEOREM WhatArrivesIsDelivered == StreamSpec => []ArrivedAreDelivered
<1>1. ASSUME StreamInv, ~resets, pc = "ready", NEW k \in Sendable(pos), Positions(k) \subseteq got
      PROVE  Cardinality({i \in 1 .. Len(delivered) : delivered[i] = SentSection(k)}) = 1
  <2> DEFINE S == {i \in 1 .. Len(delivered) : delivered[i] = SentSection(k)}
  <2>1. PICK i \in 1 .. Len(delivered) : delivered[i] = SentSection(k)
    BY <1>1, SendableIsDelivered
  <2>2. Sent(stream, SentSection(k)) /\ SentSection(k)[1].sec = k /\ k \in Nat
    BY <1>1, SentIsSent DEF Sendable
  <2>3. Increasing(stream, delivered) /\ Len(delivered) \in Nat
    <3>1. Origins(stream, delivered)
      BY <1>1 DEF StreamInv, StreamTypes
    <3>2. QED BY <1>1, <3>1, LenProperties DEF StreamInv, Progress, Ordered, Origins
  <2>4. ASSUME NEW j \in 1 .. Len(delivered), delivered[j] = SentSection(k)
        PROVE  j = i
    <3>1. ~(i < j) /\ ~(j < i)
      BY <2>1, <2>2, <2>3, <2>4 DEF Increasing
    <3>2. QED BY <2>3, <3>1
  <2>5. S = {i}
    BY <2>1, <2>4
  <2>6. Cardinality(S) = 1
    BY <2>5, FS_Singleton
  <2>7. QED BY <2>6
<1>2. StreamInv => ArrivedAreDelivered
  BY <1>1 DEF ArrivedAreDelivered
<1>3. QED BY <1>2, StreamInvariant, PTL

(* psi/mod.rs, the two parsers: of a stream that nothing is lost of, the   *)
(* inner parser is given the changes of the table and nothing else.        *)
THEOREM OnlyChangesParsed == StreamSpec => []ParsedAreChanges
<1>1. ASSUME StreamInv, Lossless, ~resets, \A k \in SectionNumbers : ~RejectedWithNoBody(k)
      PROVE  Chain(parsed, delivered, last_version)
  BY <1>1 DEF StreamInv, Changes, NoneRejectedBare
<1>2. ASSUME StreamInv, Lossless, ~resets, Chain(parsed, delivered, last_version),
             pc = "ready", Sendable(pos) # {}
      PROVE  \E k \in Sendable(pos) :
               /\ \A m \in Sendable(pos) : m <= k
               /\ parsed # <<>> /\ parsed[Len(parsed)] = SentSection(k)[1].content
  <2> DEFINE n == Len(delivered)
             x == delivered[n]
             k == x[1].sec
  <2>1. n \in Nat
    <3>1. Origins(stream, delivered)
      BY <1>2 DEF StreamInv, StreamTypes
    <3>2. QED BY <3>1, LenProperties DEF Origins
  <2>2. ASSUME NEW m \in Sendable(pos)
        PROVE  \E i \in 1 .. n : delivered[i] = SentSection(m)
    <3>1. Positions(m) \subseteq got
      <4>1. pos \in Nat /\ Len(stream) \in Nat
        BY <1>2, ReadyIs
      <4>2. \A i \in Positions(m) : i \in Nat /\ i >= 1 /\ i <= pos
        BY <2>2, <4>1 DEF Positions, Sendable
      <4>3. QED BY <1>2, <4>1, <4>2 DEF Lossless
    <3>2. QED BY <1>2, <2>2, <3>1, SendableIsDelivered
  <2>3. n \in 1 .. n
    BY <1>2, <2>1, <2>2
  <2>4. Sent(stream, x) /\ k \in Sendable(pos)
    BY <1>2, <2>3, SoundInOrder, SentIsIntact, DeliveredIsSendable
  <2>5. x = SentSection(k)
    BY <2>4 DEF Sent, SentSection
  <2>6. delivered # <<>>
    BY <2>1, <2>3, EmptySection
  <2>7. parsed # <<>> /\ parsed[Len(parsed)] = x[1].content
    BY <1>2, <2>6 DEF Chain
  <2>8. InOrder
    BY <1>2, SoundInOrder
  <2> HIDE DEF x, k
  <2>9. ASSUME NEW m \in Sendable(pos)
        PROVE  m <= k
    <3>1. PICK i \in 1 .. n : delivered[i] = SentSection(m)
      BY <2>2
    <3>2. delivered[i][1].sec = m /\ m \in Nat
      BY <1>2, <3>1, SentIsSent DEF Sendable
    <3>3. CASE i = n
      BY <3>2, <3>3 DEF x, k
    <3>4. CASE i < n
      <4>1. m < k
        BY <2>3, <2>8, <3>2, <3>4 DEF InOrder, x, k
      <4>2. k \in Nat
        BY <1>2, <2>4, SentIsSent DEF Sendable
      <4>3. QED BY <3>2, <4>1, <4>2
    <3>5. QED BY <2>1, <3>3, <3>4
  <2>10. QED BY <2>4, <2>5, <2>7, <2>9
<1>3. StreamInv => ParsedAreChanges
  <2>1. SUFFICES ASSUME StreamInv, Lossless, ~resets,
                        \A k \in SectionNumbers : ~RejectedWithNoBody(k)
                 PROVE  /\ \A i \in 1 .. Len(parsed) - 1 : parsed[i] # parsed[i + 1]
                        /\ pc = "ready" /\ Sendable(pos) # {} =>
                             \E k \in Sendable(pos) :
                               /\ \A m \in Sendable(pos) : m <= k
                               /\ parsed # <<>>
                               /\ parsed[Len(parsed)] = SentSection(k)[1].content
    BY DEF ParsedAreChanges
  <2>2. Chain(parsed, delivered, last_version)
    BY <1>1, <2>1
  <2>3. \A i \in 1 .. Len(parsed) - 1 : parsed[i] # parsed[i + 1]
    BY <2>2 DEF Chain
  <2>4. QED BY <1>2, <2>1, <2>2, <2>3
<1>4. QED BY <1>3, StreamInvariant, PTL
=============================================================================
