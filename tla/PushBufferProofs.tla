--------------------------- MODULE PushBufferProofs ---------------------------
(***************************************************************************)
(* Proofs about PushBuffer, for packets of any size and streams of any     *)
(* length, cut into buffers anywhere.                                      *)
(***************************************************************************)
EXTENDS PushBuffer, FiniteSetTheorems, SequenceTheorems, WellFoundedInduction, TLAPS

-----------------------------------------------------------------------------
(* Division.                                                               *)

(* A quotient is what it is multiplied with that leaves less than the      *)
(* divisor over.                                                           *)
LEMMA QuotientIsUnique ==
  ASSUME NEW a \in Nat, NEW d \in Nat \ {0}, NEW q \in Nat, NEW r \in Nat,
         r < d, a = q * d + r
  PROVE  a \div d = q /\ a % d = r
<1>1. a \div d \in Nat /\ a % d \in Nat /\ a % d < d /\ a = d * (a \div d) + (a % d)
  BY SMTT(60)
<1> DEFINE t == a \div d
           s == a % d
<1>2. t \in Nat /\ s \in Nat /\ s < d /\ a = t * d + s
  BY <1>1, SMTT(60)
<1> HIDE DEF t, s
<1>3. ~(t < q)
  <2>1. ASSUME t < q PROVE FALSE
    <3>1. PICK e \in Nat : q = t + 1 + e
      <4>1. q - t - 1 \in Nat /\ q = t + 1 + (q - t - 1)
        BY <1>2, <2>1
      <4>2. QED BY <4>1
    <3>2. q * d = t * d + d + e * d /\ e * d \in Nat
      BY <1>2, <3>1, SMTT(60)
    <3>3. t * d \in Nat /\ q * d \in Nat
      BY <1>2, SMTT(60)
    <3>4. QED BY <1>2, <3>2, <3>3
  <2>2. QED BY <2>1
<1>4. ~(q < t)
  <2>1. ASSUME q < t PROVE FALSE
    <3>1. PICK e \in Nat : t = q + 1 + e
      <4>1. t - q - 1 \in Nat /\ t = q + 1 + (t - q - 1)
        BY <1>2, <2>1
      <4>2. QED BY <4>1
    <3>2. t * d = q * d + d + e * d /\ e * d \in Nat
      BY <1>2, <3>1, SMTT(60)
    <3>3. t * d \in Nat /\ q * d \in Nat
      BY <1>2, SMTT(60)
    <3>4. QED BY <1>2, <3>2, <3>3
  <2>2. QED BY <2>1
<1>5. t = q
  BY <1>2, <1>3, <1>4
<1>6. s = r
  <2>1. q * d \in Nat
    BY SMTT(60)
  <2>2. QED BY <1>2, <1>5, <2>1
<1>7. QED BY <1>5, <1>6 DEF t, s

(* Of the bytes after a whole number of packets, as many make packets as    *)
(* would from the start of the stream.                                     *)
LEMMA PacketsAdd ==
  ASSUME NEW a \in Nat, NEW n \in Nat, NEW d \in Nat \ {0}, a % d = 0
  PROVE  /\ (a + n) \div d = a \div d + n \div d
         /\ n % d = 0 => (a + n) % d = 0
<1> DEFINE p == a \div d
           q == n \div d
           r == n % d
<1>1. /\ p \in Nat /\ a = p * d
      /\ q \in Nat /\ r \in Nat /\ r < d /\ n = q * d + r
  BY SMTT(60)
<1> HIDE DEF p, q, r
<1>2. a + n = (p + q) * d + r /\ p + q \in Nat
  BY <1>1, SMTT(60)
<1>3. (a + n) \div d = p + q /\ (a + n) % d = r
  <2>1. a + n \in Nat
    OBVIOUS
  <2>2. QED BY <1>1, <1>2, <2>1, QuotientIsUnique
<1>4. QED BY <1>3 DEF p, q, r

(* More bytes are no fewer packets.                                        *)
LEMMA PacketsGrow ==
  ASSUME NEW a \in Nat, NEW n \in Nat, NEW d \in Nat \ {0}
  PROVE  a \div d <= (a + n) \div d
<1> DEFINE p == a \div d
           r == a % d
           q == (a + n) \div d
           s == (a + n) % d
<1>1. /\ p \in Nat /\ r \in Nat /\ r < d /\ a = p * d + r
      /\ q \in Nat /\ s \in Nat /\ s < d /\ a + n = q * d + s
  BY SMTT(60)
<1> HIDE DEF p, q, r, s
<1>2. ASSUME q < p PROVE FALSE
  <2>1. PICK e \in Nat : p = q + 1 + e
    <3>1. p - q - 1 \in Nat /\ p = q + 1 + (p - q - 1)
      BY <1>1, <1>2
    <3>2. QED BY <3>1
  <2>2. p * d = q * d + d + e * d /\ e * d \in Nat /\ q * d \in Nat /\ p * d \in Nat
    BY <1>1, <2>1, SMTT(60)
  <2>3. QED BY <1>1, <2>2
<1>3. p <= q
  BY <1>1, <1>2
<1>4. QED BY <1>3 DEF p, q

(* A buffer of whole packets has at least one.                             *)
LEMMA WholeBuffersHavePackets ==
  ASSUME NEW n \in Nat \ {0}, NEW d \in Nat \ {0}, n % d = 0
  PROVE  n \div d \in Nat \ {0}
<1> DEFINE q == n \div d
<1>1. q \in Nat /\ n = q * d
  BY SMTT(60)
<1> HIDE DEF q
<1>2. q # 0
  BY <1>1, SMTT(60)
<1>3. QED BY <1>1, <1>2 DEF q

-----------------------------------------------------------------------------
(* The chunks that are handled.                                            *)

(* The loop of push() handles the chunks before the first that is not in   *)
(* T, the chunks with a sync byte.                                         *)
LEMMA HandledUpToTheFirstBad ==
  ASSUME NEW c \in Nat, NEW T
  PROVE  LET good == {m \in 0 .. c : \A i \in 1 .. m : i \in T}
         IN \E m \in 0 .. c :
              /\ Cardinality(good) - 1 = m
              /\ \A i \in 1 .. m : i \in T
              /\ m < c => m + 1 \notin T
<1> DEFINE good == {m \in 0 .. c : \A i \in 1 .. m : i \in T}
           F == {i \in 1 .. c : i \notin T}
           R0 == OpToRel(<, Nat)
<1>1. \E m \in 0 .. c : (\A i \in 1 .. m : i \in T) /\ (m < c => m + 1 \notin T)
  <2>1. CASE F = {}
    <3>1. c \in 0 .. c /\ \A i \in 1 .. c : i \in T
      BY <2>1
    <3>2. QED BY <3>1
  <2>2. CASE F # {}
    <3>1. F \subseteq Nat
      OBVIOUS
    <3>2. \E f \in F : \A k \in F : ~(<<k, f>> \in R0)
      <4>1. IsWellFoundedOn(R0, Nat)
        BY NatLessThanWellFounded
      <4> HIDE DEF F, R0
      <4>2. QED BY <2>2, <3>1, <4>1, WFMin
    <3>3. PICK f \in F : \A k \in F : ~(<<k, f>> \in R0)
      BY <3>2
    <3>4. \A k \in F : ~(k < f)
      BY <3>1, <3>3 DEF OpToRel
    <3>5. f - 1 \in 0 .. c /\ (f - 1) + 1 \notin T
      OBVIOUS
    <3>6. \A i \in 1 .. f - 1 : i \in T
      BY <3>4
    <3>7. QED BY <3>5, <3>6
  <2>3. QED BY <2>1, <2>2
<1>2. PICK m \in 0 .. c : (\A i \in 1 .. m : i \in T) /\ (m < c => m + 1 \notin T)
  BY <1>1
<1>3. good = 0 .. m
  <2>1. ASSUME NEW g \in good PROVE g \in 0 .. m
    BY <1>2
  <2>2. ASSUME NEW g \in 0 .. m PROVE g \in good
    BY <1>2
  <2>3. QED BY <2>1, <2>2
<1>4. Cardinality(0 .. m) = m + 1
  BY FS_Interval
<1>5. Cardinality(good) - 1 = m
  <2> HIDE DEF good
  <2>1. QED BY <1>3, <1>4
<1>6. \E k \in 0 .. c :
        /\ Cardinality(good) - 1 = k
        /\ \A i \in 1 .. k : i \in T
        /\ k < c => k + 1 \notin T
  <2> HIDE DEF good
  <2>1. QED BY <1>2, <1>5
<1>7. QED BY <1>6

-----------------------------------------------------------------------------
(* One buffer.                                                             *)

(* What push() hands on of a buffer of n bytes: m chunks, the next is out   *)
(* of sync if it is not the last.                                          *)
LEMMA BufferIsHandledUpToABad ==
  ASSUME SizesAssumption, at \in Nat, NEW n \in Nat, PushBytes(n)
  PROVE  \E m \in 0 .. n \div PacketSize :
           /\ handled' = handled \o [i \in 1 .. m |-> Chunk(i)]
           /\ InStep => /\ \A i \in 1 .. m : Chunk(i) \notin bad
                        /\ m < n \div PacketSize => Chunk(m + 1) \in bad
<1> DEFINE c == n \div PacketSize
<1>1. c \in Nat
  BY SMTT(60) DEF SizesAssumption
<1>2. PICK lucky \in SUBSET (1 .. c) :
        handled' = handled \o
          [i \in 1 .. Cardinality({m \in 0 .. c : \A i \in 1 .. m : Ok(i, lucky)}) - 1
             |-> Chunk(i)]
  BY Zenon DEF PushBytes
<1> DEFINE T == {i \in 1 .. c : Ok(i, lucky)}
           good == {m \in 0 .. c : \A i \in 1 .. m : i \in T}
<1>3. {m \in 0 .. c : \A i \in 1 .. m : Ok(i, lucky)} = good
  <2> HIDE DEF c
  <2>1. ASSUME NEW m \in 0 .. c PROVE 1 .. m \subseteq 1 .. c
    BY <1>1
  <2>2. ASSUME NEW m \in 0 .. c
        PROVE  (\A i \in 1 .. m : Ok(i, lucky)) <=> (\A i \in 1 .. m : i \in T)
    BY <2>1, Zenon
  <2>3. QED BY <2>2, Zenon
<1>4. PICK m \in 0 .. c :
        /\ Cardinality(good) - 1 = m
        /\ \A i \in 1 .. m : i \in T
        /\ m < c => m + 1 \notin T
  <2> HIDE DEF c, T
  <2>1. QED BY <1>1, HandledUpToTheFirstBad
<1>5. handled' = handled \o [i \in 1 .. m |-> Chunk(i)]
  <2> HIDE DEF good, c
  <2>1. QED BY <1>2, <1>3, <1>4
<1>6. ASSUME InStep, NEW i \in 1 .. m PROVE Chunk(i) \notin bad
  BY <1>4, <1>6, Zenon DEF Ok
<1>7. ASSUME InStep, m < c PROVE Chunk(m + 1) \in bad
  <2> HIDE DEF c
  <2>1. m + 1 \in 1 .. c
    BY <1>1, <1>7
  <2>2. ~Ok(m + 1, lucky)
    BY <1>4, <1>7, <2>1, Zenon
  <2>3. QED BY <1>7, <2>2, Zenon DEF Ok
<1>8. QED BY <1>5, <1>6, <1>7

(* The buffer ends as many packets further on as it has chunks.            *)
LEMMA StreamAdvances ==
  ASSUME SizesAssumption, at \in Nat, NEW n \in Nat \ {0}, PushBytes(n)
  PROVE  /\ at' \in Nat
         /\ at \div PacketSize \in Nat
         /\ at' \div PacketSize \in Nat
         /\ at \div PacketSize <= at' \div PacketSize
         /\ InStep => at' \div PacketSize = at \div PacketSize + n \div PacketSize
         /\ InStep /\ aligned => InStep' /\ n \div PacketSize \in Nat \ {0}
<1>1. at' = at + n /\ (aligned => n % PacketSize = 0)
  BY DEF PushBytes
<1>2. PacketSize \in Nat \ {0}
  BY DEF SizesAssumption
<1>3. at \div PacketSize \in Nat /\ (at + n) \div PacketSize \in Nat
  BY <1>2, SMTT(60)
<1>4. at \div PacketSize <= (at + n) \div PacketSize
  BY <1>2, PacketsGrow
<1>5. ASSUME InStep
      PROVE  /\ (at + n) \div PacketSize = at \div PacketSize + n \div PacketSize
             /\ n % PacketSize = 0 => (at + n) % PacketSize = 0
  BY <1>2, <1>5, PacketsAdd DEF InStep
<1>6. ASSUME n % PacketSize = 0 PROVE n \div PacketSize \in Nat \ {0}
  BY <1>2, <1>6, WholeBuffersHavePackets
<1>7. InStep' <=> (at + n) % PacketSize = 0
  BY <1>1, Zenon DEF InStep
<1>8. at' \in Nat
  BY <1>1
<1>9. QED BY <1>1, <1>3, <1>4, <1>5, <1>6, <1>7, <1>8, Zenon

-----------------------------------------------------------------------------
(* The invariant.  What was handled lies behind what was pushed, buffers   *)
(* of whole packets stay in step, and their cuts are behind too.           *)

BufferTypeOK ==
  /\ aligned \in BOOLEAN
  /\ at \in Nat
  /\ bad \subseteq Nat \ {0}
  /\ cuts \subseteq Nat
  /\ handled \in Seq(Nat)

HandledIsBehind == \A i \in DOMAIN handled : handled[i] <= at \div PacketSize

AlignedInStep == aligned => InStep

CutsAreBehind == aligned => \A k \in cuts : k <= at \div PacketSize

BufferInv ==
  /\ BufferTypeOK
  /\ HandledIsBehind
  /\ AlignedInStep
  /\ CutsAreBehind
  /\ HandledInOrder
  /\ LossIsLocal

LEMMA BufferInvInit == BufferInit => BufferInv
<1> SUFFICES ASSUME BufferInit PROVE BufferInv
  OBVIOUS
<1>1. /\ at = 0 /\ cuts = {} /\ handled = <<>> /\ aligned \in BOOLEAN
      /\ bad \subseteq Nat \ {0}
  BY SizesAssumption DEF BufferInit, SizesAssumption
<1>2. DOMAIN handled = {}
  BY <1>1
<1>3. at \div PacketSize = 0 /\ at % PacketSize = 0
  BY <1>1, SizesAssumption, SMTT(60) DEF SizesAssumption
<1>4. BufferTypeOK
  BY <1>1 DEF BufferTypeOK
<1>5. HandledIsBehind /\ HandledInOrder
  BY <1>2, Zenon DEF HandledIsBehind, HandledInOrder
<1>6. AlignedInStep /\ CutsAreBehind
  BY <1>1, <1>3, Zenon DEF AlignedInStep, CutsAreBehind, InStep
<1>7. LossIsLocal
  BY <1>3 DEF LossIsLocal
<1>8. QED BY <1>4, <1>5, <1>6, <1>7 DEF BufferInv

LEMMA BufferInvStep ==
  ASSUME SizesAssumption, BufferInv, NEW n \in Nat \ {0}, PushBytes(n)
  PROVE  BufferInv'
<1> DEFINE p == at \div PacketSize
           q == at' \div PacketSize
           c == n \div PacketSize
<1>1. BufferTypeOK /\ HandledIsBehind /\ AlignedInStep /\ CutsAreBehind
      /\ HandledInOrder /\ LossIsLocal
  BY DEF BufferInv
<1>2. /\ aligned \in BOOLEAN /\ at \in Nat /\ bad \subseteq Nat \ {0}
      /\ cuts \subseteq Nat /\ handled \in Seq(Nat)
  BY <1>1, Zenon DEF BufferTypeOK
<1>3. /\ at' \in Nat /\ p \in Nat /\ q \in Nat /\ p <= q
      /\ InStep => q = p + c
      /\ InStep /\ aligned => InStep' /\ c \in Nat \ {0}
  BY <1>2, StreamAdvances
<1>4. aligned' = aligned /\ bad' = bad
      /\ cuts' = IF InStep THEN cuts \union {Chunk(1)} ELSE cuts
  BY DEF PushBytes
<1>5. PICK m \in 0 .. c :
        /\ handled' = handled \o [i \in 1 .. m |-> Chunk(i)]
        /\ InStep => /\ \A i \in 1 .. m : Chunk(i) \notin bad
                     /\ m < c => Chunk(m + 1) \in bad
  BY <1>2, BufferIsHandledUpToABad
<1>6. c \in Nat
  BY SMTT(60) DEF SizesAssumption
<1>7. \A i \in Nat : Chunk(i) = IF InStep THEN p + i ELSE 0
  BY Zenon DEF Chunk, Straddling
<1> DEFINE new == [i \in 1 .. m |-> Chunk(i)]
<1>8. new \in Seq(Nat) /\ Len(new) = m /\ \A i \in 1 .. m : new[i] = Chunk(i)
  <2> HIDE DEF p, c
  <2>1. m \in Nat
    BY <1>6
  <2>2. \A i \in 1 .. m : Chunk(i) \in Nat
    BY <1>3, <1>7, <2>1
  <2>3. QED BY <2>1, <2>2
<1> HIDE DEF p, q, c, new
<1> DEFINE l == Len(handled)
<1>9. /\ l \in Nat /\ m \in Nat
      /\ handled' \in Seq(Nat)
      /\ DOMAIN handled = 1 .. l
      /\ DOMAIN handled' = 1 .. l + m
      /\ \A i \in 1 .. l : handled'[i] = handled[i] /\ handled[i] \in Nat
      /\ \A i \in l + 1 .. l + m : i - l \in 1 .. m /\ handled'[i] = Chunk(i - l)
  <2>1. handled' = handled \o new
    BY <1>5 DEF new
  <2>2. l \in Nat /\ m \in Nat /\ DOMAIN handled = 1 .. l
    BY <1>2, <1>6
  <2> HIDE DEF l
  <2>3. /\ handled' \in Seq(Nat)
        /\ Len(handled') = l + m
        /\ \A i \in 1 .. l + m :
             handled'[i] = IF i <= l THEN handled[i] ELSE new[i - l]
    BY <1>2, <1>8, <2>1, ConcatProperties DEF l
  <2>4. DOMAIN handled' = 1 .. l + m
    BY <2>3
  <2>5. \A i \in 1 .. l : handled'[i] = handled[i] /\ handled[i] \in Nat
    BY <1>2, <2>2, <2>3
  <2>6. ASSUME NEW i \in l + 1 .. l + m
        PROVE  i - l \in 1 .. m /\ handled'[i] = Chunk(i - l)
    BY <1>8, <2>2, <2>3
  <2>7. QED BY <2>2, <2>3, <2>4, <2>5, <2>6
<1> HIDE DEF l
(* What was handled before is known to be behind, what is new is ahead.    *)
<1>10. \A i \in 1 .. l : handled[i] <= p
  BY <1>1, <1>9, Zenon DEF HandledIsBehind, p
<1>11. \A i \in l + 1 .. l + m : handled'[i] = IF InStep THEN p + (i - l) ELSE 0
  <2>1. \A i \in l + 1 .. l + m : i - l \in Nat
    BY <1>9
  <2>2. QED BY <1>7, <1>9, <2>1
<1>12. BufferTypeOK'
  <2>1. cuts' \subseteq Nat
    <3>1. 1 \in Nat /\ p + 1 \in Nat /\ 0 \in Nat
      BY <1>3
    <3>2. Chunk(1) \in Nat
      BY <1>7, <3>1, Zenon
    <3> DEFINE first == Chunk(1)
    <3> HIDE DEF first
    <3>3. first \in Nat /\ cuts' = IF InStep THEN cuts \union {first} ELSE cuts
      BY <1>4, <3>2, Zenon DEF first
    <3>4. QED BY <1>2, <3>3
  <2>2. aligned' \in BOOLEAN /\ bad' \subseteq Nat \ {0}
    BY <1>2, <1>4, Zenon
  <2>3. at' \in Nat /\ handled' \in Seq(Nat)
    BY <1>3, <1>9, Zenon
  <2>4. QED BY <2>1, <2>2, <2>3, Zenon DEF BufferTypeOK
<1>13. HandledIsBehind'
  <2>1. ASSUME NEW i \in 1 .. l + m PROVE handled'[i] <= q
    <3>1. CASE i \in 1 .. l
      BY <1>3, <1>9, <1>10, <3>1
    <3>2. CASE i \in l + 1 .. l + m
      BY <1>3, <1>6, <1>9, <1>11, <3>2
    <3>3. QED BY <1>9, <3>1, <3>2
  <2>2. QED BY <1>9, <2>1 DEF HandledIsBehind, q
<1>14. AlignedInStep'
  BY <1>1, <1>3, <1>4, Zenon DEF AlignedInStep
<1>15. CutsAreBehind'
  <2>1. ASSUME aligned, NEW k \in cuts' PROVE k <= q
    <3>1. InStep
      BY <1>1, <2>1 DEF AlignedInStep
    <3>2. q = p + c /\ c >= 1
      BY <1>3, <2>1, <3>1
    <3>3. k \in cuts \/ k = p + 1
      BY <1>4, <1>7, <3>1
    <3>4. k \in cuts => k \in Nat /\ k <= p
      BY <1>1, <1>2, <2>1, Zenon DEF CutsAreBehind, p
    <3>5. QED BY <1>3, <1>6, <3>2, <3>3, <3>4
  <2>2. QED BY <1>4, <2>1 DEF CutsAreBehind, q
<1>16. HandledInOrder'
  <2>1. ASSUME NEW i \in 1 .. l + m PROVE handled'[i] \notin bad
    <3>1. CASE i \in 1 .. l
      BY <1>1, <1>9, <3>1, Zenon DEF HandledInOrder
    <3>2. CASE i \in l + 1 .. l + m
      <4>1. CASE InStep
        BY <1>5, <1>9, <3>2, <4>1
      <4>2. CASE ~InStep
        BY <1>2, <1>11, <3>2, <4>2
      <4>3. QED BY <4>1, <4>2
    <3>3. QED BY <1>9, <3>1, <3>2
  <2>2. ASSUME NEW i \in 1 .. l + m, NEW j \in 1 .. l + m, i < j,
               handled'[i] # Straddling, handled'[j] # Straddling
        PROVE  handled'[i] < handled'[j]
    <3>1. CASE j \in 1 .. l
      <4>1. i \in 1 .. l
        BY <1>9, <2>2, <3>1
      <4>2. QED BY <1>1, <1>9, <2>2, <3>1, <4>1, Zenon DEF HandledInOrder
    <3>2. CASE j \in l + 1 .. l + m
      <4>1. handled'[j] = p + (j - l)
        BY <1>11, <2>2, <3>2 DEF Straddling
      <4>2. CASE i \in 1 .. l
        BY <1>3, <1>9, <1>10, <3>2, <4>1, <4>2
      <4>3. CASE i \in l + 1 .. l + m
        <5>1. handled'[i] = p + (i - l)
          BY <1>11, <2>2, <4>3 DEF Straddling
        <5>2. QED BY <1>3, <1>9, <2>2, <4>1, <5>1
      <4>4. QED BY <1>9, <4>2, <4>3
    <3>3. QED BY <1>9, <3>1, <3>2
  <2>3. QED BY <1>4, <1>9, <2>1, <2>2 DEF HandledInOrder
<1>17. LossIsLocal'
  <2>1. ASSUME aligned, NEW k \in 1 .. q, ~Handled(k)'
        PROVE  \E b \in bad : b <= k /\ cuts' \intersect (b + 1 .. k) = {}
    <3>1. InStep
      BY <1>1, <2>1 DEF AlignedInStep
    <3>2. q = p + c /\ cuts' = cuts \union {p + 1}
      BY <1>3, <1>4, <1>7, <3>1
    <3>3. \A i \in 1 .. l + m : handled'[i] # k
      BY <1>9, <2>1, Zenon DEF Handled
    <3>4. CASE k \in 1 .. p
      <4>1. ~Handled(k)
        <5>1. \A i \in 1 .. l : i \in 1 .. l + m
          BY <1>9
        <5>2. QED BY <1>9, <3>3, <5>1, Zenon DEF Handled
      <4>2. PICK b \in bad : b <= k /\ cuts \intersect (b + 1 .. k) = {}
        BY <1>1, <2>1, <3>4, <4>1, Zenon DEF LossIsLocal, p
      <4>3. p + 1 \notin b + 1 .. k
        BY <1>2, <1>3, <3>4
      <4>4. QED BY <3>2, <4>2, <4>3
    <3>5. CASE k \in p + 1 .. p + c
      <4>1. ~(k - p \in 1 .. m)
        <5>1. ASSUME k - p \in 1 .. m PROVE FALSE
          <6>1. l + (k - p) \in l + 1 .. l + m /\ l + (k - p) \in 1 .. l + m
            BY <1>3, <1>9, <3>5, <5>1
          <6>2. handled'[l + (k - p)] = k
            BY <1>3, <1>9, <1>11, <3>1, <3>5, <6>1
          <6>3. QED BY <3>3, <6>1, <6>2
        <5>2. QED BY <5>1
      <4>2. m < c /\ p + m + 1 <= k
        BY <1>3, <1>6, <1>9, <3>5, <4>1
      <4>3. p + m + 1 \in bad
        <5>1. Chunk(m + 1) = p + (m + 1)
          BY <1>7, <1>9, <3>1
        <5>2. Chunk(m + 1) \in bad
          BY <1>5, <3>1, <4>2
        <5>3. p + (m + 1) = p + m + 1
          BY <1>3, <1>9
        <5>4. QED BY <5>1, <5>2, <5>3
      <4>4. \A j \in cuts' : j \in Nat /\ j <= p + 1
        BY <1>1, <1>2, <1>3, <2>1, <3>2 DEF CutsAreBehind, p
      <4>5. cuts' \intersect (p + m + 1 + 1 .. k) = {}
        BY <1>3, <1>9, <4>4
      <4>6. QED BY <4>2, <4>3, <4>5
    <3>6. QED BY <1>3, <1>6, <2>1, <3>2, <3>4, <3>5
  <2>2. QED BY <1>4, <2>1 DEF LossIsLocal, q
<1>18. QED BY <1>12, <1>13, <1>14, <1>15, <1>16, <1>17 DEF BufferInv

LEMMA BufferInvNext == BufferInv /\ [BufferNext]_bufferVars => BufferInv'
<1> SUFFICES ASSUME BufferInv, [BufferNext]_bufferVars PROVE BufferInv'
  OBVIOUS
<1>1. CASE UNCHANGED bufferVars
  <2>1. /\ aligned' = aligned /\ at' = at /\ bad' = bad /\ cuts' = cuts
        /\ handled' = handled
    BY <1>1 DEF bufferVars
  <2>2. QED BY <2>1, Zenon DEF BufferInv, BufferTypeOK, HandledIsBehind,
              AlignedInStep, InStep, CutsAreBehind, HandledInOrder, LossIsLocal, Handled
<1>2. ASSUME NEW n \in 1 .. MaxPackets * PacketSize, PushBytes(n) PROVE BufferInv'
  <2>1. MaxPackets * PacketSize \in Nat
    BY SizesAssumption, SMTT(60) DEF SizesAssumption
  <2>2. n \in Nat \ {0}
    BY <2>1
  <2>3. QED BY <1>2, <2>2, SizesAssumption, BufferInvStep
<1>3. QED BY <1>1, <1>2, Zenon DEF BufferNext

LEMMA BufferInvHolds == BufferSpec => []BufferInv
<1>1. QED BY BufferInvInit, BufferInvNext, PTL DEF BufferSpec

-----------------------------------------------------------------------------
(* The theorems.                                                           *)

(* push() hands every packet on at most once, in the order of the stream,   *)
(* and none that is out of sync, however the stream is cut into buffers.    *)
THEOREM PacketsKeepTheirOrder == BufferSpec => []HandledInOrder
<1>1. BufferInv => HandledInOrder
  BY Zenon DEF BufferInv
<1>2. QED BY <1>1, BufferInvHolds, PTL

(* With buffers of whole packets push() passes over a packet only behind    *)
(* one of the same buffer that is out of sync.                              *)
THEOREM LossStaysInItsBuffer == BufferSpec => []LossIsLocal
<1>1. BufferInv => LossIsLocal
  BY Zenon DEF BufferInv
<1>2. QED BY <1>1, BufferInvHolds, PTL
=============================================================================
