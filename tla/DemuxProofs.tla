----------------------------- MODULE DemuxProofs ------------------------------
(***************************************************************************)
(* Proofs about Demux, for any set of PIDs, versions and packets: what     *)
(* push() holds a reference to is always there, and the queue of changes   *)
(* implements Routing; and about DemuxStream, for any multiplexes in which *)
(* PIDs keep their roles: what tables have registered is served, and       *)
(* repeated tables cost no stream its filter.                              *)
(***************************************************************************)
EXTENDS DemuxStream, SequenceTheorems, WellFoundedInduction, TLAPS

-----------------------------------------------------------------------------
(* Lists of changes.                                                       *)

(* A set of positions of a sequence has a greatest member.                 *)
LEMMA MaxExists ==
  ASSUME NEW n \in Nat, NEW T, T \subseteq 1 .. n, T # {}
  PROVE  \E i \in T : \A j \in T : j <= i
<1> DEFINE M == {n - i : i \in T}
           R0 == OpToRel(<, Nat)
<1>1. M \subseteq Nat
  OBVIOUS
<1>2. M # {}
  OBVIOUS
<1>3. \E m \in M : \A k \in M : ~(<<k, m>> \in R0)
  <2>1. IsWellFoundedOn(R0, Nat)
    BY NatLessThanWellFounded
  <2> HIDE DEF M, R0
  <2>2. QED BY <1>1, <1>2, <2>1, WFMin
<1>4. PICK m \in M : \A k \in M : ~(<<k, m>> \in R0)
  BY <1>3
<1>5. \A k \in M : ~(k < m)
  <2>1. TAKE k \in M
  <2>2. k \in Nat /\ m \in Nat
    BY <1>1
  <2>3. ASSUME k < m PROVE FALSE
    <3>1. <<k, m>> \in R0
      BY <2>2, <2>3 DEF OpToRel
    <3>2. QED BY <3>1, <1>4
  <2>4. QED BY <2>3
<1>6. PICK i \in T : m = n - i
  OBVIOUS
<1>7. \A j \in T : j <= i
  <2>1. TAKE j \in T
  <2>2. n - j \in M
    OBVIOUS
  <2>3. ~(n - j < n - i)
    BY <1>5, <1>6, <2>2
  <2>4. i \in 1 .. n /\ j \in 1 .. n
    OBVIOUS
  <2>5. QED BY <2>3, <2>4
<1>8. QED BY <1>7

(* The change that decides a slot: the last one that touches it.           *)
Last(q, pid) == CHOOSE i \in Touching(q, pid) : \A j \in Touching(q, pid) : j <= i

LEMMA LastProperties ==
  ASSUME NEW q \in Seq(Change), NEW pid \in Pids, Touching(q, pid) # {}
  PROVE  /\ Last(q, pid) \in Touching(q, pid)
         /\ Last(q, pid) \in 1 .. Len(q)
         /\ \A j \in Touching(q, pid) : j <= Last(q, pid)
<1>1. Touching(q, pid) \subseteq 1 .. Len(q) /\ Len(q) \in Nat
  BY LenProperties DEF Touching
<1>2. \E i \in Touching(q, pid) : \A j \in Touching(q, pid) : j <= i
  BY <1>1, MaxExists
<1>3. QED BY <1>1, <1>2 DEF Last

LEMMA AppliedAt ==
  ASSUME NEW t, NEW q, NEW pid \in Pids
  PROVE  Applied(t, q)[pid] =
           IF Touching(q, pid) = {} THEN t[pid] ELSE q[Last(q, pid)].filter
BY DEF Applied, Last

LEMMA AppliedType ==
  ASSUME NEW t \in [Pids -> Filter], NEW q \in Seq(Change)
  PROVE  Applied(t, q) \in [Pids -> Filter]
<1>1. ASSUME NEW pid \in Pids PROVE Applied(t, q)[pid] \in Filter
  <2>1. CASE Touching(q, pid) = {}
    BY <2>1, AppliedAt
  <2>2. CASE Touching(q, pid) # {}
    <3>1. q[Last(q, pid)] \in Change
      BY <2>2, LastProperties, ElementOfSeq
    <3>2. QED BY <2>2, <3>1, AppliedAt DEF Change
  <2>3. QED BY <2>1, <2>2
<1>2. Applied(t, q) = [pid \in Pids |-> Applied(t, q)[pid]]
  BY DEF Applied
<1>3. QED BY <1>1, <1>2

LEMMA AppliedNothing ==
  ASSUME NEW t \in [Pids -> Filter]
  PROVE  Applied(t, <<>>) = t
<1>1. \A pid \in Pids : Touching(<<>>, pid) = {}
  BY DEF Touching
<1>2. \A pid \in Pids : Applied(t, <<>>)[pid] = t[pid]
  BY <1>1 DEF Applied
<1>3. Applied(t, <<>>) \in [Pids -> Filter]
  BY AppliedType, EmptySeq
<1>4. QED BY <1>2, <1>3

(* The changes of two lists that touch a slot, by their positions in the   *)
(* lists joined.                                                           *)
LEMMA TouchingConcat ==
  ASSUME NEW q \in Seq(Change), NEW c \in Seq(Change), NEW pid \in Pids
  PROVE  Touching(q \o c, pid) =
           Touching(q, pid) \union {Len(q) + i : i \in Touching(c, pid)}
<1>1. /\ DOMAIN q = 1 .. Len(q) /\ DOMAIN c = 1 .. Len(c)
      /\ Len(q) \in Nat /\ Len(c) \in Nat
  BY LenProperties
<1>2. DOMAIN (q \o c) = 1 .. Len(q) + Len(c)
  BY ConcatProperties, LenProperties
<1>3. \A i \in 1 .. Len(q) + Len(c) :
        (q \o c)[i] = IF i <= Len(q) THEN q[i] ELSE c[i - Len(q)]
  BY ConcatProperties
<1>4. ASSUME NEW i \in Touching(q \o c, pid)
      PROVE  i \in Touching(q, pid) \union {Len(q) + k : k \in Touching(c, pid)}
  <2>1. i \in 1 .. Len(q) + Len(c) /\ pid \in (q \o c)[i].pids
    BY <1>2 DEF Touching
  <2>2. CASE i <= Len(q)
    BY <1>1, <1>3, <2>1, <2>2 DEF Touching
  <2>3. CASE i > Len(q)
    <3>1. i - Len(q) \in 1 .. Len(c) /\ i = Len(q) + (i - Len(q))
      BY <1>1, <2>1, <2>3
    <3>2. pid \in c[i - Len(q)].pids
      BY <1>1, <1>3, <2>1, <2>3
    <3>3. i - Len(q) \in Touching(c, pid)
      BY <1>1, <3>1, <3>2 DEF Touching
    <3>4. QED BY <3>1, <3>3
  <2>4. QED BY <1>1, <2>1, <2>2, <2>3
<1>5. ASSUME NEW i \in Touching(q, pid) PROVE i \in Touching(q \o c, pid)
  BY <1>1, <1>2, <1>3 DEF Touching
<1>6. ASSUME NEW k \in Touching(c, pid) PROVE Len(q) + k \in Touching(q \o c, pid)
  <2>1. k \in 1 .. Len(c) /\ pid \in c[k].pids
    BY <1>1 DEF Touching
  <2>2. Len(q) + k \in 1 .. Len(q) + Len(c) /\ ~(Len(q) + k <= Len(q))
    BY <1>1, <2>1
  <2>3. (q \o c)[Len(q) + k] = c[k]
    BY <1>1, <1>3, <2>1, <2>2
  <2>4. QED BY <1>2, <2>1, <2>2, <2>3 DEF Touching
<1>7. QED BY <1>4, <1>5, <1>6

(* Making the changes of one list and then those of another is making      *)
(* those of the two lists joined.                                          *)
LEMMA AppliedConcat ==
  ASSUME NEW t \in [Pids -> Filter], NEW q \in Seq(Change), NEW c \in Seq(Change)
  PROVE  Applied(t, q \o c) = Applied(Applied(t, q), c)
<1>1. q \o c \in Seq(Change)
  BY ConcatProperties
<1>2. ASSUME NEW pid \in Pids
      PROVE  Applied(t, q \o c)[pid] = Applied(Applied(t, q), c)[pid]
  <2> DEFINE A == Touching(q, pid)
             B == Touching(c, pid)
  <2>1. Touching(q \o c, pid) = A \union {Len(q) + i : i \in B}
    BY TouchingConcat
  <2>2. /\ Len(q) \in Nat /\ Len(c) \in Nat
        /\ A \subseteq 1 .. Len(q) /\ B \subseteq 1 .. Len(c)
    BY LenProperties DEF Touching
  <2>3. \A i \in 1 .. Len(q) + Len(c) :
          (q \o c)[i] = IF i <= Len(q) THEN q[i] ELSE c[i - Len(q)]
    BY ConcatProperties
  <2>4. CASE B = {}
    <3>1. Touching(q \o c, pid) = A
      BY <2>1, <2>4
    <3>2. Applied(Applied(t, q), c)[pid] = Applied(t, q)[pid]
      BY <2>4, AppliedAt
    <3>3. CASE A = {}
      BY <3>1, <3>2, <3>3, AppliedAt
    <3>4. CASE A # {}
      <4>1. Last(q \o c, pid) = Last(q, pid)
        BY <3>1 DEF Last
      <4>2. Last(q, pid) \in 1 .. Len(q)
        BY <3>4, LastProperties
      <4>3. (q \o c)[Last(q, pid)] = q[Last(q, pid)]
        BY <2>2, <2>3, <4>2
      <4>4. Applied(t, q \o c)[pid] = (q \o c)[Last(q \o c, pid)].filter
        BY <1>1, <3>1, <3>4, AppliedAt
      <4>5. Applied(t, q)[pid] = q[Last(q, pid)].filter
        BY <3>4, AppliedAt
      <4>6. QED BY <3>2, <4>1, <4>3, <4>4, <4>5, Zenon
    <3>5. QED BY <3>3, <3>4
  <2>5. CASE B # {}
    <3> DEFINE l == Last(q \o c, pid)
               k == Last(c, pid)
    <3>1. Touching(q \o c, pid) # {}
      BY <2>1, <2>5
    <3>2. /\ l \in Touching(q \o c, pid) /\ l \in 1 .. Len(q \o c)
          /\ \A j \in Touching(q \o c, pid) : j <= l
      BY <1>1, <3>1, LastProperties
    <3>3. k \in B /\ k \in 1 .. Len(c) /\ \A j \in B : j <= k
      BY <2>5, LastProperties
    <3>4. l = Len(q) + k
      <4>1. Len(q) + k <= l
        BY <2>1, <3>2, <3>3
      <4>2. l \notin A
        <5>1. ASSUME l \in A PROVE FALSE
          <6>1. l \in 1 .. Len(q)
            BY <2>2, <5>1
          <6>2. QED BY <2>2, <3>3, <4>1, <6>1
        <5>2. QED BY <5>1
      <4>3. PICK i \in B : l = Len(q) + i
        BY <2>1, <3>2, <4>2
      <4>4. i <= k /\ i \in 1 .. Len(c)
        BY <2>2, <3>3
      <4>5. QED BY <2>2, <3>3, <4>1, <4>3, <4>4
    <3>5. (q \o c)[l] = c[k]
      <4>1. Len(q) + k \in 1 .. Len(q) + Len(c) /\ ~(Len(q) + k <= Len(q))
        BY <2>2, <3>3
      <4>2. QED BY <2>2, <2>3, <3>3, <3>4, <4>1
    <3>6. Applied(t, q \o c)[pid] = (q \o c)[l].filter
      BY <3>1, AppliedAt
    <3>7. Applied(Applied(t, q), c)[pid] = c[k].filter
      BY <2>5, AppliedAt
    <3>8. QED BY <3>5, <3>6, <3>7
  <2>6. QED BY <2>4, <2>5
<1>3. Applied(t, q \o c) \in [Pids -> Filter]
  BY <1>1, AppliedType
<1>4. Applied(Applied(t, q), c) \in [Pids -> Filter]
  BY AppliedType
<1>5. QED BY <1>2, <1>3, <1>4

(* Tables that differ only in a slot the changes do not touch.             *)
LEMMA AppliedElsewhere ==
  ASSUME NEW t \in [Pids -> Filter], NEW u \in [Pids -> Filter], NEW q \in Seq(Change),
         NEW own \in Pids, Touching(q, own) = {},
         \A pid \in Pids : pid # own => u[pid] = t[pid]
  PROVE  /\ Applied(u, q)[own] = u[own]
         /\ \A pid \in Pids : pid # own => Applied(u, q)[pid] = Applied(t, q)[pid]
BY AppliedAt

LEMMA ExceptEqual ==
  ASSUME NEW a \in [Pids -> Filter], NEW b \in [Pids -> Filter], NEW own \in Pids,
         \A pid \in Pids : pid # own => a[pid] = b[pid]
  PROVE  a = [b EXCEPT ![own] = a[own]]
OBVIOUS

-----------------------------------------------------------------------------
(* Filters.                                                                *)

LEMMA NewType ==
  ASSUME NEW kind \in {"none", "pat", "pmt", "stream", "null"}, NEW program \in Pids
  PROVE  New(kind, program) \in Filter
BY DEF New, Filter

LEMMA ByPidType ==
  ASSUME NEW pid \in Pids
  PROVE  ByPid(pid) \in Filter /\ ByPid(pid) # NoFilter
BY FilterTableAssumption DEF ByPid, NoFilter, New, Filter

LEMMA SectionPids ==
  ASSUME NEW s \in Section
  PROVE  /\ DOMAIN s.entries = 1 .. Len(s.entries) /\ Len(s.entries) \in Nat
         /\ \A i \in DOMAIN s.entries : s.entries[i] \in Entry
         /\ PidsSeen(s) \subseteq Pids
<1>1. s.entries \in Seq(Entry)
  BY DEF Section
<1>2. DOMAIN s.entries = 1 .. Len(s.entries) /\ Len(s.entries) \in Nat
  BY <1>1, LenProperties
<1>3. \A i \in DOMAIN s.entries : s.entries[i] \in Entry
  BY <1>1, <1>2, ElementOfSeq
<1>4. QED BY <1>2, <1>3 DEF PidsSeen, Entry

(* What becomes of a filter keeps its kind: no filter turns into an empty  *)
(* slot by consuming something.                                            *)
LEMMA FilterStays ==
  ASSUME NEW f \in Filter, f # NoFilter
  PROVE  /\ Touch(f) \in Filter /\ Touch(f) # NoFilter
         /\ AfterDamage(f) \in Filter /\ AfterDamage(f) # NoFilter
         /\ \A s \in Section : AfterSection(f, s) \in Filter /\ AfterSection(f, s) # NoFilter
<1>1. Touch(f) \in Filter /\ Touch(f) # NoFilter
  BY DEF Touch, Filter, NoFilter, New
<1>2. AfterDamage(f) \in Filter /\ AfterDamage(f) # NoFilter
  BY DEF AfterDamage, HasTables, Filter, NoFilter, New
<1>3. ASSUME NEW s \in Section
      PROVE  AfterSection(f, s) \in Filter /\ AfterSection(f, s) # NoFilter
  <2>1. s.version \in Versions /\ PidsSeen(s) \in SUBSET Pids
    BY SectionPids DEF Section
  <2>2. CASE ~Passes(f, s)
    BY <2>2 DEF AfterSection
  <2>3. CASE Passes(f, s)
    BY <2>1, <2>3 DEF AfterSection, Passes, HasTables, Filter, NoFilter, New
  <2>4. QED BY <2>2, <2>3
<1>4. QED BY <1>1, <1>2, <1>3

LEMMA ChangesType ==
  ASSUME NEW f \in Filter, NEW s \in Section, NEW own \in Pids
  PROVE  /\ Inserts(s, own) \in Seq(Change)
         /\ Removes(f, s) \in Seq(Change)
         /\ Changes(f, s, own) \in Seq(Change)
<1>1. \A i \in DOMAIN s.entries :
        Insert(s.entries[i].pid, New(s.entries[i].kind, own)) \in Change
  <2>1. TAKE i \in DOMAIN s.entries
  <2>2. s.entries[i].pid \in Pids /\ s.entries[i].kind \in {"pmt", "stream", "null"}
    BY SectionPids DEF Entry
  <2>3. New(s.entries[i].kind, own) \in Filter
    BY <2>2, NewType
  <2>4. QED BY <2>2, <2>3 DEF Insert, Change
<1>2. Inserts(s, own) \in Seq(Change)
  <2>1. Inserts(s, own) \in [1 .. Len(s.entries) -> Change]
    BY <1>1, SectionPids DEF Inserts
  <2>2. QED BY <2>1, SectionPids, SeqDef
<1>3. Removes(f, s) \in Seq(Change)
  <2>1. Remove(f.registered \ PidsSeen(s)) \in Change
    BY NewType, FilterTableAssumption DEF Remove, NoFilter, Change, Filter
  <2>2. QED BY <2>1 DEF Removes
<1>4. Changes(f, s, own) \in Seq(Change)
  BY <1>2, <1>3, ConcatProperties, EmptySeq DEF Changes
<1>5. QED BY <1>2, <1>3, <1>4

-----------------------------------------------------------------------------
(* The reference that push() holds.                                        *)

(* ReferenceIsLive lives on from one packet to the next because no change  *)
(* was applied in between.                                                 *)
LiveInv == TypeOK /\ ReferenceIsLive /\ (pc = "next" => Contains(this_pid))

LEMMA LiveInit == Init => LiveInv
<1> SUFFICES ASSUME Init PROVE LiveInv
  OBVIOUS
<1>1. table \in [Pids -> Filter]
  BY FilterTableAssumption, ByPidType, NewType DEF Init, NoFilter
<1>2. changeset \in Seq(Change)
  BY AppChangesAssumption DEF Init
<1>3. pk \in PacketType
  BY FilterTableAssumption, EmptySeq DEF Init, NoPacket, PacketType
<1>4. QED BY <1>1, <1>2, <1>3, FilterTableAssumption
      DEF Init, LiveInv, TypeOK, ReferenceIsLive

LEMMA NoPacketType == NoPacket \in PacketType
BY FilterTableAssumption, EmptySeq DEF NoPacket, PacketType

LEMMA LiveStep ==
  ASSUME LiveInv, [Next]_vars
  PROVE  LiveInv'
<1> USE DEF LiveInv
<1>1. ASSUME NEW p \in Packets, Push(p) PROVE LiveInv'
  BY <1>1, PacketsAssumption DEF Push, TypeOK, ReferenceIsLive, Contains
<1>2. ASSUME NEW p \in Packets, NextPacket(p) PROVE LiveInv'
  BY <1>2, PacketsAssumption DEF NextPacket, TypeOK, ReferenceIsLive, Contains
<1>3. CASE Lookup
  <2>1. pk.pid \in Pids
    BY DEF TypeOK, PacketType
  <2>2. table' \in [Pids -> Filter] /\ table'[pk.pid] # NoFilter
    BY <1>3, <2>1, ByPidType DEF Lookup, TypeOK, Contains
  <2>3. changeset' \in Seq(Change)
    <3>1. CASE UNCHANGED changeset
      BY <3>1 DEF TypeOK
    <3>2. CASE \E c \in AppChanges : changeset' = changeset \o c
      BY <3>2, AppChangesAssumption, ConcatProperties DEF TypeOK
    <3>3. QED BY <1>3, <3>1, <3>2 DEF Lookup
  <2>4. QED BY <1>3, <2>1, <2>2, <2>3 DEF Lookup, TypeOK, ReferenceIsLive, Contains
<1>4. CASE DropPacket
  BY <1>4, NoPacketType DEF DropPacket, TypeOK, ReferenceIsLive, Contains
<1>5. CASE Consume
  <2>1. table[this_pid] \in Filter /\ table[this_pid] # NoFilter
    BY <1>5 DEF Consume, TypeOK, ReferenceIsLive, Contains
  <2>2. Touch(table[this_pid]) \in Filter /\ Touch(table[this_pid]) # NoFilter
    BY <2>1, FilterStays
  <2>3. QED BY <1>5, <2>2 DEF Consume, TypeOK, ReferenceIsLive, Contains
<1>6. CASE ParseSection
  <2> DEFINE s == Head(pk.sections)
             f == table[this_pid]
  <2>1. f \in Filter /\ f # NoFilter /\ this_pid \in Pids /\ this_pid = pk.pid
    BY <1>6 DEF ParseSection, TypeOK, ReferenceIsLive, Contains
  <2>2. pk.sections \in Seq(Section \union {Damage}) /\ pk.sections # <<>>
    BY <1>6 DEF ParseSection, TypeOK, PacketType
  <2>3. s \in Section \union {Damage} /\ Tail(pk.sections) \in Seq(Section \union {Damage})
    BY <2>2, HeadTailProperties
  <2>4. pk' \in PacketType /\ pk'.pid = pk.pid
    BY <1>6, <2>3 DEF ParseSection, TypeOK, PacketType
  <2>5. CASE s = Damage
    <3>1. AfterDamage(f) \in Filter /\ AfterDamage(f) # NoFilter
      BY <2>1, FilterStays
    <3>2. table' = [table EXCEPT ![this_pid] = AfterDamage(f)] /\ UNCHANGED changeset
      BY <1>6, <2>5 DEF ParseSection
    <3>3. UNCHANGED <<pc, this_pid>>
      BY <1>6 DEF ParseSection
    <3> HIDE DEF f, s
    <3>4. QED BY <1>6, <2>1, <2>4, <3>1, <3>2, <3>3
          DEF ParseSection, TypeOK, ReferenceIsLive, Contains
  <2>6. CASE s # Damage
    <3>1. AfterSection(f, s) \in Filter /\ AfterSection(f, s) # NoFilter
      BY <2>1, <2>3, <2>6, FilterStays
    <3>2. /\ table' = [table EXCEPT ![this_pid] = AfterSection(f, s)]
          /\ changeset' = changeset \o Changes(f, s, this_pid)
      BY <1>6, <2>6 DEF ParseSection
    <3>3. UNCHANGED <<pc, this_pid>>
      BY <1>6 DEF ParseSection
    <3>4. changeset' \in Seq(Change)
      <4>1. Changes(f, s, this_pid) \in Seq(Change)
        BY <2>1, <2>3, <2>6, ChangesType
      <4>2. QED BY <3>2, <4>1, ConcatProperties DEF TypeOK
    <3> HIDE DEF f, s
    <3>5. QED BY <1>6, <2>1, <2>4, <3>1, <3>2, <3>3, <3>4
          DEF ParseSection, TypeOK, ReferenceIsLive, Contains
  <2>7. QED BY <2>5, <2>6
<1>7. CASE Consumed
  <2>1. table' \in [Pids -> Filter]
    BY <1>7, AppliedType DEF Consumed, TypeOK
  <2>2. QED BY <1>7, <2>1, NoPacketType, EmptySeq
        DEF Consumed, TypeOK, ReferenceIsLive, Contains
<1>8. CASE Return
  BY <1>8 DEF Return, TypeOK, ReferenceIsLive, Contains
<1>9. CASE UNCHANGED vars
  BY <1>9 DEF vars, TypeOK, ReferenceIsLive, Contains
<1>10. QED BY <1>1, <1>2, <1>3, <1>4, <1>5, <1>6, <1>7, <1>8, <1>9 DEF Next, Meet, Work

LEMMA LiveInvariant == Spec => []LiveInv
<1>1. LiveInv /\ [Next]_vars => LiveInv'
  BY LiveStep
<1>2. QED BY LiveInit, <1>1, PTL DEF Spec

(* The variables keep their types, whatever the buffers hold and whatever  *)
(* changes the application queues.                                         *)
THEOREM DemuxTypeCorrect == Spec => []TypeOK
<1>1. LiveInv => TypeOK
  BY DEF LiveInv
<1>2. QED BY LiveInvariant, <1>1, PTL

(* push() never uses a filter that is not there (get().unwrap() does not   *)
(* panic), nor the filter of another PID than that of the packet in hand.  *)
THEOREM ReferenceLive == Spec => []ReferenceIsLive
<1>1. LiveInv => ReferenceIsLive
  BY DEF LiveInv
<1>2. QED BY LiveInvariant, <1>1, PTL

-----------------------------------------------------------------------------
(* Demux implements Routing, when no table lists the PID it is sent on and *)
(* the application queues no changes of its own.                           *)

(* Outside consume() the queue is empty; within it, it holds no change to  *)
(* the filter that is running, because that filter's own PID is in none of *)
(* its tables, neither the new nor the last one.                           *)
QueueInv ==
  /\ pc # "consume" => changeset = <<>>
  /\ pc = "consume" => Touching(changeset, this_pid) = {}
  /\ \A i \in DOMAIN changeset : changeset[i].filter.registered = {}
  /\ \A pid \in Pids : pid \notin table[pid].registered

(* The sections still to be seen of the packet in hand are of its PID.     *)
SectionsInv ==
  \A i \in DOMAIN pk.sections :
    pk.sections[i] # Damage => pk.sections[i] \in SectionsOf(pk.pid)

RoutingInv == LiveInv /\ QueueInv /\ SectionsInv

(* The changes that a table causes leave its own filter alone, and bring   *)
(* new filters only.                                                       *)
LEMMA ChangesSpareOwner ==
  ASSUME NEW f \in Filter, NEW s \in Section, NEW own \in Pids,
         own \notin PidsSeen(s), own \notin f.registered
  PROVE  /\ Touching(Changes(f, s, own), own) = {}
         /\ \A i \in DOMAIN Changes(f, s, own) : Changes(f, s, own)[i].filter.registered = {}
<1> DEFINE Fine(c) == own \notin c.pids /\ c.filter.registered = {}
<1>1. ASSUME NEW i \in DOMAIN Inserts(s, own) PROVE Fine(Inserts(s, own)[i])
  <2>1. i \in DOMAIN s.entries
    BY DEF Inserts
  <2>2. Inserts(s, own)[i] = Insert(s.entries[i].pid, New(s.entries[i].kind, own))
    BY <2>1 DEF Inserts
  <2>3. s.entries[i].pid # own
    BY <2>1 DEF PidsSeen
  <2>4. QED BY <2>2, <2>3 DEF Insert, New
<1>2. ASSUME NEW i \in DOMAIN Removes(f, s) PROVE Fine(Removes(f, s)[i])
  <2>1. CASE f.registered \ PidsSeen(s) = {}
    BY <1>2, <2>1 DEF Removes
  <2>2. CASE f.registered \ PidsSeen(s) # {}
    <3>1. Removes(f, s) = <<Remove(f.registered \ PidsSeen(s))>> /\ i = 1
      BY <1>2, <2>2 DEF Removes
    <3>2. QED BY <3>1 DEF Remove, NoFilter, New
  <2>3. QED BY <2>1, <2>2
<1>3. ASSUME NEW i \in DOMAIN Changes(f, s, own) PROVE Fine(Changes(f, s, own)[i])
  <2>1. CASE ~Accepts(f, s)
    BY <1>3, <2>1 DEF Changes
  <2>2. CASE Accepts(f, s)
    <3> DEFINE a == Inserts(s, own)
               b == Removes(f, s)
    <3>1. a \in Seq(Change) /\ b \in Seq(Change)
      BY ChangesType
    <3>2. Changes(f, s, own) = a \o b
      BY <2>2 DEF Changes
    <3> HIDE DEF a, b
    <3>3. i \in 1 .. Len(a) + Len(b) /\ Len(a) \in Nat /\ Len(b) \in Nat
      BY <1>3, <3>1, <3>2, ConcatProperties, LenProperties
    <3>4. (a \o b)[i] = IF i <= Len(a) THEN a[i] ELSE b[i - Len(a)]
      BY <3>1, <3>3, ConcatProperties
    <3>5. DOMAIN a = 1 .. Len(a) /\ DOMAIN b = 1 .. Len(b)
      BY <3>1, LenProperties
    <3>6. CASE i <= Len(a)
      <4>1. i \in DOMAIN a
        BY <3>3, <3>5, <3>6
      <4>2. Fine(a[i])
        BY <1>1, <4>1 DEF a
      <4>3. QED BY <3>2, <3>4, <3>6, <4>2
    <3>7. CASE ~(i <= Len(a))
      <4>1. i - Len(a) \in DOMAIN b
        BY <3>3, <3>5, <3>7
      <4>2. Fine(b[i - Len(a)])
        BY <1>2, <4>1 DEF b
      <4>3. QED BY <3>2, <3>4, <3>7, <4>2
    <3>8. QED BY <3>6, <3>7
  <2>3. QED BY <2>1, <2>2
<1>4. QED BY <1>3 DEF Touching

(* Properties of all the changes of two lists are those of the lists       *)
(* joined.                                                                 *)
LEMMA JoinedChanges ==
  ASSUME NEW q \in Seq(Change), NEW c \in Seq(Change), NEW own \in Pids,
         Touching(q, own) = {}, Touching(c, own) = {},
         \A i \in DOMAIN q : q[i].filter.registered = {},
         \A i \in DOMAIN c : c[i].filter.registered = {}
  PROVE  /\ Touching(q \o c, own) = {}
         /\ \A i \in DOMAIN (q \o c) : (q \o c)[i].filter.registered = {}
<1>1. Touching(q \o c, own) = {}
  BY TouchingConcat
<1>2. ASSUME NEW i \in DOMAIN (q \o c) PROVE (q \o c)[i].filter.registered = {}
  <2>1. /\ DOMAIN q = 1 .. Len(q) /\ DOMAIN c = 1 .. Len(c)
        /\ Len(q) \in Nat /\ Len(c) \in Nat
    BY LenProperties
  <2>2. i \in 1 .. Len(q) + Len(c)
    BY ConcatProperties, LenProperties
  <2>3. (q \o c)[i] = IF i <= Len(q) THEN q[i] ELSE c[i - Len(q)]
    BY <2>2, ConcatProperties
  <2>4. i <= Len(q) => i \in DOMAIN q
    BY <2>1, <2>2
  <2>5. ~(i <= Len(q)) => i - Len(q) \in DOMAIN c
    BY <2>1, <2>2
  <2>6. QED BY <2>3, <2>4, <2>5
<1>3. QED BY <1>1, <1>2

(* Applying changes that bring new filters lets no filter register itself. *)
LEMMA AppliedUnregistered ==
  ASSUME NEW t \in [Pids -> Filter], NEW q \in Seq(Change),
         \A i \in DOMAIN q : q[i].filter.registered = {},
         \A pid \in Pids : pid \notin t[pid].registered
  PROVE  \A pid \in Pids : pid \notin Applied(t, q)[pid].registered
<1>1. TAKE pid \in Pids
<1>2. CASE Touching(q, pid) = {}
  BY <1>2, AppliedAt
<1>3. CASE Touching(q, pid) # {}
  <2>1. Last(q, pid) \in DOMAIN q
    BY <1>3, LastProperties, LenProperties
  <2>2. QED BY <1>3, <2>1, AppliedAt
<1>4. QED BY <1>2, <1>3

LEMMA FiltersUnregistered ==
  ASSUME NEW f \in Filter, NEW pid \in Pids, pid \notin f.registered
  PROVE  /\ pid \notin Touch(f).registered
         /\ pid \notin AfterDamage(f).registered
         /\ \A s \in Section : pid \notin PidsSeen(s) => pid \notin AfterSection(f, s).registered
<1>1. pid \notin Touch(f).registered
  BY DEF Touch, Filter
<1>2. pid \notin AfterDamage(f).registered
  BY DEF AfterDamage, Filter
<1>3. ASSUME NEW s \in Section, pid \notin PidsSeen(s)
      PROVE  pid \notin AfterSection(f, s).registered
  <2>1. CASE ~Passes(f, s)
    BY <2>1 DEF AfterSection
  <2>2. CASE Passes(f, s)
    BY <1>3, <2>2 DEF AfterSection, Filter
  <2>3. QED BY <2>1, <2>2
<1>4. QED BY <1>1, <1>2, <1>3

LEMMA SectionsOfPacket ==
  ASSUME NEW p \in Packets, NEW i \in DOMAIN p.sections, p.sections[i] # Damage
  PROVE  p.sections[i] \in SectionsOf(p.pid)
BY DEF SectionsOf

LEMMA ParsedSection ==
  ASSUME RoutingInv, ParseSection, NoSelfListing
  PROVE  /\ this_pid \in Pids /\ this_pid = pk.pid
         /\ table \in [Pids -> Filter] /\ changeset \in Seq(Change)
         /\ table[this_pid] \in Filter /\ table[this_pid] # NoFilter
         /\ Head(pk.sections) # Damage =>
              /\ Head(pk.sections) \in Section
              /\ Head(pk.sections) \in SectionsOf(this_pid)
              /\ this_pid \notin PidsSeen(Head(pk.sections))
<1>1. /\ this_pid \in Pids /\ this_pid = pk.pid
      /\ table[this_pid] \in Filter /\ table[this_pid] # NoFilter
      /\ table \in [Pids -> Filter] /\ changeset \in Seq(Change)
  BY DEF RoutingInv, LiveInv, TypeOK, ReferenceIsLive, Contains, ParseSection
<1>2. pk.sections \in Seq(Section \union {Damage}) /\ pk.sections # <<>>
  BY DEF RoutingInv, LiveInv, TypeOK, PacketType, ParseSection
<1>3. Head(pk.sections) \in Section \union {Damage}
  BY <1>2, HeadTailProperties
<1>4. 1 \in DOMAIN pk.sections /\ Head(pk.sections) = pk.sections[1]
  BY <1>2, LenProperties, EmptySeq
<1>5. Head(pk.sections) # Damage => Head(pk.sections) \in SectionsOf(pk.pid)
  BY <1>4 DEF RoutingInv, SectionsInv
<1>6. QED BY <1>1, <1>3, <1>5 DEF NoSelfListing

LEMMA RoutingInvInit ==
  ASSUME Init, NoSelfListing, AppChanges = {<<>>}
  PROVE  RoutingInv
<1>1. LiveInv
  BY LiveInit
<1>2. \A pid \in Pids : pid \notin table[pid].registered
  BY DEF Init, ByPid, NoFilter, New
<1>3. QED BY <1>1, <1>2 DEF RoutingInv, QueueInv, SectionsInv, Init, NoPacket

LEMMA RoutingInvStep ==
  ASSUME RoutingInv, [Next]_vars, NoSelfListing, AppChanges = {<<>>}
  PROVE  RoutingInv'
<1>1. LiveInv'
  BY LiveStep DEF RoutingInv
<1>2. /\ table \in [Pids -> Filter] /\ changeset \in Seq(Change) /\ this_pid \in Pids
      /\ pk \in PacketType
  BY DEF RoutingInv, LiveInv, TypeOK
<1>3. QueueInv' /\ SectionsInv'
  <2>1. ASSUME NEW p \in Packets, Push(p) PROVE QueueInv' /\ SectionsInv'
    BY <2>1, SectionsOfPacket DEF Push, RoutingInv, QueueInv, SectionsInv
  <2>2. ASSUME NEW p \in Packets, NextPacket(p) PROVE QueueInv' /\ SectionsInv'
    BY <2>2, SectionsOfPacket DEF NextPacket, RoutingInv, QueueInv, SectionsInv
  <2>3. CASE Lookup
    <3>1. changeset = <<>> /\ changeset' = <<>>
      BY <2>3, ConcatEmptySeq, EmptySeq DEF Lookup, RoutingInv, QueueInv
    <3>2. \A pid \in Pids : pid \notin table'[pid].registered
      BY <1>2, <2>3 DEF Lookup, RoutingInv, QueueInv, ByPid, New
    <3>3. QED BY <2>3, <3>1, <3>2 DEF Lookup, RoutingInv, QueueInv, SectionsInv
  <2>4. CASE DropPacket
    BY <2>4 DEF DropPacket, RoutingInv, QueueInv, SectionsInv, NoPacket
  <2>5. CASE Consume
    <3>1. \A pid \in Pids : pid \notin table'[pid].registered
      BY <1>2, <2>5, FiltersUnregistered DEF Consume, RoutingInv, QueueInv
    <3>2. changeset' = <<>>
      BY <2>5 DEF Consume, RoutingInv, QueueInv
    <3>3. Touching(changeset', this_pid') = {}
      BY <3>2 DEF Touching
    <3>4. QED BY <2>5, <3>1, <3>2, <3>3 DEF Consume, RoutingInv, QueueInv, SectionsInv
  <2>6. CASE ParseSection
    <3> DEFINE s == Head(pk.sections)
               f == table[this_pid]
    <3>1. /\ f \in Filter /\ this_pid \notin f.registered
          /\ s # Damage => s \in Section /\ this_pid \notin PidsSeen(s)
      BY <2>6, ParsedSection DEF RoutingInv, QueueInv
    <3>2. SectionsInv'
      <4>1. pk.sections \in Seq(Section \union {Damage}) /\ pk.sections # <<>>
        BY <2>6 DEF ParseSection, RoutingInv, LiveInv, TypeOK, PacketType
      <4>2. pk' = [pk EXCEPT !.sections = Tail(@)]
        BY <2>6 DEF ParseSection
      <4>3. pk'.sections = Tail(pk.sections) /\ pk'.pid = pk.pid
        BY <1>2, <4>2 DEF PacketType
      <4>4. \A i \in DOMAIN Tail(pk.sections) :
              i + 1 \in DOMAIN pk.sections /\ Tail(pk.sections)[i] = pk.sections[i + 1]
        BY <4>1, HeadTailProperties, LenProperties
      <4>5. QED BY <4>3, <4>4 DEF RoutingInv, SectionsInv
    <3>3. CASE s = Damage
      <4>1. table' = [table EXCEPT ![this_pid] = AfterDamage(f)] /\ UNCHANGED changeset
        BY <2>6, <3>3 DEF ParseSection
      <4>2. this_pid \notin AfterDamage(f).registered
        BY <1>2, <3>1, FiltersUnregistered
      <4> HIDE DEF f, s
      <4>3. \A pid \in Pids : pid \notin table'[pid].registered
        BY <1>2, <4>1, <4>2 DEF RoutingInv, QueueInv
      <4>4. UNCHANGED <<pc, this_pid>>
        BY <2>6 DEF ParseSection
      <4>5. QED BY <3>2, <4>1, <4>3, <4>4 DEF RoutingInv, QueueInv
    <3>4. CASE s # Damage
      <4> DEFINE c == Changes(f, s, this_pid)
      <4>1. /\ table' = [table EXCEPT ![this_pid] = AfterSection(f, s)]
            /\ changeset' = changeset \o c
        BY <2>6, <3>4 DEF ParseSection
      <4>2. pc = "consume" /\ UNCHANGED <<pc, this_pid>>
        BY <2>6 DEF ParseSection
      <4>3. this_pid \notin AfterSection(f, s).registered
        BY <1>2, <3>1, <3>4, FiltersUnregistered
      <4>4. c \in Seq(Change)
        BY <1>2, <3>1, <3>4, ChangesType
      <4>5. Touching(c, this_pid) = {} /\ \A i \in DOMAIN c : c[i].filter.registered = {}
        BY <1>2, <3>1, <3>4, ChangesSpareOwner
      <4>6. /\ Touching(changeset, this_pid) = {}
            /\ \A i \in DOMAIN changeset : changeset[i].filter.registered = {}
        BY <4>2 DEF RoutingInv, QueueInv
      <4> HIDE DEF f, s, c
      <4>7. /\ Touching(changeset', this_pid) = {}
            /\ \A i \in DOMAIN changeset' : changeset'[i].filter.registered = {}
        BY <1>2, <4>1, <4>4, <4>5, <4>6, JoinedChanges
      <4>8. \A pid \in Pids : pid \notin table'[pid].registered
        BY <1>2, <4>1, <4>3 DEF RoutingInv, QueueInv
      <4>9. QED BY <3>2, <4>2, <4>7, <4>8 DEF RoutingInv, QueueInv
    <3>5. QED BY <3>3, <3>4
  <2>7. CASE Consumed
    <3>1. \A pid \in Pids : pid \notin table'[pid].registered
      BY <1>2, <2>7, AppliedUnregistered DEF Consumed, RoutingInv, QueueInv
    <3>2. QED BY <2>7, <3>1 DEF Consumed, RoutingInv, QueueInv, SectionsInv, NoPacket
  <2>8. CASE Return
    BY <2>8 DEF Return, RoutingInv, QueueInv, SectionsInv
  <2>9. CASE UNCHANGED vars
    BY <2>9 DEF vars, RoutingInv, QueueInv, SectionsInv
  <2>10. QED BY <2>1, <2>2, <2>3, <2>4, <2>5, <2>6, <2>7, <2>8, <2>9 DEF Next, Meet, Work
<1>4. QED BY <1>1, <1>3 DEF RoutingInv

-----------------------------------------------------------------------------
(* The steps of Demux as steps of Routing.                                 *)

(* Routing's table: the demultiplexer's, with the pending changes made.    *)
Effective == Applied(table, changeset)

(* Routing works with its own copies of the operators of FilterTable.      *)
LEMMA SameOperators ==
  /\ R!NoFilter = NoFilter
  /\ \A pid : R!ByPid(pid) = ByPid(pid)
  /\ \A f : R!Touch(f) = Touch(f) /\ R!AfterDamage(f) = AfterDamage(f)
  /\ \A f, s : R!AfterSection(f, s) = AfterSection(f, s)
  /\ \A f, s, own : R!Changes(f, s, own) = Changes(f, s, own)
  /\ \A t, q : R!Applied(t, q) = Applied(t, q)
<1>1. R!NoFilter = NoFilter /\ \A pid : R!ByPid(pid) = ByPid(pid)
  BY DEF R!NoFilter, NoFilter, R!New, New, R!ByPid, ByPid
<1>2. \A f : R!Touch(f) = Touch(f) /\ R!AfterDamage(f) = AfterDamage(f)
  BY DEF R!Touch, Touch, R!AfterDamage, AfterDamage, R!HasTables, HasTables
<1>3. /\ \A f, s : R!Accepts(f, s) <=> Accepts(f, s)
      /\ \A f, s : R!Passes(f, s) <=> Passes(f, s)
      /\ \A s : R!PidsSeen(s) = PidsSeen(s)
  BY DEF R!Accepts, Accepts, R!Passes, Passes, R!HasTables, HasTables, R!PidsSeen, PidsSeen
<1>4. \A f, s : R!AfterSection(f, s) = AfterSection(f, s)
  BY <1>3 DEF R!AfterSection, AfterSection
<1>5. \A s, own : R!Inserts(s, own) = Inserts(s, own)
  BY DEF R!Inserts, Inserts, R!Insert, Insert, R!New, New
<1>6. \A f, s : R!Removes(f, s) = Removes(f, s)
  BY <1>1, <1>3 DEF R!Removes, Removes, R!Remove, Remove
<1>7. \A f, s, own : R!Changes(f, s, own) = Changes(f, s, own)
  BY <1>3, <1>5, <1>6 DEF R!Changes, Changes
<1>8. \A t, q : R!Applied(t, q) = Applied(t, q)
  BY DEF R!Applied, Applied, R!Touching, Touching
<1>9. QED BY <1>1, <1>2, <1>4, <1>7, <1>8

LEMMA RoutingStart ==
  ASSUME Init, AppChanges = {<<>>}
  PROVE  R!RoutingInit
<1>1. table \in [Pids -> Filter] /\ changeset = <<>>
  BY LiveInit DEF LiveInv, TypeOK, Init
<1>2. Applied(table, changeset) = table
  BY <1>1, AppliedNothing
<1>3. QED BY <1>2, SameOperators DEF Init, R!RoutingInit

(* A step that changes one slot of the table, which no pending change      *)
(* touches, changes the same slot of Routing's table.                      *)
LEMMA EffectiveExcept ==
  ASSUME table \in [Pids -> Filter], changeset \in Seq(Change), this_pid \in Pids,
         Touching(changeset, this_pid) = {}, table' \in [Pids -> Filter],
         \A pid \in Pids : pid # this_pid => table'[pid] = table[pid]
  PROVE  Applied(table', changeset) = [Effective EXCEPT ![this_pid] = table'[this_pid]]
<1> DEFINE a == Applied(table', changeset)
           b == Applied(table, changeset)
<1>1. a[this_pid] = table'[this_pid]
  BY AppliedElsewhere
<1>2. \A pid \in Pids : pid # this_pid => a[pid] = b[pid]
  BY AppliedElsewhere
<1>3. a \in [Pids -> Filter] /\ b \in [Pids -> Filter]
  BY AppliedType
<1>4. a = [b EXCEPT ![this_pid] = a[this_pid]]
  <2> HIDE DEF a, b
  <2>1. QED BY <1>2, <1>3, ExceptEqual
<1>5. QED BY <1>1, <1>4 DEF Effective

(* What parsing a section does to Routing's table.                         *)
LEMMA EffectiveParse ==
  ASSUME RoutingInv, ParseSection, NoSelfListing, table' \in [Pids -> Filter]
  PROVE  LET s == Head(pk.sections)
             f == table[this_pid]
         IN /\ f \in Filter /\ f # NoFilter /\ Effective[this_pid] = f
            /\ s = Damage => Effective' = [Effective EXCEPT ![this_pid] = AfterDamage(f)]
            /\ s # Damage =>
                 /\ s \in Section /\ s \in SectionsOf(this_pid)
                 /\ Effective' = Applied([Effective EXCEPT ![this_pid] = AfterSection(f, s)],
                                        Changes(f, s, this_pid))
<1> DEFINE s == Head(pk.sections)
           f == table[this_pid]
<1>1. /\ table \in [Pids -> Filter] /\ changeset \in Seq(Change) /\ this_pid \in Pids
      /\ table' \in [Pids -> Filter]
  BY DEF RoutingInv, LiveInv, TypeOK
<1>2. /\ f \in Filter /\ f # NoFilter
      /\ s # Damage => /\ s \in Section /\ s \in SectionsOf(this_pid)
  BY ParsedSection
<1>3. Touching(changeset, this_pid) = {}
  BY DEF ParseSection, RoutingInv, QueueInv
<1>4. Effective[this_pid] = f
  BY <1>1, <1>3, AppliedAt DEF Effective
<1>5. ASSUME s = Damage
      PROVE  Effective' = [Effective EXCEPT ![this_pid] = AfterDamage(f)]
  <2>1. table' = [table EXCEPT ![this_pid] = AfterDamage(f)] /\ UNCHANGED changeset
    BY <1>5 DEF ParseSection
  <2> HIDE DEF f, s
  <2>2. /\ \A pid \in Pids : pid # this_pid => table'[pid] = table[pid]
        /\ table'[this_pid] = AfterDamage(f)
    BY <1>1, <2>1
  <2>3. Applied(table', changeset) = [Effective EXCEPT ![this_pid] = table'[this_pid]]
    BY <1>1, <1>3, <2>2, EffectiveExcept
  <2>4. QED BY <2>1, <2>2, <2>3 DEF Effective
<1>6. ASSUME s # Damage
      PROVE  Effective' = Applied([Effective EXCEPT ![this_pid] = AfterSection(f, s)],
                                  Changes(f, s, this_pid))
  <2> DEFINE c == Changes(f, s, this_pid)
             g == AfterSection(f, s)
  <2>1. table' = [table EXCEPT ![this_pid] = g] /\ changeset' = changeset \o c
    BY <1>6 DEF ParseSection
  <2>2. c \in Seq(Change)
    BY <1>1, <1>2, <1>6, ChangesType
  <2> HIDE DEF f, s, c, g
  <2>3. Effective' = Applied(Applied(table', changeset), c)
    BY <1>1, <2>1, <2>2, AppliedConcat DEF Effective
  <2>4. /\ \A pid \in Pids : pid # this_pid => table'[pid] = table[pid]
        /\ table'[this_pid] = g
    BY <1>1, <2>1
  <2>5. Applied(table', changeset) = [Effective EXCEPT ![this_pid] = table'[this_pid]]
    BY <1>1, <1>3, <2>4, EffectiveExcept
  <2>6. Effective' = Applied([Effective EXCEPT ![this_pid] = g], c)
    BY <2>3, <2>4, <2>5
  <2>7. QED BY <2>6 DEF c, g
<1>7. QED BY <1>2, <1>4, <1>5, <1>6

LEMMA RoutingStep ==
  ASSUME RoutingInv, [Next]_vars, NoSelfListing, AppChanges = {<<>>}
  PROVE  [R!RoutingNext]_(Effective)
<1>1. /\ table \in [Pids -> Filter] /\ changeset \in Seq(Change) /\ this_pid \in Pids
      /\ pk.pid \in Pids
      /\ table' \in [Pids -> Filter]
  BY LiveStep DEF RoutingInv, LiveInv, TypeOK, PacketType
<1>2. ASSUME UNCHANGED <<table, changeset>> PROVE UNCHANGED Effective
  BY <1>2 DEF Effective
<1>3. changeset = <<>> => Effective = table
  BY <1>1, AppliedNothing DEF Effective
<1>4. changeset' = <<>> => Effective' = table'
  BY <1>1, AppliedNothing DEF Effective
<1>5. CASE Lookup
  <2>1. changeset = <<>> /\ changeset' = <<>>
    BY <1>5, ConcatEmptySeq, EmptySeq DEF Lookup, RoutingInv, QueueInv
  <2>2. CASE Contains(pk.pid)
    BY <1>2, <1>5, <2>2 DEF Lookup
  <2>3. CASE ~Contains(pk.pid)
    <3>1. R!Discover(pk.pid)
      BY <1>3, <1>4, <1>5, <2>1, <2>3, SameOperators
         DEF Lookup, Contains, R!Discover, Effective
    <3>2. QED BY <1>1, <3>1 DEF R!RoutingNext
  <2>4. QED BY <2>2, <2>3
<1>6. CASE Consume
  <2>1. changeset = <<>> /\ changeset' = <<>> /\ table[this_pid] # NoFilter
    BY <1>6 DEF Consume, RoutingInv, QueueInv, LiveInv, ReferenceIsLive, Contains
  <2>2. R!Deliver(this_pid)
    BY <1>3, <1>4, <1>6, <2>1, SameOperators DEF Consume, R!Deliver, Effective
  <2>3. QED BY <1>1, <2>2 DEF R!RoutingNext
<1>7. CASE ParseSection
  <2> DEFINE s == Head(pk.sections)
             f == table[this_pid]
  <2>1. /\ f # NoFilter /\ Effective[this_pid] = f
        /\ s = Damage => Effective' = [Effective EXCEPT ![this_pid] = AfterDamage(f)]
        /\ s # Damage =>
             /\ s \in SectionsOf(this_pid)
             /\ Effective' = Applied([Effective EXCEPT ![this_pid] = AfterSection(f, s)],
                                    Changes(f, s, this_pid))
    BY <1>1, <1>7, EffectiveParse
  <2> HIDE DEF f, s
  <2>2. CASE s = Damage
    <3>1. R!HandleDamage(this_pid)
      BY <2>1, <2>2, SameOperators DEF R!HandleDamage, Effective
    <3>2. QED BY <1>1, <3>1 DEF R!RoutingNext
  <2>3. CASE s # Damage
    <3>1. R!HandleSection(this_pid, s)
      BY <2>1, <2>3, SameOperators DEF R!HandleSection, Effective
    <3>2. QED BY <1>1, <2>1, <2>3, <3>1 DEF R!RoutingNext
  <2>4. QED BY <2>2, <2>3
<1>8. CASE Consumed
  <2>1. changeset' = <<>>
    BY <1>8 DEF Consumed
  <2>2. table' = Effective
    BY <1>3, <1>8 DEF Consumed, Effective
  <2>3. QED BY <1>4, <2>1, <2>2
<1>9. CASE UNCHANGED <<table, changeset>>
  BY <1>2, <1>9
<1>10. QED BY <1>5, <1>6, <1>7, <1>8, <1>9
       DEF Next, Meet, Work, Push, NextPacket, DropPacket, Return, vars

(* Queueing the changes that tables cause, and applying them between two   *)
(* packets, has the effect of changing the table of filters at once: every *)
(* packet is handled by the filter that all the tables before it in the    *)
(* stream designate.                                                       *)
THEOREM RoutingImplemented ==
  ASSUME NoSelfListing, AppChanges = {<<>>}
  PROVE  Spec => ImplementsRouting
<1>1. Init => RoutingInv
  BY RoutingInvInit
<1>2. RoutingInv /\ [Next]_vars => RoutingInv'
  BY RoutingInvStep
<1>3. RoutingInv /\ [Next]_vars => [R!RoutingNext]_(Effective)
  BY RoutingStep
<1>4. QED BY <1>1, <1>2, <1>3, RoutingStart, PTL
       DEF Spec, ImplementsRouting, R!RoutingSpec, Effective

-------------------------------------------------------------------------------
(* DemuxStream.                                                            *)

(* What becomes of a filter's fields.                                      *)

Alike(g, f) == g.kind = f.kind /\ g.program = f.program

LEMMA FiltersAlike ==
  ASSUME NEW f \in Filter
  PROVE  /\ Touch(f) \in Filter /\ Alike(Touch(f), f)
         /\ Touch(f).registered = f.registered /\ Touch(f).version = f.version
         /\ Touch(f).used => f.used \/ f.kind = "stream"
         /\ f.used => Touch(f).used
         /\ AfterDamage(f) \in Filter /\ Alike(AfterDamage(f), f)
         /\ AfterDamage(f).registered = f.registered
         /\ AfterDamage(f).used = f.used
         /\ \A s \in Section :
              LET g == AfterSection(f, s) IN
              /\ g \in Filter /\ Alike(g, f) /\ g.used = f.used
              /\ g.version = IF Passes(f, s) THEN s.version ELSE f.version
              /\ g.registered = IF Accepts(f, s) THEN PidsSeen(s) ELSE f.registered
<1>1. /\ Touch(f) \in Filter /\ Alike(Touch(f), f)
      /\ Touch(f).registered = f.registered /\ Touch(f).version = f.version
      /\ Touch(f).used => f.used \/ f.kind = "stream"
      /\ f.used => Touch(f).used
  BY DEF Touch, Filter, Alike
<1>2. /\ AfterDamage(f) \in Filter /\ Alike(AfterDamage(f), f)
      /\ AfterDamage(f).registered = f.registered
      /\ AfterDamage(f).used = f.used
  BY DEF AfterDamage, Filter, Alike
<1>3. ASSUME NEW s \in Section
      PROVE  LET g == AfterSection(f, s) IN
             /\ g \in Filter /\ Alike(g, f) /\ g.used = f.used
             /\ g.version = IF Passes(f, s) THEN s.version ELSE f.version
             /\ g.registered = IF Accepts(f, s) THEN PidsSeen(s) ELSE f.registered
  <2>1. s.version \in Versions /\ PidsSeen(s) \in SUBSET Pids
    BY SectionPids DEF Section
  <2>2. CASE ~Passes(f, s)
    BY <2>2 DEF AfterSection, Accepts, Alike
  <2>3. CASE Passes(f, s)
    <3> DEFINE r == IF Accepts(f, s) THEN PidsSeen(s) ELSE f.registered
    <3>1. AfterSection(f, s) = [f EXCEPT !.version = s.version, !.registered = r]
      BY <2>3 DEF AfterSection
    <3>2. r \in SUBSET Pids
      BY <2>1 DEF Filter
    <3> HIDE DEF r
    <3>3. LET g == AfterSection(f, s) IN
          g \in Filter /\ Alike(g, f) /\ g.used = f.used /\ g.version = s.version
            /\ g.registered = r
      BY <2>1, <3>1, <3>2 DEF Filter, Alike
    <3>4. QED BY <2>3, <3>3 DEF r
  <2>4. QED BY <2>2, <2>3
<1>4. QED BY <1>1, <1>2, <1>3

LEMMA NewFields ==
  ASSUME NEW kind, NEW program
  PROVE  /\ New(kind, program).kind = kind /\ New(kind, program).program = program
         /\ New(kind, program).registered = {} /\ New(kind, program).version = NoVersion
         /\ New(kind, program).used = FALSE
BY DEF New

-----------------------------------------------------------------------------
(* What a table does to the slot of a PID, u being the filters before.     *)
LEMMA SectionApplied ==
  ASSUME NEW u \in [Pids -> Filter], NEW f \in Filter, NEW s \in Section,
         NEW own \in Pids, NEW pid \in Pids
  PROVE  LET t == Applied(u, Changes(f, s, own)) IN
         /\ Accepts(f, s) /\ pid \in PidsSeen(s) =>
              \E i \in DOMAIN s.entries :
                s.entries[i].pid = pid /\ t[pid] = New(s.entries[i].kind, own)
         /\ Accepts(f, s) /\ pid \in f.registered \ PidsSeen(s) => t[pid] = NoFilter
         /\ ~Accepts(f, s) \/ pid \notin PidsSeen(s) \union f.registered => t[pid] = u[pid]
<1> DEFINE a == Inserts(s, own)
           b == Removes(f, s)
<1>1. a \in Seq(Change) /\ b \in Seq(Change)
  BY ChangesType
<1>2. CASE ~Accepts(f, s)
  <2>1. Changes(f, s, own) = <<>>
    BY <1>2 DEF Changes
  <2>2. QED BY <1>2, <2>1, AppliedNothing
<1>3. CASE Accepts(f, s)
  <2>1. Applied(u, Changes(f, s, own))[pid] = Applied(Applied(u, a), b)[pid]
    BY <1>1, <1>3, AppliedConcat DEF Changes
  <2>2. ASSUME NEW x
        PROVE  Applied(x, b)[pid] = IF pid \in f.registered \ PidsSeen(s)
                                    THEN NoFilter ELSE x[pid]
    <3>1. CASE f.registered \ PidsSeen(s) = {}
      <4>1. Touching(b, pid) = {}
        BY <3>1 DEF Removes, Touching
      <4>2. QED BY <3>1, <4>1, AppliedAt
    <3>2. CASE f.registered \ PidsSeen(s) # {}
      <4>1. b = <<Remove(f.registered \ PidsSeen(s))>>
        BY <3>2 DEF Removes
      <4>2. DOMAIN b = {1} /\ b[1].pids = f.registered \ PidsSeen(s) /\ b[1].filter = NoFilter
        BY <4>1 DEF Remove
      <4> HIDE DEF b
      <4>3. CASE pid \in f.registered \ PidsSeen(s)
        <5>1. Touching(b, pid) # {} /\ \A i \in Touching(b, pid) : i = 1
          BY <4>2, <4>3 DEF Touching
        <5>2. Last(b, pid) = 1
          BY <1>1, <5>1, LastProperties
        <5>3. QED BY <4>2, <4>3, <5>1, <5>2, AppliedAt
      <4>4. CASE pid \notin f.registered \ PidsSeen(s)
        <5>1. Touching(b, pid) = {}
          BY <4>2, <4>4 DEF Touching
        <5>2. QED BY <4>4, <5>1, AppliedAt
      <4>5. QED BY <4>3, <4>4
    <3>3. QED BY <3>1, <3>2
  <2>3. DOMAIN a = DOMAIN s.entries
        /\ \A i \in DOMAIN a : /\ a[i].pids = {s.entries[i].pid}
                               /\ a[i].filter = New(s.entries[i].kind, own)
    BY DEF Inserts, Insert
  <2> HIDE DEF a, b
  <2>4. CASE pid \in PidsSeen(s)
    <3>1. Touching(a, pid) # {}
      BY <2>3, <2>4 DEF Touching, PidsSeen
    <3>2. PICK i \in Touching(a, pid) : Applied(u, a)[pid] = a[i].filter
      BY <1>1, <3>1, LastProperties, AppliedAt
    <3>3. /\ i \in DOMAIN s.entries /\ s.entries[i].pid = pid
          /\ Applied(u, a)[pid] = New(s.entries[i].kind, own)
      BY <2>3, <3>2 DEF Touching
    <3>4. Applied(u, Changes(f, s, own))[pid] = Applied(u, a)[pid]
      BY <2>1, <2>2, <2>4
    <3>5. QED BY <1>3, <2>4, <3>3, <3>4
  <2>5. CASE pid \notin PidsSeen(s)
    <3>1. Touching(a, pid) = {}
      BY <2>3, <2>5 DEF Touching, PidsSeen
    <3>2. Applied(u, a)[pid] = u[pid]
      BY <3>1, AppliedAt
    <3>3. QED BY <1>3, <2>1, <2>2, <2>5, <3>2
  <2>6. QED BY <2>4, <2>5
<1>4. QED BY <1>2, <1>3

-----------------------------------------------------------------------------
(* The invariant: t are the filters, queued changes made, n the history.   *)

(* Filters are of the kinds that the roles of their PIDs allow, and have   *)
(* registered PIDs of the roles that their tables list.                    *)
KeepsRoles(programs, streams, t) ==
  /\ t[PatPid].registered \subseteq programs
  /\ \A pid \in Pids :
       /\ t[pid].kind = "pat" => pid = PatPid
       /\ t[pid].kind = "pmt" => pid \in programs /\ t[pid].registered \subseteq streams

ProgramsServed(t) == \A pid \in t[PatPid].registered : t[pid].kind \in {"pmt", "null"}

(* A stream's filter is that of the program which mentioned it last.       *)
StreamServed(t, n, pid) ==
  IF n[pid].listed
  THEN t[pid].kind \in {"stream", "null"} /\ t[pid].program = n[pid].by
  ELSE t[pid].kind \in {"none", "null"}

Serves(streams, t, n) ==
  /\ ProgramsServed(t)
  /\ \A pid \in streams : StreamServed(t, n, pid)
  /\ \A m \in Pids : t[m].kind = "pmt" =>
       \A pid \in t[m].registered : n[pid].by = m => n[pid].listed

(* A filter that keeps kind, program and registered PIDs is as good.       *)
LEMMA AlikeServes ==
  ASSUME NEW programs, NEW streams, NEW n, NEW t \in [Pids -> Filter], NEW own \in Pids,
         KeepsRoles(programs, streams, t), Serves(streams, t, n), streams \subseteq Pids,
         NEW g \in Filter, Alike(g, t[own]), g.registered = t[own].registered
  PROVE  LET u == [t EXCEPT ![own] = g] IN
         KeepsRoles(programs, streams, u) /\ Serves(streams, u, n)
<1> DEFINE u == [t EXCEPT ![own] = g]
<1>1. \A pid \in Pids : /\ u[pid].kind = t[pid].kind /\ u[pid].program = t[pid].program
                        /\ u[pid].registered = t[pid].registered
  BY DEF Alike
<1>2. PatPid \in Pids /\ t[PatPid].registered \subseteq Pids
  BY FilterTableAssumption DEF Filter
<1> HIDE DEF u
<1>3. KeepsRoles(programs, streams, u)
  BY <1>1, <1>2 DEF KeepsRoles
<1>4. Serves(streams, u, n)
  BY <1>1, <1>2 DEF Serves, ProgramsServed, StreamServed
<1>5. QED BY <1>3, <1>4 DEF u

(* So is the filter of a PID that had none.                                *)
LEMMA FoundServes ==
  ASSUME NEW programs, NEW streams, NEW n, NEW t \in [Pids -> Filter], NEW own \in Pids,
         KeepsRoles(programs, streams, t), Serves(streams, t, n), streams \subseteq Pids,
         PatPid \notin streams, t[own] = NoFilter
  PROVE  LET u == [t EXCEPT ![own] = ByPid(own)] IN
         KeepsRoles(programs, streams, u) /\ Serves(streams, u, n)
<1> DEFINE g == ByPid(own)
           u == [t EXCEPT ![own] = g]
<1>1. /\ g.kind = IF own = PatPid THEN "pat" ELSE "null"
      /\ g.registered = {}
  BY NewFields DEF ByPid
<1>2. t[own].kind = "none"
  BY DEF NoFilter, New
<1>3. PatPid \in Pids /\ t[PatPid].registered \subseteq Pids
  BY FilterTableAssumption DEF Filter
<1> HIDE DEF g
<1>4. u[own] = g /\ \A pid \in Pids : pid # own => u[pid] = t[pid]
  OBVIOUS
<1> HIDE DEF u
<1>5. KeepsRoles(programs, streams, u)
  BY <1>1, <1>3, <1>4 DEF KeepsRoles
<1>6. ProgramsServed(u)
  BY <1>1, <1>2, <1>3, <1>4 DEF Serves, ProgramsServed
<1>7. \A pid \in streams : StreamServed(u, n, pid)
  BY <1>1, <1>2, <1>4 DEF Serves, StreamServed
<1>8. \A m \in Pids : u[m].kind = "pmt" =>
        \A pid \in u[m].registered : n[pid].by = m => n[pid].listed
  BY <1>1, <1>4 DEF Serves
<1>9. QED BY <1>5, <1>6, <1>7, <1>8 DEF Serves, u, g

(* The last mention of a PID after a section s of the filter t[own].       *)
MentionAfter(t, n, own, s) ==
  IF t[own].kind = "pmt" /\ Accepts(t[own], s)
  THEN [pid \in Pids |-> IF pid \in PidsSeen(s) THEN Mention(own, TRUE)
                         ELSE IF pid \in t[own].registered THEN Mention(own, FALSE)
                         ELSE n[pid]]
  ELSE n

SectionTable(t, own, s) ==
  Applied([t EXCEPT ![own] = AfterSection(t[own], s)], Changes(t[own], s, own))

LEMMA PatServes ==
  ASSUME NEW m, NEW programs \in SUBSET Pids, NEW streams \in SUBSET Pids, NEW n,
         NEW t \in [Pids -> Filter], InRoles(m, programs, streams),
         KeepsRoles(programs, streams, t), Serves(streams, t, n),
         NEW s \in Carried(m, PatPid), s # Damage, s \in Section,
         t[PatPid].kind = "pat", Accepts(t[PatPid], s)
  PROVE  LET u == SectionTable(t, PatPid, s) IN
         KeepsRoles(programs, streams, u) /\ Serves(streams, u, n)
<1> DEFINE f == t[PatPid]
           g == AfterSection(f, s)
           x == [t EXCEPT ![PatPid] = g]
           u == Applied(x, Changes(f, s, PatPid))
<1>0. PatPid \in Pids /\ f \in Filter
  BY FilterTableAssumption
<1>1. g \in Filter /\ g.kind = "pat" /\ g.registered = PidsSeen(s)
  BY <1>0, FiltersAlike DEF Alike
<1>2. /\ \A i \in DOMAIN s.entries :
           s.entries[i].pid \in programs /\ s.entries[i].kind \in {"pmt", "null"}
      /\ PidsSeen(s) \subseteq programs
  <2>1. s.valid /\ s.table_id = "pat"
    BY DEF Accepts
  <2>2. \A i \in DOMAIN s.entries :
          s.entries[i].pid \in programs /\ s.entries[i].kind \in {"pmt", "null"}
    BY <2>1 DEF InRoles
  <2>3. QED BY <2>2 DEF PidsSeen
<1>3. /\ PatPid \notin programs /\ PatPid \notin streams
      /\ \A pid \in streams : pid \notin programs
      /\ f.registered \subseteq programs
  BY DEF InRoles, KeepsRoles
<1>4. x \in [Pids -> Filter] /\ x[PatPid] = g /\ \A pid \in Pids : pid # PatPid => x[pid] = t[pid]
  BY <1>0, <1>1
<1> HIDE DEF f, g, x
<1>5. \A pid \in Pids :
        /\ pid \in PidsSeen(s) =>
             u[pid].kind \in {"pmt", "null"} /\ u[pid].registered = {}
        /\ pid \in f.registered \ PidsSeen(s) => u[pid] = NoFilter
        /\ pid \notin PidsSeen(s) \union f.registered => u[pid] = x[pid]
  <2>1. TAKE pid \in Pids
  <2>2. Accepts(f, s)
    BY DEF f
  <2>3. CASE pid \in PidsSeen(s)
    <3>1. PICK i \in DOMAIN s.entries : u[pid] = New(s.entries[i].kind, PatPid)
      BY <1>0, <1>4, <2>2, <2>3, SectionApplied
    <3>2. s.entries[i].kind \in {"pmt", "null"}
      BY <1>2
    <3>3. u[pid].kind = s.entries[i].kind /\ u[pid].registered = {}
      BY <3>1 DEF New
    <3>4. QED BY <2>3, <3>2, <3>3
  <2>4. CASE pid \notin PidsSeen(s)
    BY <1>0, <1>4, <2>2, <2>4, SectionApplied
  <2>5. QED BY <2>3, <2>4
<1> HIDE DEF u
<1>6. NoFilter.kind = "none" /\ NoFilter.registered = {}
  BY NewFields DEF NoFilter
<1>7. u[PatPid] = g
  BY <1>0, <1>2, <1>3, <1>4, <1>5
<1>8. \A pid \in Pids : pid \notin programs => u[pid] = x[pid]
  BY <1>2, <1>3, <1>5
<1>9. KeepsRoles(programs, streams, u)
  <2>1. u[PatPid].registered \subseteq programs
    BY <1>1, <1>2, <1>7
  <2>2. ASSUME NEW pid \in Pids
        PROVE  /\ u[pid].kind = "pat" => pid = PatPid
               /\ u[pid].kind = "pmt" => pid \in programs /\ u[pid].registered \subseteq streams
    <3>1. CASE pid = PatPid
      BY <1>1, <1>7, <3>1
    <3>2. CASE pid # PatPid /\ pid \in PidsSeen(s)
      BY <1>2, <1>5, <3>2
    <3>3. CASE pid # PatPid /\ pid \in f.registered \ PidsSeen(s)
      BY <1>5, <1>6, <3>3
    <3>4. CASE pid # PatPid /\ pid \notin PidsSeen(s) \union f.registered
      BY <1>4, <1>5, <3>4 DEF KeepsRoles
    <3>5. QED BY <3>1, <3>2, <3>3, <3>4
  <2>3. QED BY <2>1, <2>2 DEF KeepsRoles
<1>10. ProgramsServed(u)
  BY <1>1, <1>2, <1>5, <1>7 DEF ProgramsServed
<1>11. \A pid \in streams : StreamServed(u, n, pid)
  <2>1. \A pid \in streams : u[pid] = t[pid]
    BY <1>3, <1>4, <1>8
  <2>2. QED BY <2>1 DEF Serves, StreamServed
<1>12. ASSUME NEW p \in Pids, u[p].kind = "pmt", NEW pid \in u[p].registered, n[pid].by = p
       PROVE  n[pid].listed
  <2>1. p # PatPid
    BY <1>1, <1>7, <1>12
  <2>2. p \notin PidsSeen(s) /\ p \notin f.registered \ PidsSeen(s)
    BY <1>5, <1>6, <1>12
  <2>3. u[p] = t[p]
    BY <1>4, <1>5, <2>1, <2>2
  <2>4. QED BY <1>12, <2>3 DEF Serves
<1>13. QED BY <1>9, <1>10, <1>11, <1>12 DEF Serves, u, x, g, f, SectionTable

(* A PMT touches slots of streams only.                                    *)
LEMMA PmtServes ==
  ASSUME NEW m, NEW programs \in SUBSET Pids, NEW streams \in SUBSET Pids, NEW n,
         NEW t \in [Pids -> Filter], InRoles(m, programs, streams),
         KeepsRoles(programs, streams, t), Serves(streams, t, n),
         NEW own \in Pids, NEW s \in Carried(m, own), s # Damage, s \in Section,
         t[own].kind = "pmt", Accepts(t[own], s)
  PROVE  LET u == SectionTable(t, own, s) IN
         KeepsRoles(programs, streams, u) /\ Serves(streams, u, MentionAfter(t, n, own, s))
<1> DEFINE f == t[own]
           g == AfterSection(f, s)
           x == [t EXCEPT ![own] = g]
           u == Applied(x, Changes(f, s, own))
           k == MentionAfter(t, n, own, s)
<1>0. f \in Filter /\ own \in programs /\ PatPid \in Pids
  BY FilterTableAssumption DEF KeepsRoles
<1>1. g \in Filter /\ g.kind = "pmt" /\ g.registered = PidsSeen(s)
  BY <1>0, FiltersAlike DEF Alike
<1>2. /\ \A i \in DOMAIN s.entries :
           s.entries[i].pid \in streams /\ s.entries[i].kind \in {"stream", "null"}
      /\ PidsSeen(s) \subseteq streams
  <2>1. s.valid /\ s.table_id = "pmt"
    BY DEF Accepts
  <2>2. \A i \in DOMAIN s.entries :
          s.entries[i].pid \in streams /\ s.entries[i].kind \in {"stream", "null"}
    BY <1>0, <2>1 DEF InRoles
  <2>3. QED BY <2>2 DEF PidsSeen
<1>3. /\ PatPid \notin programs /\ PatPid \notin streams
      /\ \A pid \in streams : pid \notin programs
      /\ f.registered \subseteq streams
  BY DEF InRoles, KeepsRoles
<1>4. x \in [Pids -> Filter] /\ x[own] = g /\ \A pid \in Pids : pid # own => x[pid] = t[pid]
  BY <1>0, <1>1
<1>5. \A pid \in Pids :
        k[pid] = IF pid \in PidsSeen(s) THEN Mention(own, TRUE)
                 ELSE IF pid \in f.registered THEN Mention(own, FALSE)
                 ELSE n[pid]
  BY DEF MentionAfter
<1> HIDE DEF f, g, x, k
<1>6. \A pid \in Pids :
        /\ pid \in PidsSeen(s) =>
             /\ u[pid].kind \in {"stream", "null"} /\ u[pid].registered = {}
             /\ u[pid].program = own
        /\ pid \in f.registered \ PidsSeen(s) => u[pid] = NoFilter
        /\ pid \notin PidsSeen(s) \union f.registered => u[pid] = x[pid]
  <2>1. TAKE pid \in Pids
  <2>2. Accepts(f, s)
    BY DEF f
  <2>3. CASE pid \in PidsSeen(s)
    <3>1. PICK i \in DOMAIN s.entries : u[pid] = New(s.entries[i].kind, own)
      BY <1>0, <1>4, <2>2, <2>3, SectionApplied
    <3>2. s.entries[i].kind \in {"stream", "null"}
      BY <1>2
    <3>3. /\ u[pid].kind = s.entries[i].kind /\ u[pid].registered = {}
          /\ u[pid].program = own
      BY <3>1 DEF New
    <3>4. QED BY <2>3, <3>2, <3>3
  <2>4. CASE pid \notin PidsSeen(s)
    BY <1>0, <1>4, <2>2, <2>4, SectionApplied
  <2>5. QED BY <2>3, <2>4
<1> HIDE DEF u
<1>7. NoFilter.kind = "none" /\ NoFilter.registered = {}
  BY DEF NoFilter, New
<1>8. \A pid \in Pids : pid \notin streams => u[pid] = x[pid]
  BY <1>2, <1>3, <1>6
<1>9. u[own] = g /\ u[PatPid] = t[PatPid]
  BY <1>0, <1>3, <1>4, <1>8
<1>10. KeepsRoles(programs, streams, u)
  <2>1. u[PatPid].registered \subseteq programs
    BY <1>9 DEF KeepsRoles
  <2>2. ASSUME NEW pid \in Pids
        PROVE  /\ u[pid].kind = "pat" => pid = PatPid
               /\ u[pid].kind = "pmt" => pid \in programs /\ u[pid].registered \subseteq streams
    <3>1. CASE pid = own
      BY <1>0, <1>1, <1>2, <1>9, <3>1
    <3>2. CASE pid # own /\ pid \in PidsSeen(s)
      BY <1>6, <3>2
    <3>3. CASE pid # own /\ pid \in f.registered \ PidsSeen(s)
      BY <1>6, <1>7, <3>3
    <3>4. CASE pid # own /\ pid \notin PidsSeen(s) \union f.registered
      BY <1>4, <1>6, <3>4 DEF KeepsRoles
    <3>5. QED BY <3>1, <3>2, <3>3, <3>4
  <2>3. QED BY <2>1, <2>2 DEF KeepsRoles
<1>11. ProgramsServed(u)
  <2>1. \A pid \in u[PatPid].registered : pid \in programs /\ t[pid].kind \in {"pmt", "null"}
    BY <1>9 DEF Serves, ProgramsServed, KeepsRoles
  <2>2. \A pid \in programs : u[pid].kind = t[pid].kind
    BY <1>1, <1>3, <1>4, <1>8 DEF f
  <2>3. QED BY <2>1, <2>2 DEF ProgramsServed
<1>12. ASSUME NEW pid \in streams PROVE StreamServed(u, k, pid)
  <2>1. pid \in Pids /\ pid # own
    BY <1>0, <1>3
  <2>2. CASE pid \in PidsSeen(s)
    BY <1>5, <1>6, <2>1, <2>2 DEF StreamServed, Mention
  <2>3. CASE pid \in f.registered \ PidsSeen(s)
    BY <1>5, <1>6, <1>7, <2>1, <2>3 DEF StreamServed, Mention
  <2>4. CASE pid \notin PidsSeen(s) \union f.registered
    <3>1. u[pid] = t[pid] /\ k[pid] = n[pid]
      BY <1>4, <1>5, <1>6, <2>1, <2>4
    <3>2. QED BY <3>1 DEF StreamServed, Serves
  <2>5. QED BY <2>2, <2>3, <2>4
<1>13. ASSUME NEW p \in Pids, u[p].kind = "pmt", NEW pid \in u[p].registered, k[pid].by = p
       PROVE  k[pid].listed
  <2>1. CASE p = own
    <3>1. pid \in PidsSeen(s) /\ pid \in Pids
      BY <1>1, <1>2, <1>9, <2>1
    <3>2. QED BY <1>5, <3>1 DEF Mention
  <2>2. CASE p # own
    <3>1. p \notin PidsSeen(s) /\ p \notin f.registered \ PidsSeen(s)
      BY <1>6, <1>7, <1>13
    <3>2. u[p] = t[p]
      BY <1>4, <1>6, <2>2, <3>1
    <3>3. pid \in t[p].registered /\ t[p].kind = "pmt" /\ pid \in Pids
      BY <1>13, <3>2 DEF Filter
    <3>4. k[pid] = n[pid]
      BY <1>5, <1>13, <2>2, <3>3 DEF Mention
    <3>5. QED BY <1>13, <3>3, <3>4 DEF Serves
  <2>3. QED BY <2>1, <2>2
<1>14. QED BY <1>10, <1>11, <1>12, <1>13 DEF Serves, u, x, g, f, k, SectionTable

(* Any section.                                                            *)
LEMMA SectionServes ==
  ASSUME NEW m, NEW programs \in SUBSET Pids, NEW streams \in SUBSET Pids, NEW n,
         NEW t \in [Pids -> Filter], InRoles(m, programs, streams),
         KeepsRoles(programs, streams, t), Serves(streams, t, n),
         NEW own \in Pids, NEW s \in Carried(m, own), s # Damage, s \in Section
  PROVE  LET u == SectionTable(t, own, s) IN
         KeepsRoles(programs, streams, u) /\ Serves(streams, u, MentionAfter(t, n, own, s))
<1>1. CASE Accepts(t[own], s)
  <2>1. CASE t[own].kind = "pat"
    <3>1. own = PatPid
      BY <2>1 DEF KeepsRoles
    <3>2. MentionAfter(t, n, own, s) = n
      BY <2>1 DEF MentionAfter
    <3>3. QED BY <1>1, <2>1, <3>1, <3>2, PatServes
  <2>2. CASE t[own].kind = "pmt"
    BY <1>1, <2>2, PmtServes
  <2>3. t[own].kind \in {"pat", "pmt"}
    BY <1>1 DEF Accepts, Passes, HasTables
  <2>4. QED BY <2>1, <2>2, <2>3
<1>2. CASE ~Accepts(t[own], s)
  <2> DEFINE g == AfterSection(t[own], s)
             x == [t EXCEPT ![own] = g]
  <2>1. g \in Filter /\ Alike(g, t[own]) /\ g.registered = t[own].registered
    BY <1>2, FiltersAlike
  <2>2. Changes(t[own], s, own) = <<>>
    BY <1>2 DEF Changes
  <2>3. x \in [Pids -> Filter]
    BY <2>1
  <2>4. SectionTable(t, own, s) = x
    BY <2>2, <2>3, AppliedNothing DEF SectionTable
  <2>5. MentionAfter(t, n, own, s) = n
    BY <1>2 DEF MentionAfter
  <2>6. streams \subseteq Pids
    OBVIOUS
  <2> HIDE DEF g
  <2>7. KeepsRoles(programs, streams, x) /\ Serves(streams, x, n)
    BY <2>1, <2>6, AlikeServes
  <2>8. QED BY <2>4, <2>5, <2>7
<1>3. QED BY <1>1, <1>2

-----------------------------------------------------------------------------
(* The steps of DemuxStream, seen on Routing's table.                      *)

(* What is in hand was carried by the multiplex.                           *)
CarriedInv ==
  \A i \in DOMAIN pk.sections : pk.sections[i] \in Carried(multiplex, pk.pid)

Rests == UNCHANGED <<Effective, mention>>

Finds(own) ==
  /\ Effective[own] = NoFilter
  /\ Effective' = [Effective EXCEPT ![own] = ByPid(own)]
  /\ mention' = mention

Consumes(own) ==
  /\ Effective[own] # NoFilter
  /\ Effective' = [Effective EXCEPT ![own] = Touch(Effective[own])]
  /\ mention' = mention

Resets(own) ==
  /\ Damage \in Carried(multiplex, own)
  /\ Effective' = [Effective EXCEPT ![own] = AfterDamage(Effective[own])]
  /\ mention' = mention

Handles(own, s) ==
  /\ s # Damage /\ s \in Section /\ s \in Carried(multiplex, own)
  /\ Effective[own] # NoFilter
  /\ Effective' = SectionTable(Effective, own, s)
  /\ mention' = MentionAfter(Effective, mention, own, s)

Moves == Rests \/ \E own \in Pids :
                    Finds(own) \/ Consumes(own) \/ Resets(own) \/ \E s : Handles(own, s)

LEMMA CarriedByPacket ==
  ASSUME NEW m, NEW p \in m, NEW i \in DOMAIN p.sections
  PROVE  p.sections[i] \in Carried(m, p.pid)
BY DEF Carried

LEMMA CarriedStep ==
  ASSUME RoutingInv, CarriedInv, StreamNext
  PROVE  CarriedInv'
<1>1. multiplex' = multiplex /\ ((\E p \in Packets : Receive(p)) \/ Work)
  BY DEF StreamNext
<1>2. ASSUME NEW p \in Packets, Receive(p) PROVE CarriedInv'
  <2>1. p \in multiplex /\ pk' = p
    BY <1>2 DEF Receive, Meet, Push, NextPacket
  <2>2. QED BY <1>1, <2>1, CarriedByPacket DEF CarriedInv
<1>3. CASE ParseSection
  <2>1. pk \in PacketType /\ pk' = [pk EXCEPT !.sections = Tail(@)] /\ pk.sections # <<>>
    BY <1>3 DEF ParseSection, RoutingInv, LiveInv, TypeOK
  <2>2. /\ pk.sections \in Seq(Section \union {Damage})
        /\ pk'.sections = Tail(pk.sections) /\ pk'.pid = pk.pid
    BY <2>1 DEF PacketType
  <2>3. \A i \in DOMAIN Tail(pk.sections) :
          i + 1 \in DOMAIN pk.sections /\ Tail(pk.sections)[i] = pk.sections[i + 1]
    BY <2>1, <2>2, HeadTailProperties, LenProperties
  <2>4. QED BY <1>1, <2>2, <2>3 DEF CarriedInv
<1>4. CASE pk' = NoPacket
  BY <1>4 DEF CarriedInv, NoPacket
<1>5. CASE pk' = pk
  BY <1>1, <1>5 DEF CarriedInv
<1>6. QED BY <1>1, <1>2, <1>3, <1>4, <1>5
      DEF Work, Lookup, DropPacket, Consume, Consumed, Return

LEMMA StepMoves ==
  ASSUME RoutingInv, CarriedInv, StreamNext, NoSelfListing, AppChanges = {<<>>}
  PROVE  Moves
<1>1. /\ table \in [Pids -> Filter] /\ changeset \in Seq(Change) /\ this_pid \in Pids
      /\ pk.pid \in Pids
  BY DEF RoutingInv, LiveInv, TypeOK, PacketType
<1>2. Next
  BY DEF StreamNext, Receive, Next
<1>3. table' \in [Pids -> Filter] /\ changeset' \in Seq(Change)
  BY <1>2, LiveStep DEF RoutingInv, LiveInv, TypeOK
<1>4. /\ changeset = <<>> => Effective = table
      /\ changeset' = <<>> => Effective' = table'
  BY <1>1, <1>3, AppliedNothing DEF Effective
<1>5. pc # "consume" \/ pk.sections = <<>> => mention' = mention
  BY DEF StreamNext, Mentioned
<1>6. CASE Lookup
  <2>1. changeset = <<>> /\ changeset' = <<>> /\ mention' = mention
    BY <1>5, <1>6, ConcatEmptySeq, EmptySeq DEF Lookup, RoutingInv, QueueInv
  <2>2. CASE Contains(pk.pid)
    BY <1>4, <1>6, <2>1, <2>2 DEF Lookup, Moves, Rests
  <2>3. CASE ~Contains(pk.pid)
    <3>1. Finds(pk.pid)
      BY <1>4, <1>6, <2>1, <2>3 DEF Lookup, Contains, Finds
    <3>2. QED BY <1>1, <3>1 DEF Moves
  <2>4. QED BY <2>2, <2>3
<1>7. CASE Consume
  <2>1. /\ changeset = <<>> /\ changeset' = <<>> /\ table[this_pid] # NoFilter
        /\ mention' = mention
    BY <1>5, <1>7 DEF Consume, RoutingInv, QueueInv, LiveInv, ReferenceIsLive, Contains
  <2>2. Consumes(this_pid)
    BY <1>4, <1>7, <2>1 DEF Consume, Consumes
  <2>3. QED BY <1>1, <2>2 DEF Moves
<1>8. CASE ParseSection
  <2> DEFINE s == Head(pk.sections)
             f == table[this_pid]
  <2>1. /\ f # NoFilter /\ Effective[this_pid] = f
        /\ s = Damage => Effective' = [Effective EXCEPT ![this_pid] = AfterDamage(f)]
        /\ s # Damage =>
             /\ s \in Section
             /\ Effective' = Applied([Effective EXCEPT ![this_pid] = AfterSection(f, s)],
                                    Changes(f, s, this_pid))
    BY <1>3, <1>8, EffectiveParse
  <2>2. s \in Carried(multiplex, this_pid)
    <3>1. pk.sections \in Seq(Section \union {Damage}) /\ pk.sections # <<>>
      BY <1>8 DEF ParseSection, RoutingInv, LiveInv, TypeOK, PacketType
    <3>2. 1 \in DOMAIN pk.sections /\ s = pk.sections[1]
      BY <3>1, LenProperties, EmptySeq
    <3>3. this_pid = pk.pid
      BY <1>8, ParsedSection
    <3>4. QED BY <3>2, <3>3 DEF CarriedInv
  <2>3. mention' = IF s = Damage \/ f.kind # "pmt" THEN mention
                   ELSE IF ~Accepts(f, s) THEN mention
                   ELSE [pid \in Pids |->
                           IF pid \in PidsSeen(s) THEN Mention(this_pid, TRUE)
                           ELSE IF pid \in f.registered THEN Mention(this_pid, FALSE)
                           ELSE mention[pid]]
    BY <1>8 DEF ParseSection, StreamNext, Mentioned
  <2> HIDE DEF f, s
  <2>4. CASE s = Damage
    <3>1. Resets(this_pid)
      BY <2>1, <2>2, <2>3, <2>4 DEF Resets
    <3>2. QED BY <1>1, <3>1 DEF Moves
  <2>5. CASE s # Damage
    <3>1. mention' = MentionAfter(Effective, mention, this_pid, s)
      <4>1. CASE f.kind = "pmt" /\ Accepts(f, s)
        BY <2>1, <2>3, <2>5, <4>1 DEF MentionAfter
      <4>2. CASE ~(f.kind = "pmt" /\ Accepts(f, s))
        BY <2>1, <2>3, <4>2 DEF MentionAfter
      <4>3. QED BY <4>1, <4>2
    <3>2. Handles(this_pid, s)
      BY <2>1, <2>2, <2>5, <3>1 DEF Handles, SectionTable
    <3>3. QED BY <1>1, <3>2 DEF Moves
  <2>6. QED BY <2>4, <2>5
<1>9. CASE Consumed
  <2>1. changeset' = <<>> /\ mention' = mention
    BY <1>5, <1>9 DEF Consumed
  <2>2. table' = Effective
    BY <1>4, <1>9 DEF Consumed, Effective
  <2>3. QED BY <1>4, <2>1, <2>2 DEF Moves, Rests
<1>10. CASE UNCHANGED <<table, changeset>> /\ pc # "consume"
  <2>1. UNCHANGED Effective
    BY <1>10 DEF Effective
  <2>2. QED BY <1>5, <1>10, <2>1 DEF Moves, Rests
<1>11. QED BY <1>2, <1>6, <1>7, <1>8, <1>9, <1>10
       DEF Next, Meet, Work, Push, NextPacket, DropPacket, Return

-----------------------------------------------------------------------------
(* What is registered, is served.                                          *)

RolesInv(programs, streams) ==
  /\ InRoles(multiplex, programs, streams)
  /\ KeepsRoles(programs, streams, Effective)
  /\ Serves(streams, Effective, mention)

StreamInv ==
  /\ RoutingInv
  /\ CarriedInv
  /\ \E programs, streams \in SUBSET Pids : RolesInv(programs, streams)

LEMMA MovesKeepRoles ==
  ASSUME Effective \in [Pids -> Filter], Moves, multiplex' = multiplex,
         NEW programs \in SUBSET Pids, NEW streams \in SUBSET Pids,
         RolesInv(programs, streams)
  PROVE  RolesInv(programs, streams)'
<1> DEFINE t == Effective
<1>1. /\ InRoles(multiplex, programs, streams)
      /\ KeepsRoles(programs, streams, t) /\ Serves(streams, t, mention)
      /\ PatPid \notin streams /\ streams \subseteq Pids
  BY DEF RolesInv, InRoles
<1> SUFFICES KeepsRoles(programs, streams, t') /\ Serves(streams, t', mention')
  BY <1>1 DEF RolesInv, InRoles, KeepsRoles, Serves, ProgramsServed, StreamServed, Carried
<1>2. t \in [Pids -> Filter]
  OBVIOUS
<1>3. CASE Rests
  BY <1>1, <1>3 DEF Rests
<1>4. ASSUME NEW own \in Pids, Finds(own)
      PROVE  KeepsRoles(programs, streams, t') /\ Serves(streams, t', mention')
  <2>1. t[own] = NoFilter /\ t' = [t EXCEPT ![own] = ByPid(own)] /\ mention' = mention
    BY <1>4 DEF Finds
  <2> HIDE DEF t
  <2>2. QED BY <1>1, <1>2, <2>1, FoundServes
<1>5. ASSUME NEW own \in Pids, Consumes(own)
      PROVE  KeepsRoles(programs, streams, t') /\ Serves(streams, t', mention')
  <2>1. t' = [t EXCEPT ![own] = Touch(t[own])] /\ mention' = mention
    BY <1>5 DEF Consumes
  <2> HIDE DEF t
  <2>2. /\ Touch(t[own]) \in Filter /\ Alike(Touch(t[own]), t[own])
        /\ Touch(t[own]).registered = t[own].registered
    BY <1>2, FiltersAlike
  <2>3. QED BY <1>1, <1>2, <2>1, <2>2, AlikeServes
<1>6. ASSUME NEW own \in Pids, Resets(own)
      PROVE  KeepsRoles(programs, streams, t') /\ Serves(streams, t', mention')
  <2>1. t' = [t EXCEPT ![own] = AfterDamage(t[own])] /\ mention' = mention
    BY <1>6 DEF Resets
  <2> HIDE DEF t
  <2>2. /\ AfterDamage(t[own]) \in Filter /\ Alike(AfterDamage(t[own]), t[own])
        /\ AfterDamage(t[own]).registered = t[own].registered
    BY <1>2, FiltersAlike
  <2>3. QED BY <1>1, <1>2, <2>1, <2>2, AlikeServes
<1>7. ASSUME NEW own \in Pids, NEW s, Handles(own, s)
      PROVE  KeepsRoles(programs, streams, t') /\ Serves(streams, t', mention')
  <2>1. /\ s # Damage /\ s \in Section /\ s \in Carried(multiplex, own)
        /\ t' = SectionTable(t, own, s) /\ mention' = MentionAfter(t, mention, own, s)
    BY <1>7 DEF Handles
  <2> HIDE DEF t
  <2>2. QED BY <1>1, <1>2, <2>1, SectionServes
<1>8. QED BY <1>3, <1>4, <1>5, <1>6, <1>7 DEF Moves

LEMMA StreamInvInit ==
  ASSUME StreamInit, NoSelfListing, AppChanges = {<<>>}
  PROVE  StreamInv
<1>1. RoutingInv
  BY RoutingInvInit DEF StreamInit
<1>2. CarriedInv
  BY DEF StreamInit, Init, CarriedInv, NoPacket
<1>3. PICK programs, streams \in SUBSET Pids : InRoles(multiplex, programs, streams)
  BY RolesAssumption DEF StreamInit
<1>4. Effective = table
  BY <1>1, AppliedNothing DEF Effective, StreamInit, Init, RoutingInv, LiveInv, TypeOK
<1>5. \A pid \in Pids :
        /\ table[pid].registered = {}
        /\ table[pid].kind = IF pid = PatPid THEN "pat" ELSE "none"
        /\ mention[pid].listed = FALSE
  BY DEF StreamInit, Init, ByPid, NoFilter, New, Mention
<1>6. PatPid \in Pids /\ PatPid \notin streams
  BY <1>3, FilterTableAssumption DEF InRoles
<1>7. RolesInv(programs, streams)
  BY <1>3, <1>4, <1>5, <1>6 DEF RolesInv, KeepsRoles, Serves, ProgramsServed, StreamServed
<1>8. QED BY <1>1, <1>2, <1>7 DEF StreamInv

LEMMA StreamInvStep ==
  ASSUME StreamInv, [StreamNext]_streamVars, NoSelfListing, AppChanges = {<<>>}
  PROVE  StreamInv'
<1>1. PICK programs, streams \in SUBSET Pids : RolesInv(programs, streams)
  BY DEF StreamInv
<1>2. CASE StreamNext
  <2>1. RoutingInv'
    BY <1>2, RoutingInvStep DEF StreamInv, StreamNext, Next, Receive
  <2>2. CarriedInv'
    BY <1>2, CarriedStep DEF StreamInv
  <2>3. Moves
    BY <1>2, StepMoves DEF StreamInv
  <2>4. Effective \in [Pids -> Filter]
    BY AppliedType DEF Effective, StreamInv, RoutingInv, LiveInv, TypeOK
  <2>5. RolesInv(programs, streams)'
    BY <1>1, <1>2, <2>3, <2>4, MovesKeepRoles DEF StreamNext
  <2>6. QED BY <2>1, <2>2, <2>5 DEF StreamInv
<1>3. CASE UNCHANGED streamVars
  <2>1. RoutingInv'
    BY <1>3, RoutingInvStep DEF StreamInv, streamVars
  <2>2. UNCHANGED <<pk, multiplex, mention, Effective>>
    BY <1>3 DEF streamVars, vars, Effective
  <2>3. CarriedInv'
    BY <2>2 DEF StreamInv, CarriedInv
  <2>4. RolesInv(programs, streams)'
    BY <1>1, <2>2 DEF RolesInv
  <2>5. QED BY <2>1, <2>3, <2>4 DEF StreamInv
<1>4. QED BY <1>2, <1>3

LEMMA StreamInvariant ==
  ASSUME NoSelfListing, AppChanges = {<<>>}
  PROVE  StreamSpec => []StreamInv
<1>1. StreamInit => StreamInv
  BY StreamInvInit
<1>2. StreamInv /\ [StreamNext]_streamVars => StreamInv'
  BY StreamInvStep
<1>3. QED BY <1>1, <1>2, PTL DEF StreamSpec

(* Between two packets, every program that the last PAT lists has its      *)
(* filter, and every stream the one of the program whose PMT listed it     *)
(* last, unless that one or another has withdrawn it since: no change of a *)
(* table is lost, and none comes in the wrong order.                       *)
THEOREM RegisteredServed ==
  ASSUME NoSelfListing, AppChanges = {<<>>}
  PROVE  StreamSpec => []RegisteredAreServed
<1>1. StreamInv => RegisteredAreServed
  <2> SUFFICES ASSUME StreamInv, Settled PROVE RegisteredAreServed
    BY DEF RegisteredAreServed
  <2>1. PICK programs, streams \in SUBSET Pids : RolesInv(programs, streams)
    BY DEF StreamInv
  <2>2. Effective = table
    BY AppliedNothing DEF Effective, Settled, StreamInv, RoutingInv, QueueInv, LiveInv, TypeOK
  <2>3. KeepsRoles(programs, streams, table) /\ Serves(streams, table, mention)
    BY <2>1, <2>2 DEF RolesInv
  <2>4. QED BY <2>3
        DEF RegisteredAreServed, KeepsRoles, Serves, ProgramsServed, StreamServed
<1>2. QED BY <1>1, StreamInvariant, PTL

-----------------------------------------------------------------------------
(* While the tables stay the same.                                         *)

(* A program whose table is in force lists the PID.                        *)
ListedIn(m, t, pid) ==
  \E p \in Pids : /\ t[p].kind = "pmt" /\ t[p].version # NoVersion
                  /\ \E s \in Carried(m, p) : pid \in PidsSeen(s)

(* A filter that has seen its table knows its version, so that it ignores  *)
(* the copies; who has registered PIDs, has seen a table; and filters for  *)
(* programs and streams are there because such a table lists them.         *)
SteadyFilters(m, t) ==
  \A pid \in Pids :
    /\ t[pid].version # NoVersion => \A s \in Carried(m, pid) : s.version = t[pid].version
    /\ t[pid].registered # {} => t[pid].version # NoVersion
    /\ t[pid].kind = "pmt" => t[PatPid].version # NoVersion
    /\ t[pid].kind = "stream" => ListedIn(m, t, pid)
    /\ t[pid].used => t[pid].kind = "stream"

KeepsUsed(t, u) == \A pid \in Pids : t[pid].used => u[pid].used

SteadyInv ==
  Steady(multiplex) => SteadyFilters(multiplex, Effective) /\ KeepsUsed(table, Effective)

(* The same filter, or one that has seen its table for the first time.     *)
LEMMA AlikeKeeps ==
  ASSUME NEW m, NEW t \in [Pids -> Filter], NEW own \in Pids, NEW g \in Filter,
         SteadyFilters(m, t), Alike(g, t[own]), g.registered = t[own].registered,
         t[own].used => g.used, g.used => g.kind = "stream",
         \/ g.version = t[own].version
         \/ g.version # NoVersion /\ \A s \in Carried(m, own) : s.version = g.version
  PROVE  LET u == [t EXCEPT ![own] = g] IN
         SteadyFilters(m, u) /\ KeepsUsed(t, u)
<1> DEFINE u == [t EXCEPT ![own] = g]
<1>1. /\ u[own] = g /\ g.kind = t[own].kind
      /\ \A pid \in Pids : pid # own => u[pid] = t[pid]
  BY DEF Alike
<1>2. PatPid \in Pids
  BY FilterTableAssumption
<1> HIDE DEF u
<1>3. \A pid \in Pids : /\ u[pid].kind = t[pid].kind
                        /\ u[pid].registered = t[pid].registered
                        /\ t[pid].version # NoVersion => u[pid].version # NoVersion
  BY <1>1
<1>4. \A pid \in Pids : ListedIn(m, t, pid) => ListedIn(m, u, pid)
  BY <1>3 DEF ListedIn
<1>5. ASSUME NEW pid \in Pids
      PROVE  /\ u[pid].version # NoVersion =>
                  \A s \in Carried(m, pid) : s.version = u[pid].version
             /\ u[pid].registered # {} => u[pid].version # NoVersion
             /\ u[pid].kind = "pmt" => u[PatPid].version # NoVersion
             /\ u[pid].kind = "stream" => ListedIn(m, u, pid)
             /\ u[pid].used => u[pid].kind = "stream"
  <2>1. u[pid].version # NoVersion => \A s \in Carried(m, pid) : s.version = u[pid].version
    BY <1>1 DEF SteadyFilters
  <2>2. /\ u[pid].registered # {} => u[pid].version # NoVersion
        /\ u[pid].kind = "pmt" => u[PatPid].version # NoVersion
        /\ u[pid].kind = "stream" => ListedIn(m, u, pid)
    BY <1>2, <1>3, <1>4 DEF SteadyFilters
  <2>3. u[pid].used => u[pid].kind = "stream"
    BY <1>1 DEF SteadyFilters
  <2>4. QED BY <2>1, <2>2, <2>3
<1>6. KeepsUsed(t, u)
  BY <1>1 DEF KeepsUsed
<1>7. QED BY <1>5, <1>6 DEF SteadyFilters, u

LEMMA FoundKeeps ==
  ASSUME NEW m, NEW t \in [Pids -> Filter], NEW own \in Pids,
         SteadyFilters(m, t), t[own] = NoFilter
  PROVE  LET u == [t EXCEPT ![own] = ByPid(own)] IN
         SteadyFilters(m, u) /\ KeepsUsed(t, u)
<1> DEFINE g == ByPid(own)
           u == [t EXCEPT ![own] = g]
<1>1. /\ g.kind \in {"pat", "null"} /\ g.registered = {}
      /\ g.version = NoVersion /\ g.used = FALSE
  BY DEF ByPid, New
<1>2. t[own].kind = "none" /\ t[own].version = NoVersion /\ t[own].used = FALSE
  BY DEF NoFilter, New
<1>3. u[own] = g /\ \A pid \in Pids : pid # own => u[pid] = t[pid]
  OBVIOUS
<1>4. PatPid \in Pids
  BY FilterTableAssumption
<1> HIDE DEF u, g
<1>5. \A pid \in Pids : ListedIn(m, t, pid) => ListedIn(m, u, pid)
  BY <1>2, <1>3 DEF ListedIn
<1>6. ASSUME NEW pid \in Pids
      PROVE  /\ u[pid].version # NoVersion =>
                  \A s \in Carried(m, pid) : s.version = u[pid].version
             /\ u[pid].registered # {} => u[pid].version # NoVersion
             /\ u[pid].kind = "pmt" => u[PatPid].version # NoVersion
             /\ u[pid].kind = "stream" => ListedIn(m, u, pid)
             /\ u[pid].used => u[pid].kind = "stream"
  <2>1. CASE pid = own
    BY <1>1, <1>3, <2>1
  <2>2. CASE pid # own
    <3>1. u[pid] = t[pid]
      BY <1>3, <2>2
    <3>2. t[PatPid].version # NoVersion => u[PatPid] = t[PatPid]
      BY <1>2, <1>3, <1>4
    <3>3. QED BY <1>5, <3>1, <3>2 DEF SteadyFilters
  <2>3. QED BY <2>1, <2>2
<1>7. KeepsUsed(t, u)
  BY <1>2, <1>3 DEF KeepsUsed
<1>8. QED BY <1>6, <1>7 DEF SteadyFilters, u, g

(* A filter accepts the one section of its PID when it sees it first; the  *)
(* slots that this changes are none of a stream that has one already.      *)
LEMMA TableKeeps ==
  ASSUME NEW m, NEW programs \in SUBSET Pids, NEW streams \in SUBSET Pids,
         NEW t \in [Pids -> Filter], InRoles(m, programs, streams),
         KeepsRoles(programs, streams, t), Steady(m), SteadyFilters(m, t),
         NEW own \in Pids, NEW s \in Carried(m, own), s # Damage, s \in Section,
         Accepts(t[own], s)
  PROVE  LET u == SectionTable(t, own, s) IN
         SteadyFilters(m, u) /\ KeepsUsed(t, u)
<1> DEFINE f == t[own]
           g == AfterSection(f, s)
           x == [t EXCEPT ![own] = g]
           u == Applied(x, Changes(f, s, own))
<1>1. /\ PatPid \in Pids /\ f \in Filter /\ Accepts(f, s)
      /\ s.valid /\ f.version # s.version /\ f.kind \in {"pat", "pmt"}
      /\ s.table_id = f.kind
  BY FilterTableAssumption DEF Accepts, Passes, HasTables
<1>2. /\ g \in Filter /\ g.kind = f.kind /\ g.used = f.used
      /\ g.version = s.version /\ g.registered = PidsSeen(s)
  BY <1>1, FiltersAlike DEF Alike, Accepts
<1>3. s.version # NoVersion
  BY FilterTableAssumption DEF Section
<1>4. f.version = NoVersion /\ f.registered = {}
  BY <1>1 DEF SteadyFilters
<1>5. \A v \in Carried(m, own) : v = s
  BY DEF Steady
<1>6. x \in [Pids -> Filter] /\ x[own] = g /\ \A pid \in Pids : pid # own => x[pid] = t[pid]
  BY <1>2
<1>7. /\ own = PatPid => f.kind = "pat"
      /\ f.kind = "pat" => own = PatPid
      /\ f.kind = "pmt" => own \in programs
  BY <1>1 DEF KeepsRoles, InRoles
<1>8. /\ f.kind = "pat" => \A i \in DOMAIN s.entries :
           s.entries[i].pid \in programs /\ s.entries[i].kind \in {"pmt", "null"}
      /\ f.kind = "pmt" => \A i \in DOMAIN s.entries :
           s.entries[i].pid \in streams /\ s.entries[i].kind \in {"stream", "null"}
  BY <1>1, <1>7 DEF InRoles
<1>9. /\ f.kind = "pat" => PidsSeen(s) \subseteq programs
      /\ f.kind = "pmt" => PidsSeen(s) \subseteq streams
  BY <1>8 DEF PidsSeen
<1>10. PatPid \notin programs /\ PatPid \notin streams /\ programs \intersect streams = {}
  BY DEF InRoles
<1>11. own \notin PidsSeen(s)
  BY <1>1, <1>7, <1>9, <1>10
<1>12. ASSUME NEW pid \in Pids, ListedIn(m, t, pid)
       PROVE  pid \notin PidsSeen(s)
  <2>1. PICK p \in Pids : /\ t[p].kind = "pmt" /\ t[p].version # NoVersion
                          /\ \E v \in Carried(m, p) : pid \in PidsSeen(v)
    BY <1>12 DEF ListedIn
  <2>2. PICK v \in Carried(m, p) : pid \in PidsSeen(v)
    BY <2>1
  <2>3. p # own
    BY <1>4, <2>1
  <2>4. PidsSeen(v) \intersect PidsSeen(s) = {}
    BY <2>3 DEF Steady
  <2>5. QED BY <2>2, <2>4
<1>13. \A pid \in Pids : t[pid].kind = "pmt" => pid \in programs
  BY DEF KeepsRoles
<1> HIDE DEF g, x
<1>14. ASSUME NEW pid \in Pids
       PROVE  /\ pid \in PidsSeen(s) =>
                   /\ u[pid].version = NoVersion /\ u[pid].registered = {}
                   /\ u[pid].used = FALSE
                   /\ f.kind = "pat" => u[pid].kind \in {"pmt", "null"}
                   /\ f.kind = "pmt" => u[pid].kind \in {"stream", "null"}
              /\ pid \notin PidsSeen(s) => u[pid] = x[pid]
  <2>1. CASE pid \in PidsSeen(s)
    <3>1. PICK i \in DOMAIN s.entries : u[pid] = New(s.entries[i].kind, own)
      BY <1>1, <1>6, <2>1, SectionApplied
    <3>2. /\ u[pid].kind = s.entries[i].kind /\ u[pid].registered = {}
          /\ u[pid].version = NoVersion /\ u[pid].used = FALSE
      BY <3>1 DEF New
    <3>3. /\ f.kind = "pat" => u[pid].kind \in {"pmt", "null"}
          /\ f.kind = "pmt" => u[pid].kind \in {"stream", "null"}
      BY <1>8, <3>2
    <3>4. QED BY <2>1, <3>2, <3>3
  <2>2. CASE pid \notin PidsSeen(s)
    <3>1. pid \notin PidsSeen(s) \union f.registered
      BY <1>4, <2>2
    <3>2. f \in Filter /\ x \in [Pids -> Filter]
      BY <1>1, <1>6
    <3> HIDE DEF f
    <3>3. Applied(x, Changes(f, s, own))[pid] = x[pid]
      BY <3>1, <3>2, SectionApplied
    <3>4. QED BY <2>2, <3>3
  <2>3. QED BY <2>1, <2>2
<1> HIDE DEF u, f
<1>15. u[own] = g
  BY <1>6, <1>11, <1>14
<1>16. \A pid \in Pids : pid # own /\ pid \notin PidsSeen(s) => u[pid] = t[pid]
  BY <1>6, <1>14
<1>17. f = t[own]
  BY DEF f
<1>18. \A pid \in Pids : u[pid].kind = "pmt" => u[PatPid].version # NoVersion
  <2>1. CASE own = PatPid
    BY <1>2, <1>3, <1>15, <2>1
  <2>2. CASE own # PatPid
    <3>1. f.kind = "pmt" /\ PatPid \notin PidsSeen(s)
      BY <1>1, <1>7, <1>9, <1>10, <2>2
    <3>2. u[PatPid] = t[PatPid]
      BY <1>1, <1>16, <2>2, <3>1
    <3>3. t[PatPid].version # NoVersion
      BY <1>17, <3>1 DEF SteadyFilters
    <3>4. QED BY <3>2, <3>3
  <2>3. QED BY <2>1, <2>2
<1>19. ASSUME NEW pid \in Pids, u[pid].kind = "stream" PROVE ListedIn(m, u, pid)
  <2>1. CASE f.kind = "pat"
    <3>1. pid # own /\ pid \notin PidsSeen(s)
      BY <1>2, <1>14, <1>15, <1>19, <2>1
    <3>2. t[pid].kind = "stream"
      BY <1>16, <1>19, <3>1
    <3>3. ListedIn(m, t, pid)
      BY <3>2 DEF SteadyFilters
    <3>4. \E p \in Pids : t[p].kind = "pmt"
      BY <3>3 DEF ListedIn
    <3>5. t[PatPid].version # NoVersion
      BY <3>4 DEF SteadyFilters
    <3>6. QED BY <1>4, <1>7, <1>17, <2>1, <3>5
  <2>2. CASE f.kind = "pmt"
    <3>1. CASE pid \in PidsSeen(s)
      <4>1. u[own].kind = "pmt" /\ u[own].version # NoVersion
        BY <1>2, <1>3, <1>15, <2>2
      <4>2. QED BY <3>1, <4>1 DEF ListedIn
    <3>2. CASE pid \notin PidsSeen(s)
      <4>1. pid # own
        BY <1>2, <1>15, <1>19, <2>2
      <4>2. t[pid].kind = "stream"
        BY <1>16, <1>19, <3>2, <4>1
      <4>3. ListedIn(m, t, pid)
        BY <4>2 DEF SteadyFilters
      <4>4. PICK p \in Pids : /\ t[p].kind = "pmt" /\ t[p].version # NoVersion
                              /\ \E v \in Carried(m, p) : pid \in PidsSeen(v)
        BY <4>3 DEF ListedIn
      <4>5. p # own /\ p \notin PidsSeen(s)
        BY <1>4, <1>9, <1>10, <1>13, <1>17, <2>2, <4>4
      <4>6. u[p] = t[p]
        BY <1>16, <4>5
      <4>7. QED BY <4>4, <4>6 DEF ListedIn
    <3>3. QED BY <3>1, <3>2
  <2>3. QED BY <1>1, <2>1, <2>2
<1>20. ASSUME NEW pid \in Pids
       PROVE  /\ u[pid].version # NoVersion =>
                   \A v \in Carried(m, pid) : v.version = u[pid].version
              /\ u[pid].registered # {} => u[pid].version # NoVersion
              /\ u[pid].used => u[pid].kind = "stream"
  <2>1. CASE pid \in PidsSeen(s)
    BY <1>14, <2>1
  <2>2. CASE pid = own
    <3>1. u[pid].version = s.version /\ \A v \in Carried(m, pid) : v.version = s.version
      BY <1>2, <1>5, <1>15, <2>2
    <3>2. u[pid].used => t[own].used
      BY <1>2, <1>15, <1>17, <2>2
    <3>3. ~t[own].used
      BY <1>1, <1>17 DEF SteadyFilters
    <3>4. QED BY <1>3, <3>1, <3>2, <3>3
  <2>3. CASE pid # own /\ pid \notin PidsSeen(s)
    BY <1>16, <2>3 DEF SteadyFilters
  <2>4. QED BY <2>1, <2>2, <2>3
<1>21. SteadyFilters(m, u)
  BY <1>18, <1>19, <1>20 DEF SteadyFilters
<1>22. ASSUME NEW pid \in Pids, t[pid].used PROVE u[pid].used
  <2>1. t[pid].kind = "stream" /\ ListedIn(m, t, pid)
    BY <1>22 DEF SteadyFilters
  <2>2. pid \notin PidsSeen(s) /\ pid # own
    BY <1>1, <1>12, <1>17, <2>1
  <2>3. QED BY <1>16, <1>22, <2>2
<1>23. QED BY <1>21, <1>22 DEF KeepsUsed, SectionTable, u, x, g, f

LEMMA SectionKeeps ==
  ASSUME NEW m, NEW programs \in SUBSET Pids, NEW streams \in SUBSET Pids,
         NEW t \in [Pids -> Filter], InRoles(m, programs, streams),
         KeepsRoles(programs, streams, t), Steady(m), SteadyFilters(m, t),
         NEW own \in Pids, NEW s \in Carried(m, own), s # Damage, s \in Section
  PROVE  LET u == SectionTable(t, own, s) IN
         SteadyFilters(m, u) /\ KeepsUsed(t, u)
<1>1. CASE Accepts(t[own], s)
  BY <1>1, TableKeeps
<1>2. CASE ~Accepts(t[own], s)
  <2> DEFINE g == AfterSection(t[own], s)
             x == [t EXCEPT ![own] = g]
  <2>1. /\ g \in Filter /\ Alike(g, t[own]) /\ g.registered = t[own].registered
        /\ g.used = t[own].used
        /\ g.version = IF Passes(t[own], s) THEN s.version ELSE t[own].version
    BY <1>2, FiltersAlike
  <2>2. Changes(t[own], s, own) = <<>>
    BY <1>2 DEF Changes
  <2>3. x \in [Pids -> Filter]
    BY <2>1
  <2>4. SectionTable(t, own, s) = x
    BY <2>2, <2>3, AppliedNothing DEF SectionTable
  <2>5. s.version # NoVersion /\ \A v \in Carried(m, own) : v = s
    BY FilterTableAssumption DEF Section, Steady
  <2>6. t[own].used => t[own].kind = "stream"
    BY DEF SteadyFilters
  <2> HIDE DEF g
  <2>7. \/ g.version = t[own].version
        \/ g.version # NoVersion /\ \A v \in Carried(m, own) : v.version = g.version
    BY <2>1, <2>5
  <2>8. (t[own].used => g.used) /\ (g.used => g.kind = "stream")
    BY <2>1, <2>6 DEF Alike
  <2>9. SteadyFilters(m, x) /\ KeepsUsed(t, x)
    BY <2>1, <2>7, <2>8, AlikeKeeps
  <2>10. QED BY <2>4, <2>9
<1>3. QED BY <1>1, <1>2

LEMMA MovesKeep ==
  ASSUME StreamInv, SteadyInv, Moves, Steady(multiplex)
  PROVE  SteadyFilters(multiplex, Effective') /\ KeepsUsed(Effective, Effective')
<1> DEFINE t == Effective
           m == multiplex
           Kept == SteadyFilters(m, t') /\ KeepsUsed(t, t')
<1>1. PICK programs, streams \in SUBSET Pids : RolesInv(programs, streams)
  BY DEF StreamInv
<1>2. t \in [Pids -> Filter]
  BY AppliedType DEF Effective, StreamInv, RoutingInv, LiveInv, TypeOK
<1>3. /\ InRoles(m, programs, streams) /\ KeepsRoles(programs, streams, t)
      /\ Steady(m) /\ SteadyFilters(m, t)
  BY <1>1 DEF RolesInv, SteadyInv
<1>4. CASE Rests
  BY <1>3, <1>4 DEF Rests, KeepsUsed
<1>5. ASSUME NEW own \in Pids, Finds(own) PROVE Kept
  <2>1. t[own] = NoFilter /\ t' = [t EXCEPT ![own] = ByPid(own)]
    BY <1>5 DEF Finds
  <2> HIDE DEF t, m
  <2>2. QED BY <1>2, <1>3, <2>1, FoundKeeps
<1>6. ASSUME NEW own \in Pids, Consumes(own) PROVE Kept
  <2> DEFINE g == Touch(t[own])
  <2>1. t' = [t EXCEPT ![own] = g]
    BY <1>6 DEF Consumes
  <2> HIDE DEF t, m
  <2>2. /\ g \in Filter /\ Alike(g, t[own])
        /\ g.registered = t[own].registered /\ g.version = t[own].version
        /\ g.used => t[own].used \/ t[own].kind = "stream"
        /\ t[own].used => g.used
    BY <1>2, FiltersAlike
  <2>3. t[own].used => t[own].kind = "stream"
    BY <1>3 DEF SteadyFilters
  <2> HIDE DEF g
  <2>4. g.used => g.kind = "stream"
    BY <2>2, <2>3 DEF Alike
  <2>5. QED BY <1>2, <1>3, <2>1, <2>2, <2>4, AlikeKeeps
<1>7. ASSUME NEW own \in Pids, Resets(own) PROVE Kept
  BY <1>3, <1>7 DEF Resets, Steady
<1>8. ASSUME NEW own \in Pids, NEW s, Handles(own, s) PROVE Kept
  <2>1. /\ s # Damage /\ s \in Section /\ s \in Carried(m, own)
        /\ t' = SectionTable(t, own, s)
    BY <1>8 DEF Handles
  <2> HIDE DEF t, m
  <2>2. QED BY <1>2, <1>3, <2>1, SectionKeeps
<1>9. QED BY <1>4, <1>5, <1>6, <1>7, <1>8 DEF Moves

(* What the demultiplexer's own table keeps: queued changes are made later *)
(* but leave used filters alone, too.                                      *)
LEMMA TableKeepsUsed ==
  ASSUME RoutingInv, Next, KeepsUsed(table, Effective)
  PROVE  /\ KeepsUsed(table, table')
         /\ \/ Effective' = table'
            \/ table' = table /\ Effective' = Effective
            \/ KeepsUsed(table', table)
<1>1. /\ table \in [Pids -> Filter] /\ this_pid \in Pids /\ pk.pid \in Pids
      /\ table[this_pid] \in Filter
  BY DEF RoutingInv, LiveInv, TypeOK, PacketType
<1>2. table' \in [Pids -> Filter]
  BY LiveStep DEF RoutingInv, LiveInv, TypeOK
<1>3. changeset' = <<>> => Effective' = table'
  BY <1>2, AppliedNothing DEF Effective
<1>4. CASE Lookup
  <2>1. UNCHANGED <<table, changeset>> \/ ~table[pk.pid].used
    BY <1>4 DEF Lookup, Contains, NoFilter, New
  <2>2. \A pid \in Pids : pid # pk.pid => table'[pid] = table[pid]
    BY <1>1, <1>4 DEF Lookup
  <2>3. KeepsUsed(table, table')
    BY <1>1, <2>1, <2>2 DEF KeepsUsed
  <2>4. KeepsUsed(table', table)
    <3>1. table'[pk.pid] = table[pk.pid] \/ table'[pk.pid] = ByPid(pk.pid)
      BY <1>1, <1>4 DEF Lookup
    <3>2. ByPid(pk.pid).used = FALSE
      BY DEF ByPid, New
    <3>3. QED BY <1>1, <2>2, <3>1, <3>2 DEF KeepsUsed
  <2>5. QED BY <2>3, <2>4
<1>5. CASE Consume
  <2>1. table' = [table EXCEPT ![this_pid] = Touch(table[this_pid])] /\ changeset' = <<>>
    BY <1>5 DEF Consume, RoutingInv, QueueInv
  <2>2. table[this_pid].used => Touch(table[this_pid]).used
    BY <1>1, FiltersAlike
  <2>3. KeepsUsed(table, table')
    BY <1>1, <2>1, <2>2 DEF KeepsUsed
  <2>4. QED BY <1>3, <2>1, <2>3
<1>6. CASE ParseSection
  <2> DEFINE s == Head(pk.sections)
             f == table[this_pid]
  <2>1. pk.sections \in Seq(Section \union {Damage}) /\ pk.sections # <<>>
    BY <1>6 DEF ParseSection, RoutingInv, LiveInv, TypeOK, PacketType
  <2>2. s \in Section \/ s = Damage
    BY <2>1, HeadTailProperties
  <2>3. AfterDamage(f).used = f.used /\ (s \in Section => AfterSection(f, s).used = f.used)
    BY <1>1, FiltersAlike
  <2>4. \E g : g.used = f.used /\ table' = [table EXCEPT ![this_pid] = g]
    <3>1. CASE s = Damage
      <4>1. table' = [table EXCEPT ![this_pid] = AfterDamage(f)]
        BY <1>6, <3>1 DEF ParseSection
      <4>2. QED BY <2>3, <4>1
    <3>2. CASE s # Damage
      <4>1. table' = [table EXCEPT ![this_pid] = AfterSection(f, s)]
        BY <1>6, <3>2 DEF ParseSection
      <4>2. QED BY <2>2, <2>3, <3>2, <4>1
    <3>3. QED BY <3>1, <3>2
  <2>5. PICK g : g.used = f.used /\ table' = [table EXCEPT ![this_pid] = g]
    BY <2>4
  <2>6. \A pid \in Pids : table'[pid].used = table[pid].used
    BY <1>1, <2>5
  <2>7. QED BY <2>6 DEF KeepsUsed
<1>7. CASE Consumed
  <2>1. changeset' = <<>>
    BY <1>7 DEF Consumed
  <2>2. table' = table \/ table' = Effective
    BY <1>7 DEF Consumed, Effective
  <2>3. KeepsUsed(table, table')
    BY <2>2 DEF KeepsUsed
  <2>4. QED BY <1>3, <2>1, <2>3
<1>8. CASE UNCHANGED <<table, changeset>>
  BY <1>8 DEF Effective, KeepsUsed
<1>9. QED BY <1>4, <1>5, <1>6, <1>7, <1>8
      DEF Next, Meet, Work, Push, NextPacket, DropPacket, Return

LEMMA SteadyInvInit ==
  ASSUME StreamInit, NoSelfListing, AppChanges = {<<>>}
  PROVE  SteadyInv
<1>1. Effective = table
  BY StreamInvInit, AppliedNothing
     DEF Effective, StreamInit, Init, StreamInv, RoutingInv, LiveInv, TypeOK
<1>2. \A pid \in Pids :
        /\ table[pid].registered = {} /\ table[pid].version = NoVersion
        /\ table[pid].kind \in {"pat", "none"} /\ table[pid].used = FALSE
  BY DEF StreamInit, Init, ByPid, NoFilter, New
<1>3. QED BY <1>1, <1>2 DEF SteadyInv, SteadyFilters, KeepsUsed

LEMMA SteadyStep ==
  ASSUME StreamInv, SteadyInv, StreamNext, NoSelfListing, AppChanges = {<<>>},
         Steady(multiplex)
  PROVE  /\ KeepsUsed(table, table')
         /\ SteadyFilters(multiplex, Effective') /\ KeepsUsed(table', Effective')
<1>1. SteadyFilters(multiplex, Effective') /\ KeepsUsed(Effective, Effective')
  BY StepMoves, MovesKeep DEF StreamInv
<1>2. KeepsUsed(table, Effective)
  BY DEF SteadyInv
<1>3. Next
  BY DEF StreamNext, Receive, Next
<1>4. /\ KeepsUsed(table, table')
      /\ \/ Effective' = table'
         \/ table' = table /\ Effective' = Effective
         \/ KeepsUsed(table', table)
  BY <1>2, <1>3, TableKeepsUsed DEF StreamInv
<1>5. KeepsUsed(table', Effective')
  BY <1>1, <1>2, <1>4 DEF KeepsUsed
<1>6. QED BY <1>1, <1>4, <1>5

LEMMA SteadyInvStep ==
  ASSUME StreamInv, SteadyInv, [StreamNext]_streamVars, NoSelfListing, AppChanges = {<<>>}
  PROVE  SteadyInv'
<1>1. CASE StreamNext
  <2>1. multiplex' = multiplex
    BY <1>1 DEF StreamNext
  <2>2. Steady(multiplex) =>
          SteadyFilters(multiplex, Effective') /\ KeepsUsed(table', Effective')
    BY <1>1, SteadyStep
  <2>3. QED BY <2>1, <2>2 DEF SteadyInv
<1>2. CASE UNCHANGED streamVars
  <2>1. UNCHANGED <<table, multiplex, Effective>>
    BY <1>2 DEF streamVars, vars, Effective
  <2>2. QED BY <2>1 DEF SteadyInv
<1>3. QED BY <1>1, <1>2

(* However packets are interleaved, cut into buffers, flagged or           *)
(* scrambled, repeated copies of the same tables never replace or remove   *)
(* the filter of a stream that has consumed something.                     *)
THEOREM StateKept ==
  ASSUME NoSelfListing, AppChanges = {<<>>}
  PROVE  StreamSpec => StreamsKeepState
<1>1. StreamInit => StreamInv /\ SteadyInv
  BY StreamInvInit, SteadyInvInit
<1>2. StreamInv /\ SteadyInv /\ [StreamNext]_streamVars => StreamInv' /\ SteadyInv'
  BY StreamInvStep, SteadyInvStep
<1>3. ASSUME StreamInv, SteadyInv, [StreamNext]_streamVars
      PROVE  [(multiplex \in SteadyMultiplexes) =>
                \A pid \in Pids : table[pid].used => table'[pid].used]_streamVars
  <2>1. CASE UNCHANGED streamVars
    BY <2>1
  <2>2. CASE StreamNext /\ Steady(multiplex)
    BY <1>3, <2>2, SteadyStep DEF KeepsUsed
  <2>3. CASE ~Steady(multiplex)
    BY <2>3 DEF SteadyMultiplexes
  <2>4. QED BY <1>3, <2>1, <2>2, <2>3
<1>4. QED BY <1>1, <1>2, <1>3, PTL DEF StreamSpec, StreamsKeepState
===============================================================================
