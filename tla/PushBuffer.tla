------------------------------ MODULE PushBuffer ------------------------------
(***************************************************************************)
(* How push() (demultiplex.rs) cuts the buffers it is given into packets.  *)
(* The transport stream is a row of packets of PacketSize bytes each, and  *)
(* the application cuts it into buffers.  What push() does with a packet   *)
(* is the subject of Demux; here it is only recorded that it was handled.  *)
(***************************************************************************)
EXTENDS Integers, Sequences, FiniteSets

CONSTANTS
  PacketSize,  (* Packet::SIZE (188 in the code)                           *)
  MaxPackets   (* bound on the length of the stream, in packets            *)

ASSUME SizesAssumption == PacketSize \in Nat \ {0} /\ MaxPackets \in Nat

VARIABLES
  aligned,  (* does every buffer end where a packet ends?                  *)
  at,       (* bytes of the stream pushed so far                           *)
  bad,      (* numbers of the packets whose first byte is no sync byte     *)
  cuts,     (* numbers of the packets that are the first of a buffer       *)
  handled   (* what was handled: numbers of packets, or Straddling         *)

bufferVars == <<aligned, at, bad, cuts, handled>>

(* PacketSize bytes taken for a packet that are the end of one and the     *)
(* start of the next.                                                      *)
Straddling == 0

BufferInit ==
  /\ aligned \in BOOLEAN
  /\ at = 0
  /\ bad \in SUBSET (1 .. MaxPackets)
  /\ cuts = {}
  /\ handled = <<>>

InStep == at % PacketSize = 0

(* What the i-th chunk of chunks_exact() is of a buffer that starts here.  *)
Chunk(i) == IF InStep THEN at \div PacketSize + i ELSE Straddling

(* Mutant: the sync byte is not looked at.                                 *)
OkAlways(i, lucky) == TRUE

(* try_new(): is there a sync byte?  Where a straddling chunk starts there *)
(* may be a byte that looks like one, for the chunks of `lucky'.           *)
Ok(i, lucky) == IF InStep THEN Chunk(i) \notin bad ELSE i \in lucky

(* Mutant: a last packet that ends where the buffer ends is not seen.      *)
PushBytesButLast(n) ==
  LET chunks == (n - 1) \div PacketSize IN
  /\ at + n <= MaxPackets * PacketSize
  /\ aligned => n % PacketSize = 0
  /\ at' = at + n
  /\ cuts' = IF InStep THEN cuts \union {Chunk(1)} ELSE cuts
  /\ \E lucky \in SUBSET (1 .. chunks) :
       LET good == {m \in 0 .. chunks : \A i \in 1 .. m : Ok(i, lucky)}
       IN handled' = handled \o [i \in 1 .. Cardinality(good) - 1 |-> Chunk(i)]
  /\ UNCHANGED <<aligned, bad>>

(* push() of the next n bytes: the chunks before the first that is not Ok. *)
(* What is left of the buffer when it holds no further whole chunk is      *)
(* dropped.                                                                *)
PushBytes(n) ==
  LET chunks == n \div PacketSize IN
  /\ at + n <= MaxPackets * PacketSize
  /\ aligned => n % PacketSize = 0
  /\ at' = at + n
  /\ cuts' = IF InStep THEN cuts \union {Chunk(1)} ELSE cuts
  /\ \E lucky \in SUBSET (1 .. chunks) :
       LET good == {m \in 0 .. chunks : \A i \in 1 .. m : Ok(i, lucky)}
       IN handled' = handled \o [i \in 1 .. Cardinality(good) - 1 |-> Chunk(i)]
  /\ UNCHANGED <<aligned, bad>>

BufferNext == \E n \in 1 .. MaxPackets * PacketSize : PushBytes(n)

BufferSpec == BufferInit /\ [][BufferNext]_bufferVars

-----------------------------------------------------------------------------

Handled(k) == \E i \in DOMAIN handled : handled[i] = k

(* Wherever the buffers are cut, no packet is handled twice, none before   *)
(* an earlier one, and none that is out of sync.                           *)
HandledInOrder ==
  \A i \in DOMAIN handled :
    /\ handled[i] \notin bad
    /\ \A j \in DOMAIN handled :
         i < j /\ handled[i] # Straddling /\ handled[j] # Straddling
           => handled[i] < handled[j]

(* With buffers of whole packets, a packet is passed over only when one of *)
(* the same buffer, not after it, is out of sync: the next buffer is read  *)
(* from its start again.                                                   *)
LossIsLocal ==
  aligned =>
    \A k \in 1 .. at \div PacketSize :
      ~Handled(k) => \E b \in bad : b <= k /\ cuts \intersect (b + 1 .. k) = {}

(* What the comment of Demultiplex says: "the demultiplexing process will  *)
(* resume at the start of one buffer where it left off at the end of the   *)
(* last": a stream that is in sync is handled completely.                  *)
ResumesWhereItLeftOff ==
  bad = {} => \A k \in 1 .. at \div PacketSize : Handled(k)
=============================================================================
