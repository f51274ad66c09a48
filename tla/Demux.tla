-------------------------------- MODULE Demux --------------------------------
(***************************************************************************)
(* Demultiplex (demultiplex.rs).  push() walks over the packets of a       *)
(* buffer with two nested loops: the outer one looks up the filter of a    *)
(* packet's PID, the inner one keeps using it while the PID stays the same *)
(* and no filter has asked for changes.  Filters may not edit the table    *)
(* while one of them runs; they queue changes in the FilterChangeset,      *)
(* which push() applies when the filter has returned.                      *)
(*                                                                         *)
(* A packet carries whole sections: how they are put together from several *)
(* packets is the subject of PsiFramer.                                    *)
(***************************************************************************)
EXTENDS FilterTable

CONSTANTS
  Packets,     (* the packets that buffers may hold                        *)
  AppChanges,  (* the sequences of changes that construct() may queue      *)
  Damage       (* what the framer finds instead of a section               *)

VARIABLES
  table,       (* processor_by_pid                                         *)
  changeset,   (* filter_changeset: the updates not yet applied            *)
  pc,          (* where push() is; "out" when it is not running            *)
  pk,          (* the packet in hand, its sections already seen taken off  *)
  this_pid     (* PID of the filter that push() holds a reference to       *)

vars == <<table, changeset, pc, pk, this_pid>>

PacketType == [pid : Pids, error : BOOLEAN, scrambled : BOOLEAN,
               sections : Seq(Section \union {Damage})]

NoPacket == [pid |-> PatPid, error |-> FALSE, scrambled |-> FALSE, sections |-> <<>>]

ASSUME PacketsAssumption == Packets \subseteq PacketType
ASSUME AppChangesAssumption == AppChanges \subseteq Seq(Change)
ASSUME DamageAssumption == Damage \notin Section

-----------------------------------------------------------------------------

Contains(pid) == table[pid] # NoFilter

(* Demultiplex::new(), which has construct() make the filter for the PAT.  *)
Init ==
  /\ table = [pid \in Pids |-> IF pid = PatPid THEN ByPid(pid) ELSE NoFilter]
  /\ changeset \in AppChanges
  /\ pc = "out"
  /\ pk = NoPacket
  /\ this_pid = PatPid

(* push() of a buffer whose first packet is p.  (Of one that has none, or  *)
(* starts with one that is out of sync, push() returns at once.)           *)
Push(p) ==
  /\ pc = "out"
  /\ pc' = "lookup"
  /\ pk' = p
  /\ UNCHANGED <<table, changeset, this_pid>>

(* The top of the outer loop.  construct() is given the DemuxContext, that *)
(* is, the changeset.                                                      *)
Lookup ==
  /\ pc = "lookup"
  /\ IF Contains(pk.pid) THEN UNCHANGED <<table, changeset>>
     ELSE /\ table' = [table EXCEPT ![pk.pid] = ByPid(pk.pid)]
          /\ \E c \in AppChanges : changeset' = changeset \o c
  /\ this_pid' = pk.pid
  /\ pc' = "check"
  /\ UNCHANGED pk

(* transport_error_indicator or transport_scrambling_control is set.       *)
DropPacket ==
  /\ pc = "check"
  /\ pk.error \/ pk.scrambled
  /\ pc' = "next"
  /\ pk' = NoPacket
  /\ UNCHANGED <<table, changeset, this_pid>>

Consume ==
  /\ pc = "check"
  /\ ~pk.error /\ ~pk.scrambled
  /\ table' = [table EXCEPT ![this_pid] = Touch(@)]
  /\ pc' = "consume"
  /\ UNCHANGED <<changeset, pk, this_pid>>

(* Within the filter's consume(): the next section of the packet.          *)
ParseSection ==
  /\ pc = "consume" /\ pk.sections # <<>>
  /\ pk' = [pk EXCEPT !.sections = Tail(@)]
  /\ LET s == Head(pk.sections)
         f == table[this_pid] IN
     IF s = Damage
     THEN /\ table' = [table EXCEPT ![this_pid] = AfterDamage(f)]
          /\ UNCHANGED changeset
     ELSE /\ table' = [table EXCEPT ![this_pid] = AfterSection(f, s)]
          /\ changeset' = changeset \o Changes(f, s, this_pid)
  /\ UNCHANGED <<pc, this_pid>>

(* Mutant: only the first of the changes is applied.                       *)
ConsumedFirstOnly ==
  /\ pc = "consume" /\ pk.sections = <<>>
  /\ IF changeset = <<>>
     THEN pc' = "next" /\ UNCHANGED table
     ELSE pc' = "break" /\ table' = Applied(table, <<Head(changeset)>>)
  /\ changeset' = <<>>
  /\ pk' = NoPacket
  /\ UNCHANGED this_pid

(* consume() has returned.                                                 *)
Consumed ==
  /\ pc = "consume" /\ pk.sections = <<>>
  /\ IF changeset = <<>>
     THEN pc' = "next" /\ UNCHANGED table
     ELSE pc' = "break" /\ table' = Applied(table, changeset)
  /\ changeset' = <<>>
  /\ pk' = NoPacket
  /\ UNCHANGED this_pid

(* Mutant: the filter in hand is used whatever the PID of the next packet. *)
NextPacketSameFilter(p) ==
  /\ pc \in {"next", "break"}
  /\ pc' = IF pc = "break" THEN "lookup" ELSE "check"
  /\ pk' = p
  /\ UNCHANGED <<table, changeset, this_pid>>

(* The next packet of the buffer.                                          *)
NextPacket(p) ==
  /\ pc \in {"next", "break"}
  /\ pc' = IF pc = "break" \/ p.pid # this_pid THEN "lookup" ELSE "check"
  /\ pk' = p
  /\ UNCHANGED <<table, changeset, this_pid>>

(* The end of the buffer, or a packet out of sync.                         *)
Return ==
  /\ pc \in {"next", "break"}
  /\ pc' = "out"
  /\ UNCHANGED <<table, changeset, pk, this_pid>>

(* A packet is met in a buffer, or push() goes on.                         *)
Meet(p) == Push(p) \/ NextPacket(p)
Work == Lookup \/ DropPacket \/ Consume \/ ParseSection \/ Consumed \/ Return

Next == (\E p \in Packets : Meet(p)) \/ Work

Spec == Init /\ [][Next]_vars

-----------------------------------------------------------------------------

TypeOK ==
  /\ table \in [Pids -> Filter]
  /\ changeset \in Seq(Change)
  /\ pc \in {"out", "lookup", "check", "consume", "next", "break"}
  /\ pk \in PacketType
  /\ this_pid \in Pids

(* The reference that push() holds is to a filter that is there, and to    *)
(* the one of the PID of the packet in hand: get().unwrap() does not panic *)
(* and no packet reaches the filter of another PID.                        *)
ReferenceIsLive ==
  pc \in {"check", "consume"} => this_pid = pk.pid /\ Contains(this_pid)

SectionsOf(pid) ==
  UNION {{p.sections[i] : i \in DOMAIN p.sections} \ {Damage} :
           p \in {q \in Packets : q.pid = pid}}

(* No table lists the PID it is itself sent on.                            *)
NoSelfListing ==
  \A pid \in Pids : \A s \in SectionsOf(pid) : pid \notin PidsSeen(s)

(* Queueing the changes and applying them when the filter has returned, is *)
(* as good as letting filters edit the table: the table with its pending   *)
(* changes behaves as Routing says, so that each packet is handled under   *)
(* all the tables that precede it in the stream, in this buffer or earlier *)
(* ones.  (Needs NoSelfListing.)                                           *)
R == INSTANCE Routing WITH table <- Applied(table, changeset)
ImplementsRouting == R!RoutingSpec

(* push() is between two packets, or not running.                          *)
Settled == pc \in {"out", "next", "break"}

-----------------------------------------------------------------------------
(* What a comment in demultiplex.rs says.                                  *)

(* "remove filters for descriptors we've seen before that are not present  *)
(* in this updated table": once a program's table is known, the streams    *)
(* that have a filter for that program are those of its table.             *)
OutdatedAreRemoved ==
  Settled =>
    \A pid \in Pids :
      LET m == table[pid].program IN
      table[pid].kind = "stream" /\ table[m].kind = "pmt" /\ table[m].version # NoVersion
        => pid \in table[m].registered

=============================================================================
