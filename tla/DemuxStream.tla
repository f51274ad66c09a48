------------------------------ MODULE DemuxStream ------------------------------
(***************************************************************************)
(* Demux fed with one transport stream: the multiplex is the set of the    *)
(* packets that the stream is made of, in any order and any number, and    *)
(* PIDs keep their roles in it.                                            *)
(***************************************************************************)
EXTENDS Demux

CONSTANT Multiplexes

VARIABLES
  multiplex,   (* which packets make up the transport stream               *)
  mention      (* of each PID, the PMT that last listed or withdrew it     *)

streamVars == <<vars, multiplex, mention>>

-----------------------------------------------------------------------------
(* What the packets of a PID may hold, framing errors included.            *)
Carried(m, pid) ==
  UNION {{p.sections[i] : i \in DOMAIN p.sections} : p \in {q \in m : q.pid = pid}}

(* The PAT lists PIDs of programs, their tables those of streams, and no   *)
(* PID is both, or that of the PAT.                                        *)
InRoles(m, programs, streams) ==
  /\ PatPid \notin programs \union streams
  /\ programs \intersect streams = {}
  /\ \A s \in Carried(m, PatPid) \ {Damage} : s.valid /\ s.table_id = "pat" =>
       \A i \in DOMAIN s.entries :
         s.entries[i].pid \in programs /\ s.entries[i].kind \in {"pmt", "null"}
  /\ \A pid \in programs : \A s \in Carried(m, pid) \ {Damage} :
       s.valid /\ s.table_id = "pmt" =>
         \A i \in DOMAIN s.entries :
           s.entries[i].pid \in streams /\ s.entries[i].kind \in {"stream", "null"}

ASSUME RolesAssumption ==
  \A m \in Multiplexes :
    \E programs, streams \in SUBSET Pids : InRoles(m, programs, streams)

(* The same tables over and over, no two with a PID in common.             *)
Steady(m) ==
  /\ \A pid \in Pids : \A s, u \in Carried(m, pid) : s # Damage /\ s = u
  /\ \A a, b \in Pids : a # b =>
       \A s \in Carried(m, a), u \in Carried(m, b) : PidsSeen(s) \intersect PidsSeen(u) = {}

SteadyMultiplexes == {m \in Multiplexes : Steady(m)}

-----------------------------------------------------------------------------

Receive(p) == p \in multiplex /\ Meet(p)

Mention(by, listed) == [by |-> by, listed |-> listed]

(* The filter in hand parses a section of the packet.                      *)
Mentioned ==
  LET f == table[this_pid]
      s == Head(pk.sections) IN
  mention' =
    IF pc # "consume" \/ pk.sections = <<>> THEN mention
    ELSE IF s = Damage \/ f.kind # "pmt" THEN mention
    ELSE IF ~Accepts(f, s) THEN mention
    ELSE [pid \in Pids |->
            IF pid \in PidsSeen(s) THEN Mention(this_pid, TRUE)
            ELSE IF pid \in f.registered THEN Mention(this_pid, FALSE)
            ELSE mention[pid]]

StreamInit ==
  /\ Init
  /\ multiplex \in Multiplexes
  /\ mention = [pid \in Pids |-> Mention(PatPid, FALSE)]

StreamNext ==
  /\ (\E p \in Packets : Receive(p)) \/ Work
  /\ Mentioned
  /\ UNCHANGED multiplex

StreamSpec == StreamInit /\ [][StreamNext]_streamVars

-----------------------------------------------------------------------------

(* What the filters of the tables believe to have registered is in the     *)
(* table.  Every program of the last PAT has its filter.  Every stream of  *)
(* a PMT has one that was constructed for this program or, if programs     *)
(* share its PID, for the one that listed it last; it has none only when   *)
(* another program has withdrawn the PID since, whose remove_outdated()    *)
(* does not know that the PID is still in use.                             *)
RegisteredAreServed ==
  Settled =>
    /\ \A pid \in table[PatPid].registered : table[pid].kind \in {"pmt", "null"}
    /\ \A m \in Pids : table[m].kind = "pmt" =>
         \A pid \in table[m].registered :
           LET last == mention[pid] IN
           /\ last.by = m => last.listed
           /\ IF last.listed
              THEN table[pid].kind \in {"stream", "null"} /\ table[pid].program = last.by
              ELSE table[pid].kind \in {"none", "null"}

(* While the multiplex repeats the same tables, a stream keeps its filter  *)
(* with all it has reassembled, however packets are interleaved, cut into  *)
(* buffers, flagged or scrambled.                                          *)
StreamsKeepState ==
  [][(multiplex \in SteadyMultiplexes) =>
       \A pid \in Pids : table[pid].used => table'[pid].used]_streamVars
================================================================================
