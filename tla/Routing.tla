------------------------------- MODULE Routing -------------------------------
(***************************************************************************)
(* What Demultiplex promises: every packet is handled by the filter that   *)
(* the tables seen so far in the stream designate.  Here tables are put    *)
(* into force at once, section by section: there is no queue of changes,   *)
(* no reference to a filter kept from one packet to the next, no buffer.   *)
(***************************************************************************)
EXTENDS FilterTable

CONSTANT SectionsOf(_)   (* the sections that packets of a PID may carry   *)

VARIABLE table           (* the filter of each PID                         *)

RoutingInit == table = [pid \in Pids |-> IF pid = PatPid THEN ByPid(pid) ELSE NoFilter]

(* A packet of a PID that has no filter.                                   *)
Discover(pid) ==
  /\ table[pid] = NoFilter
  /\ table' = [table EXCEPT ![pid] = ByPid(pid)]

(* A packet that a filter consumes, its sections apart.                    *)
Deliver(pid) ==
  /\ table[pid] # NoFilter
  /\ table' = [table EXCEPT ![pid] = Touch(@)]

HandleSection(pid, s) ==
  /\ table[pid] # NoFilter
  /\ table' = Applied([table EXCEPT ![pid] = AfterSection(@, s)],
                      Changes(table[pid], s, pid))

HandleDamage(pid) ==
  /\ table[pid] # NoFilter
  /\ table' = [table EXCEPT ![pid] = AfterDamage(@)]

RoutingNext ==
  \E pid \in Pids :
    \/ Discover(pid)
    \/ Deliver(pid)
    \/ \E s \in SectionsOf(pid) : HandleSection(pid, s)
    \/ HandleDamage(pid)

RoutingSpec == RoutingInit /\ [][RoutingNext]_table
=============================================================================
