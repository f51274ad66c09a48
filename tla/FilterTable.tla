----------------------------- MODULE FilterTable -----------------------------
(***************************************************************************)
(* The demultiplexer's table of packet filters, and what the filters for   *)
(* PSI tables do to it (demultiplex.rs): PatPacketFilter inserts a filter  *)
(* for every program of the Program Association Table, PmtPacketFilter one *)
(* for every stream of a Program Map Table, and each removes the filters   *)
(* that its last table listed and the new one does not.  Which filter to   *)
(* insert is the application's choice (DemuxContext::construct()).         *)
(***************************************************************************)
EXTENDS Integers, Sequences

CONSTANTS
  Pids,       (* packet identifiers                                        *)
  PatPid,     (* PAT_PID                                                   *)
  Versions,   (* version_number of a table                                 *)
  NoVersion   (* last_version of Dedup before the first section: None      *)

ASSUME FilterTableAssumption == PatPid \in Pids /\ NoVersion \notin Versions

(* A filter.  Those for tables have a framer, a Dedup with the version it  *)
(* saw last, and a processor with the PIDs its last table listed.  What a  *)
(* stream's filter has reassembled so far is abstracted to whether it has  *)
(* consumed a packet.  "none" is an empty slot of filters_by_pid.          *)
Filter == [kind       : {"none", "pat", "pmt", "stream", "null"},
           program    : Pids,
           registered : SUBSET Pids,
           version    : Versions \union {NoVersion},
           used       : BOOLEAN]

New(kind, program) ==
  [kind |-> kind, program |-> program, registered |-> {},
   version |-> NoVersion, used |-> FALSE]

NoFilter == New("none", PatPid)

(* The answer to FilterRequest::ByPid, for a PID no table has announced.   *)
ByPid(pid) == New(IF pid = PatPid THEN "pat" ELSE "null", PatPid)

(* An entry of a table: a PID and the kind of filter that the application  *)
(* constructs for it.  `valid' stands for the tests before new_table():    *)
(* CRC, section_length, and that PmtSection::from_bytes() succeeds.        *)
Entry == [pid : Pids, kind : {"pmt", "stream", "null"}]
Section == [table_id : {"pat", "pmt"}, version : Versions, valid : BOOLEAN,
            entries : Seq(Entry)]

-----------------------------------------------------------------------------
(* FilterChange and FilterChangeset.                                       *)

(* One Insert, or a run of Removes, whose order makes no difference.       *)
Change == [pids : SUBSET Pids, filter : Filter]

Insert(pid, filter) == [pids |-> {pid}, filter |-> filter]
Remove(pids) == [pids |-> pids, filter |-> NoFilter]

(* The table when the changes were made one after the other: each slot     *)
(* holds what the last change to it put there.                             *)
Touching(changes, pid) == {i \in DOMAIN changes : pid \in changes[i].pids}

Applied(table, changes) ==
  [pid \in Pids |->
     LET T == Touching(changes, pid) IN
     IF T = {} THEN table[pid]
     ELSE changes[CHOOSE i \in T : \A j \in T : j <= i].filter]

-----------------------------------------------------------------------------
(* What a filter does with a section, and with an error of its framer.     *)

HasTables(f) == f.kind \in {"pat", "pmt"}

PidsSeen(s) == {s.entries[i].pid : i \in DOMAIN s.entries}

(* Mutant: sections are never suppressed.                                  *)
PassesAlways(f, s) == HasTables(f)

(* Dedup suppresses a section with the version of the last one; otherwise  *)
(* the version is remembered, whatever becomes of the section.             *)
Passes(f, s) == HasTables(f) /\ f.version # s.version

Accepts(f, s) == Passes(f, s) /\ s.valid /\ s.table_id = f.kind

(* Mutant: remembering the version expected next, which does not wrap.     *)
AfterSectionExpecting(f, s) == IF Passes(f, s) THEN [f EXCEPT !.version = s.version + 1] ELSE f

AfterSection(f, s) ==
  IF ~Passes(f, s) THEN f
  ELSE [f EXCEPT !.version = s.version,
                 !.registered = IF Accepts(f, s) THEN PidsSeen(s) ELSE @]

Inserts(s, own) ==
  [i \in DOMAIN s.entries |-> Insert(s.entries[i].pid, New(s.entries[i].kind, own))]

(* Mutant: all that the last table listed is removed.                      *)
RemovesAll(f, s) == IF f.registered = {} THEN <<>> ELSE <<Remove(f.registered)>>

(* remove_outdated()                                                       *)
Removes(f, s) ==
  LET outdated == f.registered \ PidsSeen(s) IN
  IF outdated = {} THEN <<>> ELSE <<Remove(outdated)>>

(* new_table() of the filter f for the packets of PID own.                 *)
Changes(f, s, own) ==
  IF Accepts(f, s) THEN Inserts(s, own) \o Removes(f, s) ELSE <<>>

(* The framer has met an error and reset its parsers.                      *)
AfterDamage(f) == IF HasTables(f) THEN [f EXCEPT !.version = NoVersion] ELSE f

(* A packet reaches the filter.                                            *)
Touch(f) == IF f.kind = "stream" THEN [f EXCEPT !.used = TRUE] ELSE f
=============================================================================
