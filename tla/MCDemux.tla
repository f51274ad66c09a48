------------------------------- MODULE MCDemux -------------------------------
(***************************************************************************)
(* Instances of Demux for TLC.  The PAT is on PID 0, PMTs are on 1 and 2,  *)
(* streams on 3 and 4.                                                     *)
(***************************************************************************)
EXTENDS DemuxStream

E(pid, kind) == [pid |-> pid, kind |-> kind]
Sect(id, version, entries) ==
  [table_id |-> id, version |-> version, valid |-> TRUE, entries |-> entries]
Pk(pid, sections) == [pid |-> pid, error |-> FALSE, scrambled |-> FALSE, sections |-> sections]
Flagged(p) == {p, [p EXCEPT !.error = TRUE], [p EXCEPT !.scrambled = TRUE]}

Pats(V) == {Sect("pat", v, es) : v \in V,
              es \in {<<E(1, "pmt")>>, <<E(1, "pmt"), E(2, "pmt")>>}}
Pmts(V, pid) == {Sect("pmt", v, es) : v \in V, es \in {<<>>, <<E(pid, "stream")>>}}
Streams == {Pk(pid, <<>>) : pid \in {3, 4}}

Single(pid, S) == {Pk(pid, <<s>>) : s \in S}

(* One role for each PID, tables of two versions, sections that are too    *)
(* large or broken or of the other table, two sections in a packet, framer *)
(* errors, and packets flagged or scrambled.                               *)
BadPat == [Sect("pat", 1, <<>>) EXCEPT !.valid = FALSE]
Nit == Sect("pat", 2, <<E(1, "pmt"), E(2, "null")>>)
RichPackets ==
  Single(0, Pats({1, 2}) \union {BadPat, Nit, Sect("pmt", 2, <<E(3, "stream")>>)})
    \union Single(1, Pmts({1, 2}, 3)) \union Single(2, Pmts({1}, 4))
    \union {Pk(1, <<Sect("pmt", 1, <<E(3, "stream")>>), Sect("pmt", 2, <<>>)>>),
            Pk(0, <<Damage, Sect("pat", 1, <<E(1, "pmt")>>)>>), Pk(1, <<Damage>>)}
    \union UNION {Flagged(p) : p \in Streams}

(* One program, its PAT and its PMT each in two versions.                  *)
UpdatedPackets ==
  Single(0, {Sect("pat", v, <<E(1, "pmt")>>) : v \in {1, 2}})
    \union Single(1, {Sect("pmt", 1, <<E(3, "stream")>>), Sect("pmt", 2, <<>>)})

(* The same two tables over and over.                                      *)
SteadyPackets ==
  Single(0, {Sect("pat", 1, <<E(1, "pmt"), E(2, "pmt")>>)})
    \union Single(1, {Sect("pmt", 1, <<E(3, "stream")>>)})
    \union Single(2, {Sect("pmt", 1, <<E(4, "stream")>>)})
    \union UNION {Flagged(p) : p \in Streams}

(* The same, over a path on which sections get damaged.                    *)
NoisyPackets == SteadyPackets \union {Pk(0, <<Damage>>), Pk(1, <<Damage>>)}

(* Two programs that share the stream on PID 3; one of them may give it up,*)
(* the other may be taken off the PAT.                                     *)
SharedPackets ==
  Single(0, {Sect("pat", 1, <<E(1, "pmt"), E(2, "pmt")>>), Sect("pat", 2, <<E(1, "pmt")>>)})
    \union Single(1, Pmts({1, 2}, 3))
    \union Single(2, {Sect("pmt", 1, <<E(3, "stream")>>),
                      Sect("pmt", 2, <<E(4, "stream"), E(3, "null")>>)})
    \union Streams

NoAppChanges == {<<>>}

-----------------------------------------------------------------------------

AllMultiplexes == {RichPackets, SteadyPackets, NoisyPackets, SharedPackets}
Updated == {UpdatedPackets}

AllPackets == UNION AllMultiplexes \union UpdatedPackets

-----------------------------------------------------------------------------

(* push() runs to its end: it waits for nothing.  Which packet comes next  *)
(* is the multiplexer's affair, but tables are sent again and again, which *)
(* is what PSI tables are for; that they meet with push() at the top of    *)
(* its loops takes strong fairness, a packet being met in two places.      *)
Repeating == {SteadyPackets, NoisyPackets}
FairSpec ==
  /\ StreamSpec
  /\ WF_streamVars(Work /\ Mentioned /\ UNCHANGED multiplex)
  /\ \A p \in SteadyPackets :
       SF_streamVars(Receive(p) /\ Mentioned /\ UNCHANGED multiplex)

-----------------------------------------------------------------------------

(* Tuning in: when tables are repeated, however they are interleaved with  *)
(* other packets and even if damaged copies keep coming, in the end every  *)
(* program and every stream that they list has its filter, for good.       *)
AllServed ==
  \A p \in multiplex : \A n \in DOMAIN p.sections :
    p.sections[n] # Damage =>
      \A e \in DOMAIN p.sections[n].entries :
        table[p.sections[n].entries[e].pid].kind = p.sections[n].entries[e].kind
TunesIn == multiplex \in Repeating => <>[]AllServed
=============================================================================
