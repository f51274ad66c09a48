------------------------------- MODULE Timestamps -------------------------------
(***************************************************************************)
(* Timestamps count a clock that wraps around after MAX.  An application   *)
(* that keeps one asks Timestamp::likely_wrapped_since() (pes.rs) about    *)
(* others: whether the clock has wrapped around in between.  They need not *)
(* be later ones, because access units are not sent in the order in which  *)
(* they are presented.                                                     *)
(***************************************************************************)
EXTENDS Integers

CONSTANT MAX   (* Timestamp::MAX, 2^33 - 1                                  *)

(* The range of a timestamp is even.                                       *)
MaxAssumption == MAX \in Nat /\ MAX % 2 = 1
ASSUME MaxAssumption

(* "No more than half the time it takes for the wrap around to occur".     *)
HalfRange == (MAX + 1) \div 2

(* Half the range later is still understood, half the range earlier is     *)
(* the same timestamp, and not.                                            *)
Distances == (1 - HalfRange)..HalfRange

VARIABLES
  since,    (* the timestamp that the application keeps                     *)
  current,  (* the one it asks about                                        *)
  elapsed,  (* ticks from the first to the second, negative if it is        *)
            (* earlier                                                      *)
  laps      (* how often the clock wraps around in between                  *)

clockVars == <<since, current, elapsed, laps>>

Timestamp == 0..MAX

(* Mutant: an earlier timestamp is taken for one after a wrap-around.      *)
AnyDecrease(self, other) == self < other

LikelyWrappedSince(self, other) == self <= other /\ other - self > MAX \div 2

ClockInit ==
  /\ since \in Timestamp
  /\ current = since
  /\ elapsed = 0
  /\ laps = 0

(* The next timestamp is that of a time `ticks' later, or earlier.         *)
Tick(ticks) ==
  /\ elapsed + ticks \in Distances
  /\ elapsed' = elapsed + ticks
  /\ \/ /\ current + ticks \in Timestamp
        /\ current' = current + ticks
        /\ UNCHANGED laps
     \/ /\ current + ticks > MAX
        /\ current' = current + ticks - (MAX + 1)
        /\ laps' = laps + 1
     \/ /\ current + ticks < 0
        /\ current' = current + ticks + (MAX + 1)
        /\ laps' = laps - 1
  /\ UNCHANGED since

(* The application keeps another one.                                      *)
Keep ==
  /\ since' = current
  /\ elapsed' = 0
  /\ laps' = 0
  /\ UNCHANGED current

ClockNext == Keep \/ \E ticks \in Distances : Tick(ticks)

ClockSpec == ClockInit /\ [][ClockNext]_clockVars

(* The answer is right for timestamps up to half the range apart, wherever *)
(* in the range they are and whichever comes first: no wrap-around is      *)
(* missed and none is imagined.                                            *)
WrapIsSeen == LikelyWrappedSince(current, since) <=> laps = 1
=================================================================================
