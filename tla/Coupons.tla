------------------------------ MODULE Coupons ------------------------------
(***************************************************************************)
(* What pricing/schedule.py makes of a leg, whatever the leg's terms, is a *)
(* coupon schedule.                                                        *)
(***************************************************************************)
EXTENDS Schedules

CONSTANT Legs       \* the terms a leg can have

(* Legs end after they start, and leave the calendar a month at both ends. *)
Dates == {dt \in [m : 1..(Months - 2), d : 1..31] : dt.d <= MonthDays[dt.m]}

ASSUME LegsAssumption ==
  \A l \in Legs :
    /\ {l.eff, l.mat, Start0(l), End0(l)} \subseteq Dates
    /\ Before(l.eff, l.mat) /\ ~Before(End0(l), l.eff)
    /\ l.freq \in Nat /\ l.lag \in Int
    /\ l.freq = 0 => Before(Start0(l), End0(l))

VARIABLES leg,      \* its terms
          periods   \* the schedule last made of them, or none

vars == <<leg, periods>>

Init == leg \in Legs /\ periods = <<>>

(* generate_schedule, called by the pricer, the ticket's preview and CCR.  *)
Generate ==
  /\ periods = <<>>
  /\ periods' = Schedule(leg)
  /\ UNCHANGED leg

Spec == Init /\ [][Generate]_vars

----------------------------------------------------------------------------
First == periods[1]
Final == periods[Len(periods)]

TypeOK ==
  /\ leg \in Legs
  /\ \A i \in DOMAIN periods :
       \A dt \in {periods[i].start, periods[i].end} :
         dt.m \in DOMAIN MonthDays /\ dt.d \in 1..MonthDays[dt.m]

(* The periods cover the leg from its first date to its maturity with no   *)
(* gap and no overlap: nothing accrues twice and no day is unpaid, whatever*)
(* dates the rolls and the merged stub leave out.  A first date beyond the *)
(* first roll is not kept: the periods then start at the roll before it.   *)
Tiles ==
  periods # <<>> =>
    /\ First.start = Start0(leg) \/ (leg.first # NoDate /\ Before(First.start, leg.first))
    /\ Final.end = IF leg.freq = 0 THEN End0(leg) ELSE leg.mat
    /\ \A i \in 1..(Len(periods) - 1) : periods[i].end = periods[i + 1].start
    /\ \A i \in DOMAIN periods : Before(periods[i].start, periods[i].end)

(* Dates that repeat every freq months keep their day of the month, except *)
(* where the month is too short for it.                                    *)
SameDay(a, b, day) ==
  /\ b.m - a.m = leg.freq
  /\ \A dt \in {a, b} : dt.d = day \/ (dt.d < day /\ dt.d = MonthDays[dt.m])

(* A stub only at an end the leg asks for: every other period is a         *)
(* regular one, with the day of the month of the date it is counted from.  *)
(* This is what rolling from the previous date loses after a February.     *)
Backward == leg.stub \in {"SHORT_FRONT", "LONG_FRONT"} \/ leg.last # NoDate
RollDay  == IF ~Backward THEN leg.eff.d ELSE IF Before(End0(leg), leg.mat) THEN leg.last.d ELSE leg.mat.d
OneStub ==
  periods # <<>> /\ leg.freq > 0 =>
    \A i \in DOMAIN periods :
      \/ SameDay(periods[i].start, periods[i].end, RollDay)
      \/ i = 1 /\ (Backward \/ leg.first # NoDate)
      \/ i = Len(periods) /\ (~Backward \/ leg.last # NoDate)

(* A short stub is no longer than a regular period and a long one no longer*)
(* than two; a leg of whole periods has no stub, so merging the odd period *)
(* leaves it alone.  The exception is a long stub on a day some month cuts:*)
(* the code judges a period odd by rolling on from the date that was cut.  *)
Long     == leg.stub \in {"LONG_FRONT", "LONG_BACK"}
Plain    == periods # <<>> /\ leg.freq > 0 /\ leg.first = NoDate /\ leg.last = NoDate
Whole(n) == IF Backward THEN Roll(leg.mat, -leg.freq * n) = leg.eff ELSE Roll(leg.eff, leg.freq * n) = leg.mat
MergesOddOnly ==
  \A n \in 1..((leg.mat.m - leg.eff.m) \div leg.freq) : Whole(n) => Len(periods) = n
StubLength ==
  Plain =>
    /\ \A i \in DOMAIN periods :
         periods[i].end.m - periods[i].start.m <= leg.freq * (IF Long THEN 2 ELSE 1)
    /\ ~Long \/ RollDay <= 28 => MergesOddOnly

(* Together: a leg has the stubs it asks for, where and as long as it asks. *)
StubsAsAsked == OneStub /\ StubLength

(* Coupons are paid in the order of their periods, on business days, and a *)
(* modified convention without a lag pays in the month the period ends in; *)
(* a rate is fixed with two business days left before its period.          *)
PaidInOrder ==
  /\ \A i \in 1..(Len(periods) - 1) : periods[i].pay <= periods[i + 1].pay
  /\ \A i \in DOMAIN periods :
       /\ Cardinality({n \in periods[i].fixing..(Number(periods[i].start) - 1) : IsBusinessDay(n)}) = 2
       /\ leg.bdc # "UNADJUSTED" \/ leg.lag # 0 => IsBusinessDay(periods[i].pay)
       /\ leg.bdc \in {"MOD_FOLLOWING", "MOD_PRECEDING"} /\ leg.lag = 0 =>
            MonthOf(periods[i].pay) = periods[i].end.m

(* ACT/ACT gives each day of the leg to the year it lies in, once, however *)
(* the schedule cuts the leg into periods.                                 *)
InLeapYear ==
  [n \in 1..MonthStart[Months - 1] |-> LeapYear(MonthOf(n) \div 12)]
AccruesEachDay ==
  \A i \in DOMAIN periods :
    LET days == Number(periods[i].start)..(Number(periods[i].end) - 1)
        leap == {n \in days : InLeapYear[n]}
    IN  ActActIsda(periods[i].start, periods[i].end)
          = <<Cardinality(leap), Cardinality(days) - Cardinality(leap)>>
=============================================================================
