----------------------------- MODULE Schedules -----------------------------
(***************************************************************************)
(* The coupon schedule of a leg: pricing/schedule.py over the business-day *)
(* calendars of pricing/calendars.py and the day counts of                 *)
(* pricing/day_count.py.                                                   *)
(*                                                                         *)
(* A date is a month, counted from January of the first year, and a day of *)
(* it.  Number turns it into a day count, so that differences, weekdays    *)
(* and holidays are arithmetic.                                            *)
(***************************************************************************)
EXTENDS Integers, SequencesExt

CONSTANTS MonthDays,    \* a function from months to their lengths
          Saturday,     \* Number of a Saturday
          Holidays,     \* Numbers of the calendar's holidays
          NoDate

Months == Cardinality(DOMAIN MonthDays)

ASSUME CalendarAssumption ==
  /\ Months \in Nat /\ DOMAIN MonthDays = 0..(Months - 1)
  /\ \A m \in DOMAIN MonthDays : MonthDays[m] \in 28..31
  /\ Saturday \in 1..7
  /\ Holidays \subseteq 1..(31 * Months)

MonthStart[m \in DOMAIN MonthDays] == IF m = 0 THEN 0 ELSE MonthStart[m - 1] + MonthDays[m - 1]

Number(dt) == MonthStart[dt.m] + dt.d
MonthOf(n) == CHOOSE m \in DOMAIN MonthDays : n \in (MonthStart[m] + 1)..(MonthStart[m] + MonthDays[m])
LeapYear(y) == MonthDays[12 * y + 1] = 29

(* Variant of Roll: the day is kept, whatever the month's length.          *)
RollUncut(dt, n) == [m |-> dt.m + n, d |-> dt.d]

(* date + relativedelta(months=n): the day is cut to the month's length.   *)
Roll(dt, n) == LET m == dt.m + n IN [m |-> m, d |-> IF dt.d > MonthDays[m] THEN MonthDays[m] ELSE dt.d]

(***************************************************************************)
(* Business days                                                           *)
(***************************************************************************)
IsBusinessDay(n) == (n - Saturday) % 7 \notin {0, 1} /\ n \notin Holidays

NextBusinessDay[n \in Int] == IF IsBusinessDay(n) THEN n ELSE NextBusinessDay[n + 1]
PrevBusinessDay[n \in Int] == IF IsBusinessDay(n) THEN n ELSE PrevBusinessDay[n - 1]

AddBusinessDays(n, k) ==
  LET steps == IF k < 0 THEN -k ELSE k
      after[i \in 0..steps] ==
        IF i = 0 THEN n
        ELSE IF k < 0 THEN PrevBusinessDay[after[i - 1] - 1] ELSE NextBusinessDay[after[i - 1] + 1]
  IN  after[steps]

(* Every month has a business day, and a year 365 days or 366.             *)
ASSUME YearsAssumption ==
  /\ \A m \in DOMAIN MonthDays :
       \E n \in (MonthStart[m] + 1)..(MonthStart[m] + MonthDays[m]) : IsBusinessDay(n)
  /\ \A y \in 0..Months : 12 * (y + 1) \in DOMAIN MonthDays =>
       MonthStart[12 * (y + 1)] - MonthStart[12 * y] = IF LeapYear(y) THEN 366 ELSE 365

(* Variant of ApplyBdc: an adjustment that leaves the month is kept.       *)
ApplyBdcPlain(n, bdc) ==
  CASE bdc = "UNADJUSTED"                    -> n
    [] bdc \in {"PRECEDING", "MOD_PRECEDING"} -> PrevBusinessDay[n]
    [] OTHER                                 -> NextBusinessDay[n]

ApplyBdc(n, bdc) ==
  LET after  == NextBusinessDay[n]
      before == PrevBusinessDay[n]
  IN  CASE bdc = "UNADJUSTED"    -> n
        [] bdc = "PRECEDING"     -> before
        [] bdc = "MOD_FOLLOWING" -> IF MonthOf(after) = MonthOf(n) THEN after ELSE before
        [] bdc = "MOD_PRECEDING" -> IF MonthOf(before) = MonthOf(n) THEN before ELSE after
        [] OTHER                 -> after

(***************************************************************************)
(* Day counts: the days of a period, and of ACT/ACT those in leap years and*)
(* those in others.                                                        *)
(***************************************************************************)
ActDays(s, e) == Number(e) - Number(s)

(* Variant of ActActIsda: the first year is split off without its length.  *)
ActActIsdaOneYear(s, e) ==
  IF LeapYear(s.m \div 12) THEN <<ActDays(s, e), 0>> ELSE <<0, ActDays(s, e)>>

YearDays(y, n) == IF LeapYear(y) THEN <<n, 0>> ELSE <<0, n>>
Plus(a, b) == <<a[1] + b[1], a[2] + b[2]>>
NewYear(y) == MonthStart[12 * y] + 1

(* The n whole years after y.                                              *)
WholeYears(y, n) ==
  LET days[i \in 0..n] ==
        IF i = 0 THEN <<0, 0>>
        ELSE Plus(days[i - 1], YearDays(y + i, IF LeapYear(y + i) THEN 366 ELSE 365))
  IN  days[n]

ActActIsda(s, e) ==
  LET y1 == s.m \div 12
      y2 == e.m \div 12
  IN  IF y1 = y2 THEN YearDays(y1, ActDays(s, e))
      ELSE Plus(Plus(YearDays(y1, NewYear(y1 + 1) - Number(s)), WholeYears(y1, y2 - y1 - 1)),
                YearDays(y2, Number(e) - NewYear(y2)))

(***************************************************************************)
(* generate_schedule.  A leg has the dates eff and mat, a frequency in     *)
(* months (0: zero coupon), a stub type, optional first and last dates, a  *)
(* business-day convention and a payment lag.                              *)
(***************************************************************************)
Before(a, b) == Number(a) < Number(b)
Start0(leg) == IF leg.first = NoDate THEN leg.eff ELSE leg.first
End0(leg)   == IF leg.last = NoDate THEN leg.mat ELSE leg.last

(* The unadjusted ends, each counted from the anchor: backward from the    *)
(* maturity (or the last regular date), or forward from the effective date.*)
Rolls(leg, anchor, delta) ==
  {k \in 1..Months :
     anchor.m + delta * k \in DOMAIN MonthDays /\
       LET r == Roll(anchor, delta * k) IN Before(leg.eff, r) /\ Before(r, leg.mat)}

(* Variant of RolledBack: each date is rolled from the one after it.       *)
RolledBackStepwise(leg) ==
  LET step[k \in Nat] == IF k = 0 THEN leg.mat ELSE Roll(step[k - 1], -leg.freq)
      n == Cardinality(Rolls(leg, leg.mat, -leg.freq))
  IN  [i \in 1..(n + 1) |-> step[n + 1 - i]]

RolledBack(leg) ==
  LET anchor == IF leg.last # NoDate /\ Before(leg.last, leg.mat) THEN leg.last ELSE leg.mat
      delta  == -leg.freq
      n      == Cardinality(Rolls(leg, anchor, delta))
      rolled == [i \in 1..(n + 1) |-> Roll(anchor, delta * (n + 1 - i))]
      ends   == IF anchor = leg.mat THEN rolled ELSE Append(rolled, leg.mat)
      odd    == Len(ends) >= 2 /\ Roll(ends[1], delta) # Start0(leg)
  IN  IF leg.stub = "LONG_FRONT" /\ odd /\ leg.first = NoDate THEN Tail(ends) ELSE ends

RolledForward(leg) ==
  LET n    == Cardinality(Rolls(leg, leg.eff, leg.freq))
      ends == [i \in 1..n |-> Roll(leg.eff, leg.freq * i)]
      odd  == n > 0 /\ Roll(Last(ends), leg.freq) # leg.mat
  IN  Append(IF leg.stub = "LONG_BACK" /\ odd THEN Front(ends) ELSE ends, leg.mat)

EndDates(leg) ==
  IF leg.freq = 0 THEN <<End0(leg)>>
  ELSE IF leg.stub \in {"SHORT_FRONT", "LONG_FRONT"} \/ leg.last # NoDate
       THEN RolledBack(leg) ELSE RolledForward(leg)

Period(leg, s, e) ==
  [start |-> s, end |-> e,
   pay |-> AddBusinessDays(ApplyBdc(Number(e), leg.bdc), leg.lag),
   fixing |-> AddBusinessDays(Number(s), -2)]

(* Variant of Schedule: empty periods are kept.                            *)
ScheduleUnskipped(leg) ==
  LET ends   == EndDates(leg)
      starts == <<Start0(leg)>> \o Front(ends)
  IN  [i \in 1..Len(ends) |-> Period(leg, starts[i], ends[i])]

Schedule(leg) ==
  LET ends   == EndDates(leg)
      starts == <<Start0(leg)>> \o Front(ends)
      all    == [i \in 1..Len(ends) |-> Period(leg, starts[i], ends[i])]
      kept[i \in 0..Len(all)] ==
        IF i = 0 THEN <<>>
        ELSE IF Before(all[i].start, all[i].end) THEN Append(kept[i - 1], all[i]) ELSE kept[i - 1]
  IN  IF leg.freq = 0 THEN all ELSE kept[Len(all)]
=============================================================================
