---------------------------- MODULE CouponsProofs ----------------------------
(* Theorems about the coupon schedule, for every calendar and every set of *)
(* legs that have their dates in it.                                       *)
EXTENDS Coupons, FiniteSetTheorems, SequenceTheorems, WellFoundedInduction, TLAPS

----------------------------------------------------------------------------
(* A nonempty set of naturals has a least element.                         *)
LEMMA LeastOf ==
  ASSUME NEW T \in SUBSET Nat, T # {}
  PROVE  \E x \in T : \A y \in T : x <= y
<1>1. PICK R : R = OpToRel(<, Nat)
  OBVIOUS
<1>2. IsWellFoundedOn(R, Nat)
  BY <1>1, NatLessThanWellFounded
<1>3. PICK x \in T : \A y \in T : <<y, x>> \notin R
  BY <1>2, WFMin
<1>4. \A a, b \in Nat : <<a, b>> \in R <=> a < b
  BY <1>1 DEF OpToRel
<1>5. \A y \in T : ~(y < x)
  BY <1>3, <1>4
<1>6. \A y \in T : y \in Int /\ x \in Int
  OBVIOUS
<1>7. QED
  BY <1>5, <1>6

(* Induction, as a statement about a set.                                  *)
LEMMA SetInduction ==
  ASSUME NEW S \in SUBSET Nat, 0 \in S, \A n \in S : n + 1 \in S
  PROVE  S = Nat
<1>1. SUFFICES ASSUME Nat \ S # {} PROVE FALSE
  OBVIOUS
<1>2. PICK x \in Nat \ S : \A y \in Nat \ S : x <= y
  BY <1>1, LeastOf
<1>3. x # 0 /\ x - 1 \in Nat
  OBVIOUS
<1>4. x - 1 \in S
  BY <1>2, <1>3
<1>5. QED
  BY <1>3, <1>4

(* A value for each step up to n, each made from the one before it.        *)
Goes(next, n, V) == \A i \in 1..n, v \in V : next[<<i, v>>] \in V

Recurs(f, n, V, v0, next) ==
  f \in [0..n -> V] /\ f[0] = v0 /\ \A i \in 1..n : f[i] = next[<<i, f[i - 1]>>]

(* Such a function exists whenever each step keeps to the values.          *)
LEMMA Recursion ==
  ASSUME NEW n \in Nat, NEW V, NEW v0 \in V, NEW next, Goes(next, n, V)
  PROVE  \E f : Recurs(f, n, V, v0, next)
<1>. DEFINE Upto(f, m) == f \in [0..m -> V] /\ f[0] = v0 /\ \A i \in 1..m : f[i] = next[<<i, f[i - 1]>>]
            S == {m \in Nat : m <= n => \E f : Upto(f, m)}
<1>1. 0 \in S
  <2>1. PICK f : f = [i \in 0..0 |-> v0]
    OBVIOUS
  <2>2. Upto(f, 0)
    BY <2>1
  <2>3. QED
    BY <2>2
<1>2. ASSUME NEW m \in S PROVE m + 1 \in S
  <2>1. SUFFICES ASSUME m + 1 <= n PROVE \E f : Upto(f, m + 1)
    OBVIOUS
  <2>2. PICK f : Upto(f, m)
    BY <2>1
  <2>3. PICK g : g = [i \in 0..(m + 1) |-> IF i = m + 1 THEN next[<<m + 1, f[m]>>] ELSE f[i]]
    OBVIOUS
  <2>4. m \in 0..m /\ f[m] \in V /\ m + 1 \in 1..n
    BY <2>1, <2>2
  <2>5. next[<<m + 1, f[m]>>] \in V
    BY <2>4 DEF Goes
  <2>6. g \in [0..(m + 1) -> V]
    BY <2>2, <2>3, <2>5
  <2>7. ASSUME NEW i \in 1..(m + 1) PROVE g[i] = next[<<i, g[i - 1]>>]
    <3>1. CASE i = m + 1
      <4>1. i - 1 = m /\ m \in 0..(m + 1) /\ m # m + 1 /\ i \in 0..(m + 1)
        BY <3>1
      <4>2. g[i] = next[<<m + 1, f[m]>>] /\ g[i - 1] = f[m]
        BY <2>3, <3>1, <4>1
      <4>3. QED
        BY <3>1, <4>2
    <3>2. CASE i \in 1..m
      <4>1. i - 1 \in 0..m /\ i \in 0..m
        BY <3>2
      <4>2. g[i] = f[i] /\ g[i - 1] = f[i - 1]
        BY <2>3, <4>1
      <4>3. QED
        BY <2>2, <3>2, <4>2
    <3>3. QED
      BY <3>1, <3>2
  <2>8. g[0] = v0
    BY <2>2, <2>3
  <2>9. QED
    BY <2>6, <2>7, <2>8
<1>. HIDE DEF S
<1>3. S = Nat
  BY <1>1, <1>2, SetInduction DEF S
<1>4. n \in S
  BY <1>3
<1>5. PICK f : Upto(f, n)
  BY <1>4 DEF S
<1>6. QED
  BY <1>5 DEF Recurs

(* Numbers from 1 to n without gaps are counted by the last.               *)
LEMMA Counted ==
  ASSUME NEW n \in Nat, NEW S \in SUBSET (1..n), \A k \in S : \A j \in 1..k : j \in S
  PROVE  Cardinality(S) \in 0..n /\ S = 1..Cardinality(S)
<1>. DEFINE B == {j \in 0..n : \A k \in S : k <= j}
<1>1. PICK x \in B : \A y \in B : x <= y
  <2>1. n \in B /\ B \in SUBSET Nat
    OBVIOUS
  <2>. HIDE DEF B
  <2>2. QED
    BY <2>1, LeastOf
<1>2. x = 0 \/ x \in S
  <2>1. SUFFICES ASSUME x # 0, x \notin S PROVE FALSE
    OBVIOUS
  <2>2. x - 1 \in 0..n /\ \A k \in S : k <= x - 1
    BY <1>1, <2>1
  <2>3. QED
    BY <1>1, <2>2
<1>3. S = 1..x
  <2>1. \A j \in 1..x : j \in S
    BY <1>2
  <2>2. \A k \in S : k \in 1..x
    BY <1>1
  <2>3. QED
    BY <2>1, <2>2
<1>4. Cardinality(1..x) = x
  <2>1. x \in Nat
    BY <1>1
  <2>2. QED
    BY <2>1, FS_Interval
<1>5. QED
  BY <1>1, <1>3, <1>4

----------------------------------------------------------------------------
(* The months of the calendar.                                             *)
LEMMA MonthLength ==
  ASSUME NEW m \in DOMAIN MonthDays
  PROVE  m \in Nat /\ m < Months /\ Months \in Nat /\ MonthDays[m] \in Nat /\ MonthDays[m] \in 28..31
BY CalendarAssumption

(* MonthStart adds up the months before.                                   *)
LEMMA MonthStartIs ==
  ASSUME NEW m \in DOMAIN MonthDays
  PROVE  /\ MonthStart[m] = IF m = 0 THEN 0 ELSE MonthStart[m - 1] + MonthDays[m - 1]
         /\ MonthStart[m] \in Nat
<1>. DEFINE D == DOMAIN MonthDays
            Adds(f) == f = [i \in D |-> IF i = 0 THEN 0 ELSE f[i - 1] + MonthDays[i - 1]]
<1>1. Months - 1 \in Nat /\ D = 0..(Months - 1)
  BY MonthLength, CalendarAssumption
<1>2. PICK next : next = [x \in (1..(Months - 1)) \X Nat |-> x[2] + MonthDays[x[1] - 1]]
  OBVIOUS
<1>3. ASSUME NEW i \in 1..(Months - 1), NEW v \in Nat
      PROVE  next[<<i, v>>] = v + MonthDays[i - 1] /\ next[<<i, v>>] \in Nat
  <2>1. MonthDays[i - 1] \in Nat
    BY <1>1, MonthLength
  <2>2. QED
    BY <1>2, <2>1
<1>4. PICK f : f \in [0..(Months - 1) -> Nat] /\ f[0] = 0
               /\ \A i \in 1..(Months - 1) : f[i] = next[<<i, f[i - 1]>>]
  <2>1. Goes(next, Months - 1, Nat)
    BY <1>3 DEF Goes
  <2>2. \E f : Recurs(f, Months - 1, Nat, 0, next)
    BY <1>1, <2>1, Recursion
  <2>3. QED
    BY <2>2 DEF Recurs
<1>5. Adds(f)
  <2>1. ASSUME NEW i \in D PROVE f[i] = IF i = 0 THEN 0 ELSE f[i - 1] + MonthDays[i - 1]
    <3>1. CASE i = 0
      BY <1>4, <3>1
    <3>2. CASE i # 0
      <4>1. i \in 1..(Months - 1) /\ i - 1 \in 0..(Months - 1)
        BY <1>1, <3>2
      <4>2. QED
        BY <1>3, <1>4, <3>2, <4>1
    <3>3. QED
      BY <3>1, <3>2
  <2>2. f = [i \in D |-> f[i]]
    BY <1>1, <1>4
  <2>. HIDE DEF D
  <2>3. QED
    BY <2>1, <2>2
<1>6. MonthStart = CHOOSE g : Adds(g)
  BY DEF MonthStart
<1>7. Adds(MonthStart)
  BY <1>5, <1>6
<1>8. ASSUME NEW i \in D
      PROVE  MonthStart[i] = IF i = 0 THEN 0 ELSE MonthStart[i - 1] + MonthDays[i - 1]
  BY <1>7
<1>. DEFINE S == {i \in Nat : i \in D => MonthStart[i] \in Nat}
<1>9. S = Nat
  <2>1. 0 \in S
    BY <1>8
  <2>2. ASSUME NEW i \in S PROVE i + 1 \in S
    <3>1. SUFFICES ASSUME i + 1 \in D PROVE MonthStart[i + 1] \in Nat
      OBVIOUS
    <3>2. i \in D /\ i + 1 # 0 /\ (i + 1) - 1 = i
      BY <1>1, <3>1
    <3>3. MonthStart[i] \in Nat /\ MonthDays[i] \in Nat
      BY <3>2, MonthLength
    <3>4. MonthStart[i + 1] = MonthStart[i] + MonthDays[i]
      BY <1>8, <3>1, <3>2
    <3>5. QED
      BY <3>3, <3>4
  <2>. HIDE DEF S
  <2>3. QED
    BY <2>1, <2>2, SetInduction DEF S
<1>10. m \in Nat
  BY MonthLength
<1>11. QED
  BY <1>8, <1>9, <1>10

(* A month starts where the one before it ends.                            *)
LEMMA MonthEnds ==
  ASSUME NEW m \in DOMAIN MonthDays, m + 1 \in DOMAIN MonthDays
  PROVE  MonthStart[m + 1] = MonthStart[m] + MonthDays[m]
<1>1. m \in Nat /\ m + 1 # 0 /\ (m + 1) - 1 = m
  BY MonthLength
<1>2. QED
  BY <1>1, MonthStartIs

(* Months follow each other without overlap ...                            *)
LEMMA MonthsInOrder ==
  ASSUME NEW a \in DOMAIN MonthDays, NEW b \in DOMAIN MonthDays, a < b
  PROVE  MonthStart[a] + MonthDays[a] <= MonthStart[b]
<1>. DEFINE S == {k \in Nat : a + 1 + k <= b => MonthStart[a] + MonthDays[a] <= MonthStart[a + 1 + k]}
<1>1. a \in Nat /\ b \in Nat /\ DOMAIN MonthDays = 0..(Months - 1) /\ Months \in Nat
  BY MonthLength, CalendarAssumption
<1>2. 0 \in S
  <2>1. a + 1 \in DOMAIN MonthDays /\ a + 1 + 0 = a + 1
    BY <1>1
  <2>2. MonthStart[a + 1] = MonthStart[a] + MonthDays[a]
    BY <2>1, MonthEnds
  <2>3. MonthStart[a + 1] \in Nat
    BY <2>1, MonthStartIs
  <2>4. QED
    BY <2>1, <2>2, <2>3
<1>3. ASSUME NEW k \in S PROVE k + 1 \in S
  <2>1. SUFFICES ASSUME a + 1 + (k + 1) <= b
                 PROVE  MonthStart[a] + MonthDays[a] <= MonthStart[a + 1 + (k + 1)]
    OBVIOUS
  <2>2. PICK c : c = a + 1 + k
    OBVIOUS
  <2>3. c \in DOMAIN MonthDays /\ c + 1 \in DOMAIN MonthDays /\ c + 1 = a + 1 + (k + 1)
    BY <1>1, <2>1, <2>2
  <2>4. MonthStart[a] + MonthDays[a] <= MonthStart[c]
    BY <1>1, <2>1, <2>2
  <2>5. MonthStart[c + 1] = MonthStart[c] + MonthDays[c]
    BY <2>3, MonthEnds
  <2>6. MonthStart[c] \in Nat /\ MonthDays[c] \in Nat /\ MonthStart[a] \in Nat /\ MonthDays[a] \in Nat
    BY <2>3, MonthStartIs, MonthLength
  <2>7. QED
    BY <2>3, <2>4, <2>5, <2>6
<1>. HIDE DEF S
<1>4. S = Nat
  BY <1>2, <1>3, SetInduction DEF S
<1>5. PICK k : k = b - a - 1
  OBVIOUS
<1>6. k \in S /\ a + 1 + k = b /\ a + 1 + k <= b
  BY <1>1, <1>4, <1>5
<1>7. QED
  BY <1>6 DEF S

(* ... so a day lies in one of them.                                       *)
InMonth(n, m) == n \in (MonthStart[m] + 1)..(MonthStart[m] + MonthDays[m])

(* Days in order lie in months in order, and one day in one month.         *)
LEMMA OneMonth ==
  ASSUME NEW a \in DOMAIN MonthDays, NEW b \in DOMAIN MonthDays, NEW i \in Int, NEW j \in Int,
         InMonth(i, a), InMonth(j, b), i <= j
  PROVE  a <= b /\ (i = j => a = b)
<1>1. /\ a \in Nat /\ MonthStart[a] \in Nat /\ MonthDays[a] \in Nat
      /\ b \in Nat /\ MonthStart[b] \in Nat /\ MonthDays[b] \in Nat
  BY MonthLength, MonthStartIs
<1>2. b < a => MonthStart[b] + MonthDays[b] <= MonthStart[a]
  BY MonthsInOrder
<1>3. a < b => MonthStart[a] + MonthDays[a] <= MonthStart[b]
  BY MonthsInOrder
<1>4. a <= b
  BY <1>1, <1>2 DEF InMonth
<1>5. i = j => b <= a
  BY <1>1, <1>3 DEF InMonth
<1>6. QED
  BY <1>1, <1>4, <1>5

(* MonthOf finds that month.                                               *)
LEMMA MonthOfIs ==
  ASSUME NEW m \in DOMAIN MonthDays, NEW n \in Int, InMonth(n, m)
  PROVE  MonthOf(n) = m
<1>1. \A k \in DOMAIN MonthDays : InMonth(n, k) => k = m
  BY OneMonth
<1>2. MonthOf(n) = CHOOSE k \in DOMAIN MonthDays : InMonth(n, k)
  BY DEF MonthOf, InMonth
<1>3. QED
  BY <1>1, <1>2

(* The dates of the calendar, and their order.                             *)
Calendar == {dt \in [m : DOMAIN MonthDays, d : 1..31] : dt.d <= MonthDays[dt.m]}

(* A date of the calendar is a day of its month.                           *)
LEMMA DateIs ==
  ASSUME NEW x \in Calendar
  PROVE  /\ x.m \in DOMAIN MonthDays /\ x.m \in Nat /\ x.d \in 1..MonthDays[x.m]
         /\ Number(x) \in Int /\ InMonth(Number(x), x.m) /\ MonthOf(Number(x)) = x.m
<1>1. x.m \in DOMAIN MonthDays /\ x.d \in 1..31 /\ x.d <= MonthDays[x.m]
  BY DEF Calendar
<1>2. x.m \in Nat /\ MonthStart[x.m] \in Nat /\ MonthDays[x.m] \in Nat
  BY <1>1, MonthLength, MonthStartIs
<1>3. Number(x) \in Int /\ InMonth(Number(x), x.m)
  BY <1>1, <1>2 DEF Number, InMonth
<1>4. QED
  BY <1>1, <1>2, <1>3, MonthOfIs

(* Dates are ordered by their months, then by their days.                  *)
LEMMA DatesInOrder ==
  ASSUME NEW x \in Calendar, NEW y \in Calendar
  PROVE  /\ Before(x, y) <=> x.m < y.m \/ (x.m = y.m /\ x.d < y.d)
         /\ ~Before(x, y) /\ ~Before(y, x) => x = y
<1>1. /\ x.m \in DOMAIN MonthDays /\ x.m \in Nat /\ x.d \in 1..MonthDays[x.m]
      /\ y.m \in DOMAIN MonthDays /\ y.m \in Nat /\ y.d \in 1..MonthDays[y.m]
  BY DateIs
<1>2. /\ MonthStart[x.m] \in Nat /\ MonthDays[x.m] \in Nat /\ MonthStart[y.m] \in Nat /\ MonthDays[y.m] \in Nat
  BY <1>1, MonthLength, MonthStartIs
<1>3. x.m < y.m => MonthStart[x.m] + MonthDays[x.m] <= MonthStart[y.m]
  BY <1>1, MonthsInOrder
<1>4. y.m < x.m => MonthStart[y.m] + MonthDays[y.m] <= MonthStart[x.m]
  BY <1>1, MonthsInOrder
<1>5. Number(x) = MonthStart[x.m] + x.d /\ Number(y) = MonthStart[y.m] + y.d
  BY DEF Number
<1>6. Before(x, y) <=> x.m < y.m \/ (x.m = y.m /\ x.d < y.d)
  BY <1>1, <1>2, <1>3, <1>4, <1>5 DEF Before
<1>7. Before(y, x) <=> y.m < x.m \/ (x.m = y.m /\ y.d < x.d)
  BY <1>1, <1>2, <1>3, <1>4, <1>5 DEF Before
<1>8. ~Before(x, y) /\ ~Before(y, x) => x.m = y.m /\ x.d = y.d
  BY <1>1, <1>6, <1>7
<1>9. x \in [m : DOMAIN MonthDays, d : 1..31] /\ y \in [m : DOMAIN MonthDays, d : 1..31]
  BY DEF Calendar
<1>10. QED
  BY <1>6, <1>8, <1>9

----------------------------------------------------------------------------
(* Business days.  Every day has one after and before it.                  *)
LEMMA WeekdayNear ==
  ASSUME NEW n \in Int
  PROVE  \E x \in n..(n + 2) : (x - Saturday) % 7 \notin {0, 1}
<1>1. Saturday \in 1..7
  BY CalendarAssumption
<1>2. QED
  BY <1>1

(* Business days go on in both directions: the holidays end.               *)
LEMMA BusinessDaysGoOn ==
  ASSUME NEW n \in Int
  PROVE  (\E k \in Nat : IsBusinessDay(n + k)) /\ (\E k \in Nat : IsBusinessDay(n - k))
<1>1. Holidays \subseteq 1..(31 * Months) /\ Months \in Nat
  BY CalendarAssumption
<1>2. PICK late \in Int : late >= n /\ late > 31 * Months
  <2>1. 31 * Months \in Nat
    BY <1>1
  <2>2. CASE n > 31 * Months
    BY <2>1, <2>2
  <2>3. CASE ~(n > 31 * Months)
    BY <2>1, <2>3
  <2>4. QED
    BY <2>2, <2>3
<1>3. PICK early \in Int : early <= n - 2 /\ early <= -2
  <2>1. CASE n <= 0
    <3>1. n - 2 \in Int /\ n - 2 <= n - 2 /\ n - 2 <= -2
      BY <2>1
    <3>2. QED
      BY <3>1
  <2>2. CASE ~(n <= 0)
    <3>1. -2 \in Int /\ -2 <= n - 2
      BY <2>2
    <3>2. QED
      BY <3>1
  <2>3. QED
    BY <2>1, <2>2
<1>4. PICK x \in late..(late + 2) : (x - Saturday) % 7 \notin {0, 1}
  BY WeekdayNear
<1>5. PICK y \in early..(early + 2) : (y - Saturday) % 7 \notin {0, 1}
  BY WeekdayNear
<1>7. x \in Int /\ x >= n /\ x \notin 1..(31 * Months) /\ y \in Int /\ y <= n /\ y \notin 1..(31 * Months)
  <2>1. 31 * Months \in Nat
    BY <1>1
  <2>2. QED
    BY <1>2, <1>3, <1>4, <1>5, <2>1
<1>9. IsBusinessDay(x) /\ IsBusinessDay(y)
  BY <1>1, <1>4, <1>5, <1>7 DEF IsBusinessDay
<1>10. x - n \in Nat /\ n + (x - n) = x /\ n - y \in Nat /\ n - (n - y) = y
  BY <1>7
<1>11. \E k \in Nat : IsBusinessDay(n + k)
  BY <1>9, <1>10
<1>12. \E k \in Nat : IsBusinessDay(n - k)
  BY <1>9, <1>10
<1>13. QED
  BY <1>11, <1>12

(* NextBusinessDay is the first business day from a day on.                *)
NextOn(n, x) ==
  x \in Int /\ n <= x /\ IsBusinessDay(x) /\ \A j \in n..(x - 1) : ~IsBusinessDay(j)

(* There is a first business day from every day on ...                     *)
LEMMA NextExists ==
  ASSUME NEW n \in Int PROVE \E x : NextOn(n, x)
<1>. DEFINE K == {k \in Nat : IsBusinessDay(n + k)}
<1>1. K # {} /\ K \in SUBSET Nat
  BY BusinessDaysGoOn
<1>. HIDE DEF K
<1>2. PICK k \in K : \A i \in K : k <= i
  BY <1>1, LeastOf
<1>3. PICK x \in Int : x = n + k
  BY <1>1
<1>4. k \in Nat /\ IsBusinessDay(x)
  BY <1>1, <1>3 DEF K
<1>5. ASSUME NEW j \in n..(x - 1) PROVE ~IsBusinessDay(j)
  <2>1. j - n \in Nat /\ j - n < k /\ n + (j - n) = j
    BY <1>3, <1>4
  <2>2. j - n \notin K
    BY <1>2, <1>4, <2>1
  <2>3. QED
    BY <2>1, <2>2 DEF K
<1>6. n <= x
  BY <1>3, <1>4
<1>7. QED
  BY <1>4, <1>5, <1>6 DEF NextOn

(* ... only one ...                                                        *)
LEMMA NextUnique ==
  ASSUME NEW n \in Int, NEW x, NEW y, NextOn(n, x), NextOn(n, y)
  PROVE  x = y
BY DEF NextOn

(* ... which is also the first from the next day on ...                    *)
LEMMA NextFurther ==
  ASSUME NEW n \in Int, NEW x, ~IsBusinessDay(n), NextOn(n, x)
  PROVE  NextOn(n + 1, x)
BY DEF NextOn

(* ... and the recursion of the code finds it.                             *)
LEMMA NextIs ==
  ASSUME NEW n \in Int PROVE NextOn(n, NextBusinessDay[n])
<1>. DEFINE Steps(f) == f = [i \in Int |-> IF IsBusinessDay(i) THEN i ELSE f[i + 1]]
<1>1. PICK f : f = [i \in Int |-> CHOOSE x : NextOn(i, x)]
  OBVIOUS
<1>2. ASSUME NEW i \in Int PROVE NextOn(i, f[i])
  BY <1>1, NextExists
<1>3. ASSUME NEW i \in Int PROVE f[i] = IF IsBusinessDay(i) THEN i ELSE f[i + 1]
  <2>1. CASE IsBusinessDay(i)
    <3>1. NextOn(i, i)
      BY <2>1 DEF NextOn
    <3>2. QED
      BY <1>2, <2>1, <3>1, NextUnique
  <2>2. CASE ~IsBusinessDay(i)
    <3>1. NextOn(i + 1, f[i]) /\ i + 1 \in Int
      BY <1>2, <2>2, NextFurther
    <3>2. NextOn(i + 1, f[i + 1])
      BY <1>2, <3>1
    <3>3. QED
      BY <2>2, <3>1, <3>2, NextUnique
  <2>3. QED
    BY <2>1, <2>2
<1>4. Steps(f)
  <2>1. f = [i \in Int |-> f[i]]
    BY <1>1
  <2>2. QED
    BY <1>3, <2>1
<1>5. NextBusinessDay = CHOOSE g : Steps(g)
  BY DEF NextBusinessDay
<1>6. Steps(NextBusinessDay)
  BY <1>4, <1>5
<1>7. ASSUME NEW i \in Int
      PROVE  NextBusinessDay[i] = IF IsBusinessDay(i) THEN i ELSE NextBusinessDay[i + 1]
  BY <1>6
<1>. DEFINE S == {k \in Nat : \A i \in Int : NextOn(i, i + k) => NextBusinessDay[i] = i + k}
<1>8. 0 \in S
  <2>1. ASSUME NEW i \in Int, NextOn(i, i + 0) PROVE NextBusinessDay[i] = i + 0
    <3>1. IsBusinessDay(i) /\ i + 0 = i
      BY <2>1 DEF NextOn
    <3>2. QED
      BY <1>7, <3>1
  <2>2. QED
    BY <2>1
<1>9. ASSUME NEW k \in S PROVE k + 1 \in S
  <2>1. ASSUME NEW i \in Int, NextOn(i, i + (k + 1)) PROVE NextBusinessDay[i] = i + (k + 1)
    <3>1. ~IsBusinessDay(i) /\ i + 1 \in Int /\ (i + 1) + k = i + (k + 1)
      BY <2>1 DEF NextOn
    <3>2. NextOn(i + 1, (i + 1) + k)
      BY <2>1, <3>1, NextFurther
    <3>3. NextBusinessDay[i + 1] = (i + 1) + k
      BY <3>1, <3>2
    <3>4. QED
      BY <1>7, <3>1, <3>3
  <2>2. QED
    BY <2>1
<1>. HIDE DEF S
<1>10. S = Nat
  BY <1>8, <1>9, SetInduction DEF S
<1>11. PICK x : NextOn(n, x)
  BY NextExists
<1>12. PICK k \in Nat : x = n + k
  <2>1. x - n \in Nat /\ x = n + (x - n)
    BY <1>11 DEF NextOn
  <2>2. QED
    BY <2>1
<1>13. NextBusinessDay[n] = x
  <2>1. k \in S
    BY <1>10
  <2>2. QED
    BY <1>11, <1>12, <2>1 DEF S
<1>14. QED
  BY <1>11, <1>13

(* PrevBusinessDay is the last one up to a day.                            *)
PrevOn(n, x) ==
  x \in Int /\ x <= n /\ IsBusinessDay(x) /\ \A j \in (x + 1)..n : ~IsBusinessDay(j)

(* There is a last business day up to every day ...                        *)
LEMMA PrevExists ==
  ASSUME NEW n \in Int PROVE \E x : PrevOn(n, x)
<1>. DEFINE K == {k \in Nat : IsBusinessDay(n - k)}
<1>1. K # {} /\ K \in SUBSET Nat
  BY BusinessDaysGoOn
<1>. HIDE DEF K
<1>2. PICK k \in K : \A i \in K : k <= i
  BY <1>1, LeastOf
<1>3. PICK x \in Int : x = n - k
  BY <1>1
<1>4. k \in Nat /\ IsBusinessDay(x)
  BY <1>1, <1>3 DEF K
<1>5. ASSUME NEW j \in (x + 1)..n PROVE ~IsBusinessDay(j)
  <2>1. n - j \in Nat /\ n - j < k /\ n - (n - j) = j
    BY <1>3, <1>4
  <2>2. n - j \notin K
    BY <1>2, <1>4, <2>1
  <2>3. QED
    BY <2>1, <2>2 DEF K
<1>6. x <= n
  BY <1>3, <1>4
<1>7. QED
  BY <1>4, <1>5, <1>6 DEF PrevOn

(* ... only one ...                                                        *)
LEMMA PrevUnique ==
  ASSUME NEW n \in Int, NEW x, NEW y, PrevOn(n, x), PrevOn(n, y)
  PROVE  x = y
BY DEF PrevOn

(* ... which is also the last up to the day before ...                     *)
LEMMA PrevFurther ==
  ASSUME NEW n \in Int, NEW x, ~IsBusinessDay(n), PrevOn(n, x)
  PROVE  PrevOn(n - 1, x)
BY DEF PrevOn

(* ... and the recursion of the code finds it.                             *)
LEMMA PrevIs ==
  ASSUME NEW n \in Int PROVE PrevOn(n, PrevBusinessDay[n])
<1>. DEFINE Steps(f) == f = [i \in Int |-> IF IsBusinessDay(i) THEN i ELSE f[i - 1]]
<1>1. PICK f : f = [i \in Int |-> CHOOSE x : PrevOn(i, x)]
  OBVIOUS
<1>2. ASSUME NEW i \in Int PROVE PrevOn(i, f[i])
  BY <1>1, PrevExists
<1>3. ASSUME NEW i \in Int PROVE f[i] = IF IsBusinessDay(i) THEN i ELSE f[i - 1]
  <2>1. CASE IsBusinessDay(i)
    <3>1. PrevOn(i, i)
      BY <2>1 DEF PrevOn
    <3>2. QED
      BY <1>2, <2>1, <3>1, PrevUnique
  <2>2. CASE ~IsBusinessDay(i)
    <3>1. PrevOn(i - 1, f[i]) /\ i - 1 \in Int
      BY <1>2, <2>2, PrevFurther
    <3>2. PrevOn(i - 1, f[i - 1])
      BY <1>2, <3>1
    <3>3. QED
      BY <2>2, <3>1, <3>2, PrevUnique
  <2>3. QED
    BY <2>1, <2>2
<1>4. Steps(f)
  <2>1. f = [i \in Int |-> f[i]]
    BY <1>1
  <2>2. QED
    BY <1>3, <2>1
<1>5. PrevBusinessDay = CHOOSE g : Steps(g)
  BY DEF PrevBusinessDay
<1>6. Steps(PrevBusinessDay)
  BY <1>4, <1>5
<1>7. ASSUME NEW i \in Int
      PROVE  PrevBusinessDay[i] = IF IsBusinessDay(i) THEN i ELSE PrevBusinessDay[i - 1]
  BY <1>6
<1>. DEFINE S == {k \in Nat : \A i \in Int : PrevOn(i, i - k) => PrevBusinessDay[i] = i - k}
<1>8. 0 \in S
  <2>1. ASSUME NEW i \in Int, PrevOn(i, i - 0) PROVE PrevBusinessDay[i] = i - 0
    <3>1. IsBusinessDay(i) /\ i - 0 = i
      BY <2>1 DEF PrevOn
    <3>2. QED
      BY <1>7, <3>1
  <2>2. QED
    BY <2>1
<1>9. ASSUME NEW k \in S PROVE k + 1 \in S
  <2>1. ASSUME NEW i \in Int, PrevOn(i, i - (k + 1)) PROVE PrevBusinessDay[i] = i - (k + 1)
    <3>1. ~IsBusinessDay(i) /\ i - 1 \in Int /\ (i - 1) - k = i - (k + 1)
      BY <2>1 DEF PrevOn
    <3>2. PrevOn(i - 1, (i - 1) - k)
      BY <2>1, <3>1, PrevFurther
    <3>3. PrevBusinessDay[i - 1] = (i - 1) - k
      BY <3>1, <3>2
    <3>4. QED
      BY <1>7, <3>1, <3>3
  <2>2. QED
    BY <2>1
<1>. HIDE DEF S
<1>10. S = Nat
  BY <1>8, <1>9, SetInduction DEF S
<1>11. PICK x : PrevOn(n, x)
  BY PrevExists
<1>12. PICK k \in Nat : x = n - k
  <2>1. n - x \in Nat /\ x = n - (n - x)
    BY <1>11 DEF PrevOn
  <2>2. QED
    BY <2>1
<1>13. PrevBusinessDay[n] = x
  <2>1. k \in S
    BY <1>10
  <2>2. QED
    BY <1>11, <1>12, <2>1 DEF S
<1>14. QED
  BY <1>11, <1>13

(* Moving on to a business day keeps the order of days.                    *)
LEMMA NextMonotone ==
  ASSUME NEW n \in Int, NEW m \in Int, n <= m
  PROVE  NextBusinessDay[n] <= NextBusinessDay[m]
BY NextIs DEF NextOn

(* Moving back to a business day keeps the order of days.                  *)
LEMMA PrevMonotone ==
  ASSUME NEW n \in Int, NEW m \in Int, n <= m
  PROVE  PrevBusinessDay[n] <= PrevBusinessDay[m]
BY PrevIs DEF PrevOn

(* A lag goes one business day further with each step.                     *)
Steps(k) == IF k < 0 THEN -k ELSE k
Goings(f, n, k) ==
  f = [i \in 0..Steps(k) |->
         IF i = 0 THEN n
         ELSE IF k < 0 THEN PrevBusinessDay[f[i - 1] - 1] ELSE NextBusinessDay[f[i - 1] + 1]]

(* The days a lag passes through, one by one.                              *)
LEMMA GoingsAt ==
  ASSUME NEW n, NEW k, NEW f, Goings(f, n, k), NEW i \in 0..Steps(k)
  PROVE  f[i] = IF i = 0 THEN n
                ELSE IF k < 0 THEN PrevBusinessDay[f[i - 1] - 1] ELSE NextBusinessDay[f[i - 1] + 1]
BY DEF Goings

(* AddBusinessDays returns the last of them.                               *)
LEMMA LagIs ==
  ASSUME NEW n \in Int, NEW k \in Int
  PROVE  \E f : /\ Goings(f, n, k) /\ AddBusinessDays(n, k) = f[Steps(k)]
               /\ \A i \in 0..Steps(k) : f[i] \in Int
<1>1. Steps(k) \in Nat
  BY DEF Steps
<1>2. PICK next : next = [x \in (1..Steps(k)) \X Int |->
                            IF k < 0 THEN PrevBusinessDay[x[2] - 1] ELSE NextBusinessDay[x[2] + 1]]
  OBVIOUS
<1>3. ASSUME NEW i \in 1..Steps(k), NEW v \in Int
      PROVE  /\ next[<<i, v>>] = IF k < 0 THEN PrevBusinessDay[v - 1] ELSE NextBusinessDay[v + 1]
             /\ next[<<i, v>>] \in Int
  <2>1. PrevBusinessDay[v - 1] \in Int /\ NextBusinessDay[v + 1] \in Int
    BY NextIs, PrevIs DEF NextOn, PrevOn
  <2>2. QED
    BY <1>2, <2>1
<1>4. PICK f : Recurs(f, Steps(k), Int, n, next)
  <2>1. Goes(next, Steps(k), Int)
    BY <1>3 DEF Goes
  <2>2. QED
    BY <1>1, <2>1, Recursion
<1>5. f \in [0..Steps(k) -> Int] /\ f[0] = n
  BY <1>4 DEF Recurs
<1>6. ASSUME NEW i \in 0..Steps(k)
      PROVE  f[i] = IF i = 0 THEN n
                    ELSE IF k < 0 THEN PrevBusinessDay[f[i - 1] - 1] ELSE NextBusinessDay[f[i - 1] + 1]
  <2>1. CASE i = 0
    BY <1>5, <2>1
  <2>2. CASE i # 0
    <3>1. i \in 1..Steps(k) /\ i - 1 \in 0..Steps(k)
      BY <1>1, <2>2
    <3>2. f[i] = next[<<i, f[i - 1]>>] /\ f[i - 1] \in Int
      BY <1>4, <1>5, <3>1 DEF Recurs
    <3>3. QED
      BY <1>3, <2>2, <3>1, <3>2
  <2>3. QED
    BY <2>1, <2>2
<1>7. Goings(f, n, k)
  <2>1. f = [i \in 0..Steps(k) |-> f[i]]
    BY <1>5
  <2>2. QED
    BY <1>6, <2>1 DEF Goings
<1>8. ASSUME NEW g, Goings(g, n, k) PROVE g = f
  <2>. DEFINE S == {i \in Nat : i <= Steps(k) => g[i] = f[i]}
  <2>1. 0 \in S
    <3>1. 0 \in 0..Steps(k)
      BY <1>1
    <3>2. g[0] = n
      BY <1>8, <3>1, GoingsAt
    <3>3. QED
      BY <1>5, <3>2
  <2>2. ASSUME NEW i \in S PROVE i + 1 \in S
    <3>1. SUFFICES ASSUME i + 1 <= Steps(k) PROVE g[i + 1] = f[i + 1]
      OBVIOUS
    <3>2. i + 1 \in 0..Steps(k) /\ i + 1 # 0 /\ (i + 1) - 1 = i /\ g[i] = f[i]
      BY <1>1, <3>1
    <3>3. g[i + 1] = IF k < 0 THEN PrevBusinessDay[g[i] - 1] ELSE NextBusinessDay[g[i] + 1]
      BY <1>8, <3>2, GoingsAt
    <3>4. QED
      BY <1>6, <3>2, <3>3
  <2>. HIDE DEF S
  <2>3. S = Nat
    BY <2>1, <2>2, SetInduction DEF S
  <2>4. \A i \in 0..Steps(k) : g[i] = f[i]
    BY <1>1, <2>3 DEF S
  <2>5. g = [i \in 0..Steps(k) |-> g[i]]
    BY <1>8 DEF Goings
  <2>6. f = [i \in 0..Steps(k) |-> f[i]]
    BY <1>5
  <2>7. QED
    BY <2>4, <2>5, <2>6
<1>9. AddBusinessDays(n, k) = (CHOOSE g : Goings(g, n, k))[Steps(k)]
  BY DEF AddBusinessDays, Goings, Steps
<1>10. (CHOOSE g : Goings(g, n, k)) = f
  BY <1>7, <1>8
<1>11. QED
  BY <1>5, <1>7, <1>9, <1>10

(* A lag, forward or back, keeps the order of days and ends on a business  *)
(* day.                                                                    *)
LEMMA LagMonotone ==
  ASSUME NEW n \in Int, NEW m \in Int, n <= m, NEW k \in Int
  PROVE  /\ AddBusinessDays(n, k) \in Int /\ AddBusinessDays(n, k) <= AddBusinessDays(m, k)
         /\ k = 0 => AddBusinessDays(n, k) = n
         /\ k # 0 => IsBusinessDay(AddBusinessDays(n, k))
<1>1. PICK K \in Nat : K = Steps(k) /\ (K = 0 <=> k = 0) /\ K \in 0..K /\ 0 \in 0..K
  <2>1. Steps(k) \in Nat /\ (Steps(k) = 0 <=> k = 0)
    BY DEF Steps
  <2>2. QED
    BY <2>1
<1>2. PICK f : /\ Goings(f, n, k) /\ AddBusinessDays(n, k) = f[K]
               /\ \A i \in 0..K : f[i] \in Int
  BY <1>1, LagIs
<1>3. PICK g : /\ Goings(g, m, k) /\ AddBusinessDays(m, k) = g[K]
               /\ \A i \in 0..K : g[i] \in Int
  BY <1>1, LagIs
<1>4. f[0] = n /\ g[0] = m
  BY <1>1, <1>2, <1>3, GoingsAt
<1>5. ASSUME NEW i \in 1..K
      PROVE  /\ k < 0 => f[i] = PrevBusinessDay[f[i - 1] - 1] /\ g[i] = PrevBusinessDay[g[i - 1] - 1]
             /\ ~(k < 0) => f[i] = NextBusinessDay[f[i - 1] + 1] /\ g[i] = NextBusinessDay[g[i - 1] + 1]
  <2>1. i \in 0..Steps(k) /\ i # 0
    BY <1>1
  <2>2. QED
    BY <1>2, <1>3, <2>1, GoingsAt
<1>. DEFINE S == {i \in Nat : i <= K => f[i] <= g[i]}
<1>6. 0 \in S
  BY <1>4
<1>7. ASSUME NEW i \in S PROVE i + 1 \in S
  <2>1. SUFFICES ASSUME i + 1 <= K PROVE f[i + 1] <= g[i + 1]
    OBVIOUS
  <2>2. i + 1 \in 1..K /\ (i + 1) - 1 = i /\ i \in 0..K /\ f[i] <= g[i]
    BY <2>1
  <2>3. /\ f[i] + 1 \in Int /\ g[i] + 1 \in Int /\ f[i] + 1 <= g[i] + 1
        /\ f[i] - 1 \in Int /\ g[i] - 1 \in Int /\ f[i] - 1 <= g[i] - 1
    BY <1>2, <1>3, <2>2
  <2>4. CASE k < 0
    BY <1>5, <2>2, <2>3, <2>4, PrevMonotone
  <2>5. CASE ~(k < 0)
    BY <1>5, <2>2, <2>3, <2>5, NextMonotone
  <2>6. QED
    BY <2>4, <2>5
<1>. HIDE DEF S
<1>8. S = Nat
  BY <1>6, <1>7, SetInduction DEF S
<1>9. f[K] <= g[K]
  BY <1>8 DEF S
<1>10. k # 0 => IsBusinessDay(f[K])
  <2>1. SUFFICES ASSUME k # 0 PROVE IsBusinessDay(f[K])
    OBVIOUS
  <2>2. K \in 1..K /\ K - 1 \in 0..K
    BY <1>1, <2>1
  <2>3. f[K - 1] + 1 \in Int /\ f[K - 1] - 1 \in Int
    BY <1>2, <2>2
  <2>4. CASE k < 0
    BY <1>5, <2>2, <2>3, <2>4, PrevIs DEF PrevOn
  <2>5. CASE ~(k < 0)
    BY <1>5, <2>2, <2>3, <2>5, NextIs DEF NextOn
  <2>6. QED
    BY <2>4, <2>5
<1>11. QED
  BY <1>1, <1>2, <1>3, <1>4, <1>9, <1>10

(* A fixing has two business days before the day it is made for.           *)
LEMMA FixingIs ==
  ASSUME NEW n \in Int
  PROVE  Cardinality({i \in AddBusinessDays(n, -2)..(n - 1) : IsBusinessDay(i)}) = 2
<1>1. PICK k \in Int : k = -2
  OBVIOUS
<1>2. Steps(k) = 2 /\ k < 0
  <2>1. k + 2 = 0
    BY <1>1
  <2>2. -k = 2 /\ k < 0
    BY ONLY <2>1, k \in Int
  <2>3. QED
    BY <2>2 DEF Steps
<1>3. PICK f : /\ Goings(f, n, k) /\ AddBusinessDays(n, k) = f[Steps(k)]
               /\ \A i \in 0..Steps(k) : f[i] \in Int
  BY LagIs
<1>4. f[0] = n /\ f[1] = PrevBusinessDay[n - 1] /\ f[2] = PrevBusinessDay[f[1] - 1] /\ f[1] \in Int
  <2>1. 0 \in 0..2 /\ 1 \in 0..2 /\ 2 \in 0..2 /\ 1 - 1 = 0 /\ 2 - 1 = 1 /\ 0 # 1 /\ 2 # 0
    OBVIOUS
  <2>2. \A i \in 0..2 : f[i] = IF i = 0 THEN n ELSE PrevBusinessDay[f[i - 1] - 1]
    BY <1>2, <1>3, GoingsAt
  <2>3. \A i \in 0..2 : f[i] \in Int
    BY <1>2, <1>3
  <2>4. QED
    BY <2>1, <2>2, <2>3
<1>5. PrevOn(n - 1, f[1])
  BY <1>4, PrevIs
<1>6. f[1] - 1 \in Int /\ PrevOn(f[1] - 1, f[2])
  BY <1>4, PrevIs
<1>7. {i \in f[2]..(n - 1) : IsBusinessDay(i)} = {f[1], f[2]} /\ f[1] # f[2]
  BY <1>5, <1>6 DEF PrevOn
<1>8. Cardinality({f[1], f[2]}) = 2
  <2>1. {f[1], f[2]} = {f[1]} \union {f[2]}
    OBVIOUS
  <2>2. IsFiniteSet({f[1]}) /\ Cardinality({f[1]}) = 1
    BY FS_Singleton
  <2>3. Cardinality({f[1]} \union {f[2]}) = Cardinality({f[1]}) + 1
    BY <1>7, <2>2, FS_AddElement
  <2>4. QED
    BY <2>1, <2>2, <2>3
<1>9. AddBusinessDays(n, k) = f[2]
  BY <1>2, <1>3
<1>10. QED
  BY <1>1, <1>7, <1>8, <1>9

(* The dates of a leg and what lies between them leave the calendar a      *)
(* month at both ends, so adjusting them stays in it.                      *)
LEMMA InnerDate ==
  ASSUME NEW x \in Dates
  PROVE  /\ x \in Calendar /\ x.m \in Int /\ Number(x) \in Int /\ InMonth(Number(x), x.m)
         /\ MonthOf(Number(x)) = x.m
         /\ x.m - 1 \in DOMAIN MonthDays /\ x.m \in DOMAIN MonthDays /\ x.m + 1 \in DOMAIN MonthDays
<1>1. Months \in Nat /\ DOMAIN MonthDays = 0..(Months - 1)
  BY CalendarAssumption
<1>2. x \in [m : 1..(Months - 2), d : 1..31] /\ x.d <= MonthDays[x.m]
  BY DEF Dates
<1>3. x \in Calendar
  BY <1>1, <1>2 DEF Calendar
<1>4. QED
  BY <1>1, <1>2, <1>3, DateIs

(* Every month has a business day.                                         *)
LEMMA MonthHasDay ==
  ASSUME NEW m \in DOMAIN MonthDays
  PROVE  \E z \in Int : InMonth(z, m) /\ IsBusinessDay(z)
<1>1. MonthStart[m] \in Nat /\ MonthDays[m] \in Nat
  BY MonthStartIs, MonthLength
<1>2. PICK z \in (MonthStart[m] + 1)..(MonthStart[m] + MonthDays[m]) : IsBusinessDay(z)
  BY YearsAssumption
<1>3. QED
  BY <1>1, <1>2 DEF InMonth

(* A day between two days of a month is in that month.                     *)
LEMMA WithinMonth ==
  ASSUME NEW m \in DOMAIN MonthDays, NEW i \in Int, NEW j \in Int, NEW k \in Int,
         InMonth(i, m), InMonth(k, m), i <= j, j <= k
  PROVE  InMonth(j, m)
<1>1. MonthStart[m] \in Nat /\ MonthDays[m] \in Nat
  BY MonthStartIs, MonthLength
<1>2. QED
  BY <1>1 DEF InMonth

(* The next business day is in the month of the date or the one after; if  *)
(* it has left the month, the previous one has not.                        *)
LEMMA NextNear ==
  ASSUME NEW x \in Dates, NEW a, NextOn(Number(x), a)
  PROVE  /\ InMonth(a, x.m) \/ InMonth(a, x.m + 1)
         /\ ~InMonth(a, x.m) =>
              \A b : PrevOn(Number(x), b) => InMonth(b, x.m)
<1>1. PICK n \in Int, m \in DOMAIN MonthDays :
        /\ n = Number(x) /\ m = x.m /\ m + 1 \in DOMAIN MonthDays /\ m \in Int
        /\ InMonth(n, m) /\ NextOn(n, a)
  BY InnerDate
<1>2. PICK y \in Int : InMonth(y, m) /\ IsBusinessDay(y)
  BY MonthHasDay
<1>3. PICK z \in Int : InMonth(z, m + 1) /\ IsBusinessDay(z)
  BY <1>1, MonthHasDay
<1>4. n <= z
  <2>1. MonthStart[m + 1] = MonthStart[m] + MonthDays[m] /\ MonthStart[m] \in Nat /\ MonthDays[m] \in Nat
        /\ MonthDays[m + 1] \in Nat
    BY <1>1, MonthEnds, MonthStartIs, MonthLength
  <2>2. QED
    BY <1>1, <1>3, <2>1 DEF InMonth
<1>5. a \in Int /\ n <= a /\ a <= z
  BY <1>1, <1>3, <1>4 DEF NextOn
<1>6. InMonth(a, m) \/ InMonth(a, m + 1)
  <2>1. MonthStart[m + 1] = MonthStart[m] + MonthDays[m] /\ MonthStart[m] \in Nat /\ MonthDays[m] \in Nat
        /\ MonthDays[m + 1] \in Nat
    BY <1>1, MonthEnds, MonthStartIs, MonthLength
  <2>2. QED
    BY <1>1, <1>3, <1>5, <2>1 DEF InMonth
<1>7. ASSUME ~InMonth(a, m), NEW b, PrevOn(n, b) PROVE InMonth(b, m)
  <2>1. y < n
    <3>1. SUFFICES ASSUME n <= y PROVE FALSE
      BY <1>1
    <3>2. a <= y
      BY <1>1, <1>2, <3>1 DEF NextOn
    <3>3. QED
      BY <1>1, <1>2, <1>5, <1>7, <3>2, WithinMonth
  <2>2. b \in Int /\ y <= b /\ b <= n
    BY <1>1, <1>2, <1>7, <2>1 DEF PrevOn
  <2>3. QED
    BY <1>1, <1>2, <2>2, WithinMonth
<1>8. QED
  BY <1>1, <1>6, <1>7

(* The previous business day is in the month of the date or the one        *)
(* before; if it has left the month, the next one has not.                 *)
LEMMA PrevNear ==
  ASSUME NEW x \in Dates, NEW b, PrevOn(Number(x), b)
  PROVE  /\ InMonth(b, x.m) \/ InMonth(b, x.m - 1)
         /\ ~InMonth(b, x.m) =>
              \A a : NextOn(Number(x), a) => InMonth(a, x.m)
<1>1. PICK n \in Int, m \in DOMAIN MonthDays :
        /\ n = Number(x) /\ m = x.m /\ m - 1 \in DOMAIN MonthDays /\ m \in Int
        /\ InMonth(n, m) /\ PrevOn(n, b)
  BY InnerDate
<1>2. PICK y \in Int : InMonth(y, m) /\ IsBusinessDay(y)
  BY MonthHasDay
<1>3. PICK z \in Int : InMonth(z, m - 1) /\ IsBusinessDay(z)
  BY <1>1, MonthHasDay
<1>4. /\ MonthStart[m] = MonthStart[m - 1] + MonthDays[m - 1] /\ MonthStart[m - 1] \in Nat
      /\ MonthDays[m] \in Nat /\ MonthDays[m - 1] \in Nat
  <2>1. (m - 1) + 1 = m
    BY <1>1
  <2>2. QED
    BY <1>1, <2>1, MonthEnds, MonthStartIs, MonthLength
<1>5. z <= n
  BY <1>1, <1>3, <1>4 DEF InMonth
<1>6. b \in Int /\ b <= n /\ z <= b
  BY <1>1, <1>3, <1>5 DEF PrevOn
<1>7. InMonth(b, m) \/ InMonth(b, m - 1)
  BY <1>1, <1>3, <1>4, <1>6 DEF InMonth
<1>8. ASSUME ~InMonth(b, m), NEW a, NextOn(n, a) PROVE InMonth(a, m)
  <2>1. n < y
    <3>1. SUFFICES ASSUME y <= n PROVE FALSE
      BY <1>1
    <3>2. y <= b
      BY <1>1, <1>2, <3>1 DEF PrevOn
    <3>3. QED
      BY <1>1, <1>2, <1>6, <1>8, <3>2, WithinMonth
  <2>2. a \in Int /\ a <= y /\ n <= a
    BY <1>1, <1>2, <1>8, <2>1 DEF NextOn
  <2>3. QED
    BY <1>1, <1>2, <2>2, WithinMonth
<1>9. QED
  BY <1>1, <1>7, <1>8

(* Every convention adjusts to a business day but the one that does not    *)
(* adjust, and the modified ones stay in the month.                        *)
LEMMA Adjusted ==
  ASSUME NEW x \in Dates, NEW bdc, NEW a, NextOn(Number(x), a), NEW b, PrevOn(Number(x), b)
  PROVE  /\ ApplyBdc(Number(x), bdc) =
              IF bdc = "UNADJUSTED" THEN Number(x)
              ELSE IF bdc = "PRECEDING" THEN b
              ELSE IF bdc = "MOD_FOLLOWING" THEN (IF InMonth(a, x.m) THEN a ELSE b)
              ELSE IF bdc = "MOD_PRECEDING" THEN (IF InMonth(b, x.m) THEN b ELSE a)
              ELSE a
         /\ ApplyBdc(Number(x), bdc) \in Int
         /\ bdc # "UNADJUSTED" => IsBusinessDay(ApplyBdc(Number(x), bdc))
         /\ bdc \in {"MOD_FOLLOWING", "MOD_PRECEDING"} => InMonth(ApplyBdc(Number(x), bdc), x.m)
<1>1. /\ x.m \in DOMAIN MonthDays /\ x.m - 1 \in DOMAIN MonthDays /\ x.m + 1 \in DOMAIN MonthDays
      /\ x.m \in Int /\ Number(x) \in Int /\ MonthOf(Number(x)) = x.m
  BY InnerDate
<1>2. a \in Int /\ b \in Int /\ IsBusinessDay(a) /\ IsBusinessDay(b)
  BY DEF NextOn, PrevOn
<1>3. NextBusinessDay[Number(x)] = a /\ PrevBusinessDay[Number(x)] = b
  BY <1>1, NextIs, PrevIs, NextUnique, PrevUnique
<1>4. MonthOf(a) = x.m <=> InMonth(a, x.m)
  <2>1. InMonth(a, x.m) => MonthOf(a) = x.m
    BY <1>1, <1>2, MonthOfIs
  <2>2. InMonth(a, x.m + 1) => MonthOf(a) = x.m + 1
    BY <1>1, <1>2, MonthOfIs
  <2>3. QED
    BY <1>1, <2>1, <2>2, NextNear
<1>5. MonthOf(b) = x.m <=> InMonth(b, x.m)
  <2>1. InMonth(b, x.m) => MonthOf(b) = x.m
    BY <1>1, <1>2, MonthOfIs
  <2>2. InMonth(b, x.m - 1) => MonthOf(b) = x.m - 1
    BY <1>1, <1>2, MonthOfIs
  <2>3. QED
    BY <1>1, <2>1, <2>2, PrevNear
<1>6. ApplyBdc(Number(x), bdc) =
        IF bdc = "UNADJUSTED" THEN Number(x)
        ELSE IF bdc = "PRECEDING" THEN b
        ELSE IF bdc = "MOD_FOLLOWING" THEN (IF InMonth(a, x.m) THEN a ELSE b)
        ELSE IF bdc = "MOD_PRECEDING" THEN (IF InMonth(b, x.m) THEN b ELSE a)
        ELSE a
  BY <1>1, <1>3, <1>4, <1>5 DEF ApplyBdc
<1>7. ~InMonth(a, x.m) => InMonth(b, x.m)
  BY NextNear
<1>8. QED
  BY <1>1, <1>2, <1>6, <1>7

(* and it keeps the order of days.                                         *)
LEMMA AdjustedInOrder ==
  ASSUME NEW x \in Dates, NEW y \in Dates, Number(x) <= Number(y), NEW bdc
  PROVE  ApplyBdc(Number(x), bdc) <= ApplyBdc(Number(y), bdc)
<1>1. PICK m \in Int, n \in Int : m = Number(x) /\ n = Number(y) /\ m <= n
  BY InnerDate
<1>2. PICK a1, b1 : NextOn(m, a1) /\ PrevOn(m, b1)
  BY NextExists, PrevExists
<1>3. PICK a2, b2 : NextOn(n, a2) /\ PrevOn(n, b2)
  BY NextExists, PrevExists
<1>4. /\ a1 \in Int /\ a2 \in Int /\ b1 \in Int /\ b2 \in Int
      /\ b1 <= m /\ b2 <= n /\ m <= a1 /\ n <= a2 /\ b1 <= b2 /\ a1 <= a2
  BY <1>1, <1>2, <1>3 DEF NextOn, PrevOn
<1>5. a1 <= b2 \/ (a1 = a2 /\ b1 = b2 /\ n < a1 /\ b2 < m)
  BY <1>1, <1>2, <1>3, <1>4 DEF NextOn, PrevOn
<1>6. InMonth(m, x.m) /\ InMonth(n, y.m) /\ x.m \in DOMAIN MonthDays /\ y.m \in DOMAIN MonthDays
  BY <1>1, InnerDate
<1>7. ASSUME a1 = a2, InMonth(a1, x.m) PROVE InMonth(a2, y.m)
  <2>1. InMonth(n, x.m)
    BY <1>1, <1>4, <1>6, <1>7, WithinMonth
  <2>2. x.m = y.m
    BY <1>6, <2>1, OneMonth
  <2>3. QED
    BY <1>7, <2>2
<1>8. ASSUME b1 = b2, InMonth(b2, y.m) PROVE InMonth(b1, x.m)
  <2>1. InMonth(m, y.m)
    BY <1>1, <1>4, <1>6, <1>8, WithinMonth
  <2>2. x.m = y.m
    BY <1>6, <2>1, OneMonth
  <2>3. QED
    BY <1>8, <2>2
<1>9. ApplyBdc(m, bdc) =
        IF bdc = "UNADJUSTED" THEN m
        ELSE IF bdc = "PRECEDING" THEN b1
        ELSE IF bdc = "MOD_FOLLOWING" THEN (IF InMonth(a1, x.m) THEN a1 ELSE b1)
        ELSE IF bdc = "MOD_PRECEDING" THEN (IF InMonth(b1, x.m) THEN b1 ELSE a1)
        ELSE a1
  BY <1>1, <1>2, Adjusted
<1>10. ApplyBdc(n, bdc) =
        IF bdc = "UNADJUSTED" THEN n
        ELSE IF bdc = "PRECEDING" THEN b2
        ELSE IF bdc = "MOD_FOLLOWING" THEN (IF InMonth(a2, y.m) THEN a2 ELSE b2)
        ELSE IF bdc = "MOD_PRECEDING" THEN (IF InMonth(b2, y.m) THEN b2 ELSE a2)
        ELSE a2
  BY <1>1, <1>3, Adjusted
<1>11. ApplyBdc(m, bdc) <= ApplyBdc(n, bdc)
  BY <1>1, <1>4, <1>5, <1>7, <1>8, <1>9, <1>10
<1>12. QED
  BY <1>1, <1>11

----------------------------------------------------------------------------
(* Dates at regular distances from an anchor.                              *)
LEMMA Times ==
  ASSUME NEW d \in Int, NEW j \in Int, NEW k \in Int
  PROVE  /\ d * j \in Int /\ d * (j + 1) = d * j + d /\ d * 0 = 0 /\ d * 1 = d
         /\ j < k /\ d > 0 => d * j < d * k
         /\ j < k /\ d < 0 => d * k < d * j
<1>1. d * j \in Int /\ d * (j + 1) = d * j + d /\ d * 0 = 0 /\ d * 1 = d
  OBVIOUS
<1>2. j < k /\ d > 0 => d * j < d * k
  OBVIOUS
<1>3. j < k /\ d < 0 => d * k < d * j
  OBVIOUS
<1>4. QED
  BY <1>1, <1>2, <1>3

(* What lies between two dates a leg may have is one.                      *)
LEMMA Between ==
  ASSUME NEW x \in Calendar, NEW u \in Dates, NEW v \in Dates, ~Before(x, u), ~Before(v, x)
  PROVE  x \in Dates
<1>1. u \in Calendar /\ v \in Calendar
  BY InnerDate
<1>2. u.m <= x.m /\ x.m <= v.m
  <2>1. u.m \in Nat /\ v.m \in Nat /\ x.m \in Nat
    BY <1>1, DateIs
  <2>2. QED
    BY <1>1, <2>1, DatesInOrder
<1>3. u.m \in 1..(Months - 2) /\ v.m \in 1..(Months - 2) /\ Months \in Nat /\ x.m \in Nat
  BY DateIs, CalendarAssumption DEF Dates
<1>4. x.m \in 1..(Months - 2)
  BY <1>2, <1>3
<1>5. x \in [m : DOMAIN MonthDays, d : 1..31] /\ x.d <= MonthDays[x.m]
  BY DEF Calendar
<1>6. x \in [m : 1..(Months - 2), d : 1..31]
  BY <1>4, <1>5
<1>7. QED
  BY <1>5, <1>6 DEF Dates

(* A roll is a date so many months on, on the same day or the last.        *)
LEMMA RollIs ==
  ASSUME NEW a \in Calendar, NEW j \in Int, a.m + j \in DOMAIN MonthDays
  PROVE  /\ Roll(a, j) \in Calendar /\ Roll(a, j).m = a.m + j
         /\ Roll(a, j).d = a.d \/ (Roll(a, j).d < a.d /\ Roll(a, j).d = MonthDays[a.m + j])
         /\ j = 0 => Roll(a, j) = a
<1>1. /\ a \in [m : DOMAIN MonthDays, d : 1..31] /\ a.d <= MonthDays[a.m]
      /\ MonthDays[a.m + j] \in 28..31 /\ a.m \in Int
  BY MonthLength, DateIs DEF Calendar
<1>2. PICK d \in 1..31 : d = IF a.d > MonthDays[a.m + j] THEN MonthDays[a.m + j] ELSE a.d
  BY <1>1
<1>3. Roll(a, j) = [m |-> a.m + j, d |-> d]
  BY <1>2 DEF Roll
<1>4. d <= MonthDays[a.m + j]
  BY <1>1, <1>2
<1>5. j = 0 => a.m + j = a.m /\ d = a.d
  BY <1>1, <1>2
<1>6. QED
  BY <1>1, <1>2, <1>3, <1>4, <1>5 DEF Calendar

(* A day no month cuts is rolled in one step or in two.                    *)
LEMMA RollTwice ==
  ASSUME NEW a \in Calendar, a.d <= 28, NEW i \in Int, NEW j \in Int,
         a.m + i \in DOMAIN MonthDays, a.m + (i + j) \in DOMAIN MonthDays
  PROVE  Roll(Roll(a, i), j) = Roll(a, i + j)
<1>1. a.m \in Int /\ a.d \in Int /\ (a.m + i) + j = a.m + (i + j)
  BY DateIs DEF Calendar
<1>2. MonthDays[a.m + i] \in 28..31 /\ MonthDays[a.m + (i + j)] \in 28..31
  BY MonthLength
<1>3. Roll(a, i) = [m |-> a.m + i, d |-> a.d] /\ Roll(a, i + j) = [m |-> a.m + (i + j), d |-> a.d]
  BY <1>1, <1>2 DEF Roll
<1>4. Roll(Roll(a, i), j) = [m |-> a.m + (i + j), d |-> a.d]
  BY <1>1, <1>2, <1>3 DEF Roll
<1>5. QED
  BY <1>3, <1>4

(* The rolls of a leg are the first few from its anchor.                   *)
Anchored(l, a, d) ==
  \/ d < 0 /\ ~Before(l.mat, a) /\ ~Before(a, l.eff)
  \/ d > 0 /\ a = l.eff

(* What is assumed of a leg's terms.                                       *)
LEMMA LegIs ==
  ASSUME NEW l \in Legs
  PROVE  /\ l.eff \in Dates /\ l.mat \in Dates /\ Start0(l) \in Dates /\ End0(l) \in Dates
         /\ Before(l.eff, l.mat) /\ ~Before(End0(l), l.eff) /\ l.freq \in Nat /\ l.lag \in Int
         /\ l.freq = 0 => Before(Start0(l), End0(l))
BY LegsAssumption

(* Their numbers are those from 1 to the number of rolls.                  *)
LEMMA RollsAre ==
  ASSUME NEW l \in Legs, NEW a \in Dates, NEW d \in Int, Anchored(l, a, d)
  PROVE  /\ Cardinality(Rolls(l, a, d)) \in Nat
         /\ Rolls(l, a, d) = 1..Cardinality(Rolls(l, a, d))
<1>1. Months \in Nat /\ DOMAIN MonthDays = 0..(Months - 1)
  BY CalendarAssumption
<1>2. l.eff \in Calendar /\ l.mat \in Calendar /\ a \in Calendar /\ a.m \in Int /\ a.m \in DOMAIN MonthDays
  BY LegIs, InnerDate
<1>3. ASSUME NEW k \in Rolls(l, a, d), NEW j \in 1..k PROVE j \in Rolls(l, a, d)
  <2>1. k \in 1..Months /\ a.m + d * k \in DOMAIN MonthDays /\ d * k \in Int /\ d * j \in Int
        /\ Before(l.eff, Roll(a, d * k)) /\ Before(Roll(a, d * k), l.mat)
    BY Times DEF Rolls
  <2>2. CASE j = k
    BY <2>2
  <2>3. CASE j < k
    <3>1. /\ d > 0 => d * 0 < d * j /\ d * j < d * k
          /\ d < 0 => d * k < d * j /\ d * j < d * 0
          /\ d * 0 = 0
      BY <2>1, <2>3, Times
    <3>2. a.m + d * j \in DOMAIN MonthDays
      BY <1>1, <1>2, <2>1, <3>1 DEF Anchored
    <3>3. /\ Roll(a, d * j) \in Calendar /\ Roll(a, d * j).m = a.m + d * j
          /\ Roll(a, d * k) \in Calendar /\ Roll(a, d * k).m = a.m + d * k
      BY <1>2, <2>1, <3>2, RollIs
    <3>4. /\ d > 0 => Before(a, Roll(a, d * j)) /\ Before(Roll(a, d * j), Roll(a, d * k))
          /\ d < 0 => Before(Roll(a, d * k), Roll(a, d * j)) /\ Before(Roll(a, d * j), a)
      BY <1>2, <2>1, <3>1, <3>3, DatesInOrder
    <3>5. /\ Number(a) \in Int /\ Number(l.eff) \in Int /\ Number(l.mat) \in Int
          /\ Number(Roll(a, d * j)) \in Int /\ Number(Roll(a, d * k)) \in Int
      BY <1>2, <3>3, DateIs
    <3>6. Before(l.eff, Roll(a, d * j)) /\ Before(Roll(a, d * j), l.mat)
      BY <2>1, <3>4, <3>5 DEF Anchored, Before
    <3>7. j \in 1..Months
      BY <1>1, <2>1, <2>3
    <3>8. QED
      BY <3>2, <3>6, <3>7 DEF Rolls
  <2>4. QED
    BY <2>1, <2>2, <2>3
<1>4. Rolls(l, a, d) \in SUBSET (1..Months)
  BY DEF Rolls
<1>5. QED
  BY <1>1, <1>3, <1>4, Counted

----------------------------------------------------------------------------
(* A function on 1..n is a sequence, and what is taken off its ends.       *)
Lists(n, X) == [1..n -> X]

(* A list of n elements is a sequence of length n.                         *)
LEMMA FunctionIsSeq ==
  ASSUME NEW X, NEW n \in Nat, NEW s \in Lists(n, X)
  PROVE  s \in Seq(X) /\ Len(s) = n
BY DEF Lists

Appended(r, s, x, n, X) ==
  r \in Lists(n + 1, X) /\ r[n + 1] = x /\ \A i \in 1..n : r[i] = s[i]

(* Append adds an element after the last.                                  *)
LEMMA AppendIs ==
  ASSUME NEW X, NEW n \in Nat, NEW s \in Lists(n, X), NEW x \in X
  PROVE  Appended(Append(s, x), s, x, n, X)
<1>1. s \in Seq(X) /\ Len(s) = n
  BY FunctionIsSeq
<1>2. /\ Append(s, x) \in Seq(X) /\ Len(Append(s, x)) = n + 1
      /\ \A i \in 1..n : Append(s, x)[i] = s[i]
      /\ Append(s, x)[n + 1] = x
  BY <1>1, AppendProperties
<1>3. QED
  BY <1>2, LenProperties DEF Lists, Appended

(* Tail takes off the first element.                                       *)
LEMMA TailIs ==
  ASSUME NEW X, NEW n \in Nat, NEW s \in Lists(n + 1, X)
  PROVE  /\ Tail(s) \in Lists(n, X)
         /\ \A i \in 1..n : Tail(s)[i] = s[i + 1]
<1>1. s \in Seq(X) /\ Len(s) = n + 1
  BY FunctionIsSeq, n + 1 \in Nat
<1>2. s # <<>>
  BY <1>1
<1>3. Tail(s) \in Seq(X) /\ Len(Tail(s)) = n /\ \A i \in 1..n : Tail(s)[i] = s[i + 1]
  <2>1. /\ Tail(s) \in Seq(X) /\ Len(Tail(s)) = Len(s) - 1
        /\ \A i \in 1..Len(Tail(s)) : Tail(s)[i] = s[i + 1]
    BY <1>1, <1>2, HeadTailProperties
  <2>2. QED
    BY <1>1, <2>1
<1>4. QED
  BY <1>3, LenProperties DEF Lists

(* Front takes off the last element.                                       *)
LEMMA FrontIs ==
  ASSUME NEW X, NEW n \in Nat, NEW s \in Lists(n + 1, X)
  PROVE  /\ Front(s) \in Lists(n, X)
         /\ \A i \in 1..n : Front(s)[i] = s[i]
         /\ Last(s) = s[n + 1]
<1>1. s \in Seq(X) /\ Len(s) = n + 1
  BY FunctionIsSeq, n + 1 \in Nat
<1>6. s \in [1..(n + 1) -> X]
  BY DEF Lists
<1>2. Front(s) = SubSeq(s, 1, n) /\ Last(s) = s[n + 1]
  BY <1>1 DEF Front, Last
<1>3. /\ SubSeq(s, 1, n) \in Seq(X)
      /\ Len(SubSeq(s, 1, n)) = IF 1 <= n THEN n - 1 + 1 ELSE 0
      /\ \A i \in 1..(n - 1 + 1) : SubSeq(s, 1, n)[i] = s[1 + i - 1]
  <2>1. \A i \in 1..n : s[i] \in X
    BY <1>6
  <2>2. 1 \in Int /\ n \in Int
    OBVIOUS
  <2>3. QED
    BY ONLY <2>1, <2>2, SubSeqProperties
<1>4. Len(SubSeq(s, 1, n)) = n /\ \A i \in 1..n : SubSeq(s, 1, n)[i] = s[i]
  <2>1. n - 1 + 1 = n /\ \A i \in 1..n : 1 + i - 1 = i
    OBVIOUS
  <2>2. (IF 1 <= n THEN n - 1 + 1 ELSE 0) = n
    OBVIOUS
  <2>3. QED
    BY <1>3, <2>1, <2>2
<1>5. QED
  BY <1>2, <1>3, <1>4, LenProperties DEF Lists

(* The dates before and from the nth roll on.                              *)
LEMMA TimesBound ==
  ASSUME NEW d \in Int, NEW k \in Nat
  PROVE  (d < 0 => d * k <= -k) /\ (d > 0 => d * k >= k)
OBVIOUS

OnDay(dt, day) == dt.d = day \/ (dt.d < day /\ dt.d = MonthDays[dt.m])

(* Each roll is a date inside the leg, on the anchor's day; roll 0 is the  *)
(* anchor.                                                                 *)
LEMMA GridIs ==
  ASSUME NEW l \in Legs, NEW a \in Dates, NEW d \in Int, Anchored(l, a, d),
         NEW k \in 0..Cardinality(Rolls(l, a, d))
  PROVE  /\ Roll(a, d * k) \in Dates /\ Roll(a, d * k).m = a.m + d * k /\ d * k \in Int
         /\ OnDay(Roll(a, d * k), a.d)
         /\ k = 0 => Roll(a, d * k) = a
         /\ k > 0 => Before(l.eff, Roll(a, d * k)) /\ Before(Roll(a, d * k), l.mat)
<1>1. Cardinality(Rolls(l, a, d)) \in Nat /\ Rolls(l, a, d) = 1..Cardinality(Rolls(l, a, d))
  BY RollsAre
<1>2. a \in Calendar /\ a.m \in Int /\ a.m \in DOMAIN MonthDays
  BY InnerDate
<1>3. l.eff \in Dates /\ l.mat \in Dates /\ l.eff \in Calendar /\ l.mat \in Calendar
  BY LegIs, InnerDate
<1>4. CASE k = 0
  <2>1. d * k = 0 /\ a.m + 0 = a.m
    BY <1>2, <1>4, Times
  <2>2. Roll(a, 0) = a
    BY <1>2, <2>1, RollIs
  <2>3. QED
    BY <1>2, <1>4, <2>1, <2>2 DEF OnDay
<1>5. CASE k > 0
  <2>1. k \in Rolls(l, a, d)
    BY <1>1, <1>5
  <2>2. /\ a.m + d * k \in DOMAIN MonthDays /\ d * k \in Int
        /\ Before(l.eff, Roll(a, d * k)) /\ Before(Roll(a, d * k), l.mat)
    BY <2>1, Times DEF Rolls
  <2>3. /\ Roll(a, d * k) \in Calendar /\ Roll(a, d * k).m = a.m + d * k
        /\ OnDay(Roll(a, d * k), a.d)
    BY <1>2, <2>2, RollIs DEF OnDay
  <2>4. ~Before(Roll(a, d * k), l.eff) /\ ~Before(l.mat, Roll(a, d * k))
    BY <1>3, <2>2, <2>3, DateIs DEF Before
  <2>5. Roll(a, d * k) \in Dates
    BY <1>3, <2>3, <2>4, Between
  <2>6. QED
    BY <1>5, <2>2, <2>3, <2>5
<1>6. QED
  BY <1>1, <1>4, <1>5

(* After the last roll the leg is left: the next would be in the month of  *)
(* its other end or beyond.                                                *)
LEMMA GridEnds ==
  ASSUME NEW l \in Legs, NEW a \in Dates, NEW d \in Int, Anchored(l, a, d),
         NEW n \in Nat, n = Cardinality(Rolls(l, a, d))
  PROVE  /\ d < 0 => a.m + d * (n + 1) <= l.eff.m
         /\ d > 0 => a.m + d * (n + 1) >= l.mat.m
<1>1. Rolls(l, a, d) = 1..n /\ n + 1 \in Nat
  BY RollsAre
<1>2. Months \in Nat /\ DOMAIN MonthDays = 0..(Months - 1)
  BY CalendarAssumption
<1>3. /\ a \in Calendar /\ a.m \in Int /\ a.m \in DOMAIN MonthDays
      /\ l.eff \in Calendar /\ l.eff.m \in DOMAIN MonthDays /\ l.mat \in Calendar /\ l.mat.m \in DOMAIN MonthDays
  BY LegIs, InnerDate
<1>4. n + 1 \notin Rolls(l, a, d)
  <2>1. n + 1 \notin 1..n
    OBVIOUS
  <2>2. QED
    BY <1>1, <2>1
<1>5. /\ d * (n + 1) \in Int /\ d < 0 => d * (n + 1) <= -(n + 1)
      /\ d > 0 => d * (n + 1) >= n + 1
  BY <1>1, Times, TimesBound
<1>6. CASE a.m + d * (n + 1) \notin DOMAIN MonthDays
  <2>1. d < 0 => a.m + d * (n + 1) < 0
    BY <1>1, <1>2, <1>3, <1>5, <1>6
  <2>2. d > 0 => a.m + d * (n + 1) > Months - 1
    BY <1>1, <1>2, <1>3, <1>5, <1>6
  <2>3. QED
    BY <1>2, <1>3, <1>5, <2>1, <2>2
<1>7. CASE a.m + d * (n + 1) \in DOMAIN MonthDays
  <2>1. PICK r \in Calendar : r = Roll(a, d * (n + 1)) /\ r.m = a.m + d * (n + 1)
    BY <1>3, <1>5, <1>7, RollIs
  <2>2. n + 1 \in 1..Months
    BY <1>1, <1>2, <1>3, <1>5, <1>7 DEF Anchored
  <2>3. ~Before(l.eff, r) \/ ~Before(r, l.mat)
    BY <1>4, <1>7, <2>1, <2>2 DEF Rolls
  <2>4. d < 0 => r.m < a.m /\ a.m <= l.mat.m
    <3>1. d < 0 => ~Before(l.mat, a)
      BY DEF Anchored
    <3>2. QED
      BY <1>1, <1>2, <1>3, <1>5, <2>1, <3>1, DatesInOrder
  <2>5. d > 0 => l.eff.m < r.m
    BY <1>1, <1>3, <1>5, <2>1 DEF Anchored
  <2>6. d < 0 => Before(r, l.mat)
    BY <1>2, <1>3, <2>1, <2>4, DatesInOrder
  <2>7. d > 0 => Before(l.eff, r)
    BY <1>3, <2>5, DatesInOrder
  <2>8. d < 0 => r.m <= l.eff.m
    BY <1>2, <1>3, <1>7, <2>1, <2>3, <2>6, DatesInOrder
  <2>9. d > 0 => l.mat.m <= r.m
    BY <1>2, <1>3, <1>7, <2>1, <2>3, <2>7, DatesInOrder
  <2>10. QED
    BY <2>1, <2>8, <2>9
<1>8. QED
  BY <1>6, <1>7

(* The rolls follow each other a period apart.                             *)
LEMMA GridInOrder ==
  ASSUME NEW l \in Legs, NEW a \in Dates, NEW d \in Int, Anchored(l, a, d),
         NEW k \in 0..Cardinality(Rolls(l, a, d)), NEW j \in 0..Cardinality(Rolls(l, a, d)), j < k
  PROVE  /\ d > 0 => Before(Roll(a, d * j), Roll(a, d * k))
         /\ d < 0 => Before(Roll(a, d * k), Roll(a, d * j))
         /\ k = j + 1 => Roll(a, d * k).m = Roll(a, d * j).m + d
<1>1. /\ Roll(a, d * k) \in Dates /\ Roll(a, d * k).m = a.m + d * k /\ d * k \in Int
      /\ Roll(a, d * j) \in Dates /\ Roll(a, d * j).m = a.m + d * j /\ d * j \in Int
  BY GridIs
<1>2. Roll(a, d * k) \in Calendar /\ Roll(a, d * j) \in Calendar /\ a.m \in Int
  BY <1>1, InnerDate
<1>3. j \in Int /\ k \in Int
  BY RollsAre
<1>4. /\ d > 0 => d * j < d * k
      /\ d < 0 => d * k < d * j
      /\ k = j + 1 => d * k = d * j + d
  BY <1>3, Times
<1>5. /\ d > 0 => a.m + d * j < a.m + d * k
      /\ d < 0 => a.m + d * k < a.m + d * j
      /\ k = j + 1 => a.m + d * k = a.m + d * j + d
  BY <1>1, <1>2, <1>4
<1>6. QED
  BY <1>1, <1>2, <1>5, DatesInOrder

(* Where the term is a whole number of periods, the rolls are those inside.*)
LEMMA WholeGrid ==
  ASSUME NEW l \in Legs, NEW a \in Dates, NEW d \in Int, NEW w \in Nat, w > 0,
         NEW n \in Nat, n = Cardinality(Rolls(l, a, d)),
         \/ d < 0 /\ a = l.mat /\ Roll(a, d * w) = l.eff
         \/ d > 0 /\ a = l.eff /\ Roll(a, d * w) = l.mat
  PROVE  n = w - 1
<1>1. l.eff \in Calendar /\ l.mat \in Calendar /\ Before(l.eff, l.mat) /\ a \in Calendar
  BY LegIs, InnerDate
<1>2. ~Before(l.eff, l.eff) /\ ~Before(l.mat, l.mat) /\ ~Before(l.mat, l.eff)
  BY <1>1, DatesInOrder, DateIs
<1>3. Anchored(l, a, d)
  BY <1>2 DEF Anchored
<1>4. Rolls(l, a, d) = 1..n
  BY <1>3, RollsAre
<1>5. w \notin Rolls(l, a, d)
  BY <1>2 DEF Rolls
<1>6. n < w
  <2>1. w \notin 1..n
    BY <1>4, <1>5
  <2>2. QED
    BY ONLY <2>1, w \in Nat, w > 0, n \in Nat
<1>7. a.m + d * w = Roll(a, d * w).m /\ d * w \in Int /\ d * n \in Int /\ d * (n + 1) \in Int
  BY Times DEF Roll
<1>8. /\ d < 0 => a.m + d * (n + 1) <= a.m + d * w
      /\ d > 0 => a.m + d * (n + 1) >= a.m + d * w
  <2>1. /\ d < 0 => a.m + d * (n + 1) <= l.eff.m
        /\ d > 0 => a.m + d * (n + 1) >= l.mat.m
    BY <1>3, GridEnds
  <2>2. QED
    BY <1>7, <2>1
<1>9. ASSUME n + 1 < w PROVE FALSE
  <2>1. /\ d > 0 => d * (n + 1) < d * w
        /\ d < 0 => d * w < d * (n + 1)
    BY <1>9, Times
  <2>2. a.m \in Int
    BY <1>1, DateIs
  <2>3. QED
    BY <1>7, <1>8, <2>1, <2>2
<1>10. QED
  BY <1>6, <1>9

(* The ends of a leg that is rolled back: of the n rolls the last q, the   *)
(* anchor, and the maturity where the anchor is a date before it.          *)
BackEnds(e, a, d, n, q, c) ==
  /\ Anchored(leg, a, d) /\ n = Cardinality(Rolls(leg, a, d)) /\ d < 0 /\ d = -leg.freq
  /\ a.d = RollDay /\ (leg.last = NoDate => c = 0)
  /\ IF c = 0 THEN a = leg.mat ELSE Before(a, leg.mat)
  /\ e \in Lists(q + 1 + c, Dates)
  /\ \A i \in 1..(q + 1) : e[i] = Roll(a, d * (q + 1 - i))
  /\ c = 1 => e[q + 2] = leg.mat
  /\ \/ q = n
     \/ /\ q = n - 1 /\ q + 1 + c > 0 /\ leg.stub = "LONG_FRONT" /\ leg.first = NoDate
        /\ Roll(Roll(a, d * n), d) # Start0(leg)

(* RolledBack returns such ends, with or without the merged stub.          *)
LEMMA BackEndsAre ==
  ASSUME leg \in Legs, leg.freq > 0, Backward
  PROVE  \E a \in Dates, d \in Int, n \in Nat, q \in Int, c \in {0, 1} :
           BackEnds(EndDates(leg), a, d, n, q, c)
<1>1. PICK d \in Int : d = -leg.freq /\ d < 0
  <2>1. -leg.freq \in Int /\ -leg.freq < 0
    BY LegIs
  <2>2. QED
    BY <2>1
<1>2. PICK a : a = IF leg.last # NoDate /\ Before(leg.last, leg.mat) THEN leg.last ELSE leg.mat
  OBVIOUS
<1>3. /\ leg.eff \in Dates /\ leg.mat \in Dates /\ End0(leg) \in Dates /\ Before(leg.eff, leg.mat)
      /\ ~Before(End0(leg), leg.eff) /\ leg.freq \in Nat
  BY LegIs
<1>4. /\ leg.eff \in Calendar /\ leg.mat \in Calendar /\ End0(leg) \in Calendar
      /\ Number(leg.mat) \in Int /\ Number(leg.eff) \in Int /\ Number(End0(leg)) \in Int
  BY <1>3, InnerDate
<1>5. PICK c \in {0, 1} : c = IF a = leg.mat THEN 0 ELSE 1
  OBVIOUS
<1>6. /\ a \in Dates /\ ~Before(leg.mat, a) /\ ~Before(a, leg.eff)
      /\ c = 0 => a = leg.mat
      /\ c = 1 => Before(a, leg.mat) /\ leg.last # NoDate
      /\ a.d = RollDay
  BY <1>2, <1>3, <1>4, <1>5 DEF End0, Before, RollDay
<1>7. Anchored(leg, a, d)
  BY <1>1, <1>6 DEF Anchored
<1>8. PICK n \in Nat : n = Cardinality(Rolls(leg, a, d))
  BY <1>6, <1>7, RollsAre
<1>9. PICK rolled : rolled = [i \in 1..(n + 1) |-> Roll(a, d * (n + 1 - i))]
  OBVIOUS
<1>10. /\ rolled \in Lists(n + 1, Dates)
       /\ \A i \in 1..(n + 1) : rolled[i] = Roll(a, d * (n + 1 - i))
  <2>1. \A i \in 1..(n + 1) : n + 1 - i \in 0..n
    OBVIOUS
  <2>2. \A k \in 0..n : Roll(a, d * k) \in Dates
    BY <1>6, <1>7, <1>8, GridIs
  <2>3. QED
    BY <1>9, <2>1, <2>2 DEF Lists
<1>11. PICK ends : ends = IF a = leg.mat THEN rolled ELSE Append(rolled, leg.mat)
  OBVIOUS
<1>12. /\ ends \in Lists(n + 1 + c, Dates)
       /\ \A i \in 1..(n + 1) : ends[i] = Roll(a, d * (n + 1 - i))
       /\ c = 1 => ends[n + 2] = leg.mat
  <2>1. CASE a = leg.mat
    <3>1. c = 0 /\ n + 1 + c = n + 1
      BY <1>5, <2>1
    <3>2. QED
      BY <1>10, <1>11, <2>1, <3>1
  <2>2. CASE a # leg.mat
    <3>1. c = 1 /\ n + 1 + c = n + 1 + 1 /\ n + 1 + 1 = n + 2 /\ n + 1 \in Nat
      BY <1>5, <2>2
    <3>2. /\ Append(rolled, leg.mat) \in Lists(n + 1 + 1, Dates)
          /\ \A i \in 1..(n + 1) : Append(rolled, leg.mat)[i] = rolled[i]
          /\ Append(rolled, leg.mat)[n + 1 + 1] = leg.mat
      <4>1. Appended(Append(rolled, leg.mat), rolled, leg.mat, n + 1, Dates)
        BY <1>3, <1>10, <3>1, AppendIs
      <4>2. QED
        BY <4>1 DEF Appended
    <3>3. QED
      BY <1>10, <1>11, <2>2, <3>1, <3>2
  <2>3. QED
    BY <2>1, <2>2
<1>13. Len(ends) = n + 1 + c /\ ends[1] = Roll(a, d * n)
  <2>1. n + 1 + c \in Nat /\ 1 \in 1..(n + 1) /\ n + 1 - 1 = n
    OBVIOUS
  <2>2. QED
    BY <1>12, <2>1, FunctionIsSeq
<1>. DEFINE merged == leg.stub = "LONG_FRONT" /\ (Len(ends) >= 2 /\ Roll(ends[1], d) # Start0(leg)) /\ leg.first = NoDate
<1>15. EndDates(leg) = IF merged THEN Tail(ends) ELSE ends
  <2>1. EndDates(leg) = RolledBack(leg)
    BY DEF EndDates, Backward
  <2>2. QED
    BY <1>1, <1>2, <1>8, <1>9, <1>11, <2>1 DEF RolledBack
<1>16. CASE ~merged
  <2>1. BackEnds(EndDates(leg), a, d, n, n, c)
    BY <1>1, <1>5, <1>6, <1>7, <1>8, <1>12, <1>15, <1>16 DEF BackEnds
  <2>2. QED
    BY <1>6, <2>1
<1>17. CASE merged
  <2>1. PICK q \in Int : q = n - 1
    OBVIOUS
  <2>2. /\ leg.stub = "LONG_FRONT" /\ leg.first = NoDate /\ n + 1 + c >= 2
        /\ Roll(Roll(a, d * n), d) # Start0(leg)
    BY <1>13, <1>17
  <2>3. q + 1 + c \in Nat /\ q + 1 + c > 0 /\ n + 1 + c = q + 1 + c + 1 /\ q + 1 = n
    BY <2>1, <2>2
  <2>4. /\ Tail(ends) \in Lists(q + 1 + c, Dates)
        /\ \A i \in 1..(q + 1 + c) : Tail(ends)[i] = ends[i + 1]
    <3>1. PICK k \in Nat : k = q + 1 + c
      BY <2>3
    <3>2. ends \in Lists(k + 1, Dates)
      BY <1>12, <2>3, <3>1
    <3>3. Tail(ends) \in Lists(k, Dates) /\ \A i \in 1..k : Tail(ends)[i] = ends[i + 1]
      BY ONLY <3>2, TailIs
    <3>4. QED
      BY ONLY <3>1, <3>3
  <2>5. \A i \in 1..(q + 1) : Tail(ends)[i] = Roll(a, d * (q + 1 - i))
    <3>1. ASSUME NEW i \in 1..(q + 1) PROVE Tail(ends)[i] = Roll(a, d * (q + 1 - i))
      <4>1. i \in 1..(q + 1 + c) /\ i + 1 \in 1..(n + 1) /\ n + 1 - (i + 1) = q + 1 - i
        BY <2>1
      <4>2. QED
        BY <1>12, <2>4, <4>1
    <3>2. QED
      BY <3>1
  <2>6. c = 1 => Tail(ends)[q + 2] = leg.mat
    <3>1. c = 1 => q + 2 \in 1..(q + 1 + c) /\ q + 2 + 1 = n + 2
      BY <2>1
    <3>2. QED
      BY <1>12, <2>4, <3>1
  <2>7. BackEnds(Tail(ends), a, d, n, q, c)
    BY <1>1, <1>5, <1>6, <1>7, <1>8, <2>1, <2>2, <2>3, <2>4, <2>5, <2>6 DEF BackEnds
  <2>8. QED
    BY <1>6, <1>15, <1>17, <2>7
<1>18. QED
  BY <1>16, <1>17

(* The ends of a leg that is rolled forward: of the n rolls the first q,   *)
(* and the maturity.                                                       *)
ForwardEnds(e, d, n, q) ==
  /\ Anchored(leg, leg.eff, d) /\ n = Cardinality(Rolls(leg, leg.eff, d)) /\ d > 0 /\ d = leg.freq
  /\ RollDay = leg.eff.d
  /\ e \in Lists(q + 1, Dates)
  /\ \A i \in 1..q : e[i] = Roll(leg.eff, d * i)
  /\ e[q + 1] = leg.mat
  /\ \/ q = n
     \/ q = n - 1 /\ leg.stub = "LONG_BACK" /\ Roll(Roll(leg.eff, d * n), d) # leg.mat

(* RolledForward returns such ends, with or without the merged stub.       *)
LEMMA ForwardEndsAre ==
  ASSUME leg \in Legs, leg.freq > 0, ~Backward
  PROVE  \E d \in Int, n \in Nat, q \in Nat : ForwardEnds(EndDates(leg), d, n, q)
<1>1. PICK d \in Int : d = leg.freq /\ d > 0
  BY LegIs
<1>2. leg.eff \in Dates /\ leg.mat \in Dates
  BY LegIs
<1>3. Anchored(leg, leg.eff, d)
  BY <1>1 DEF Anchored
<1>4. PICK n \in Nat : n = Cardinality(Rolls(leg, leg.eff, d))
  BY <1>2, <1>3, RollsAre
<1>5. PICK ends : ends = [i \in 1..n |-> Roll(leg.eff, d * i)]
  OBVIOUS
<1>6. ends \in Lists(n, Dates)
  <2>1. \A k \in 0..n : Roll(leg.eff, d * k) \in Dates
    BY <1>2, <1>3, <1>4, GridIs
  <2>2. \A i \in 1..n : i \in 0..n
    OBVIOUS
  <2>3. QED
    BY <1>5, <2>1, <2>2 DEF Lists
<1>12. \A i \in 1..n : ends[i] = Roll(leg.eff, d * i)
  BY <1>5
<1>. DEFINE merged == leg.stub = "LONG_BACK" /\ (n > 0 /\ Roll(Last(ends), d) # leg.mat)
<1>7. EndDates(leg) = Append(IF merged THEN Front(ends) ELSE ends, leg.mat)
  <2>1. EndDates(leg) = RolledForward(leg)
    BY <1>1 DEF EndDates, Backward
  <2>2. leg.freq # 0 /\ d = leg.freq
    BY <1>1
  <2>3. RolledForward(leg) = Append(IF merged THEN Front(ends) ELSE ends, leg.mat)
    BY <1>4, <1>5, <2>2 DEF RolledForward
  <2>4. QED
    BY <2>1, <2>3
<1>8. RollDay = leg.eff.d
  BY DEF RollDay
<1>9. CASE ~merged
  <2>1. EndDates(leg) = Append(ends, leg.mat)
    BY <1>7, <1>9
  <2>2. /\ Append(ends, leg.mat) \in Lists(n + 1, Dates)
        /\ \A i \in 1..n : Append(ends, leg.mat)[i] = ends[i]
        /\ Append(ends, leg.mat)[n + 1] = leg.mat
    <3>1. leg.mat \in Dates
      BY <1>2
    <3>2. Appended(Append(ends, leg.mat), ends, leg.mat, n, Dates)
      BY <1>6, <3>1, AppendIs
    <3>3. QED
      BY <3>2 DEF Appended
  <2>3. ForwardEnds(EndDates(leg), d, n, n)
    BY <1>1, <1>3, <1>4, <1>12, <1>8, <2>1, <2>2 DEF ForwardEnds
  <2>4. QED
    BY <2>3
<1>10. CASE merged
  <2>1. PICK q \in Nat : q + 1 = n /\ q = n - 1
    <3>1. n - 1 \in Nat /\ (n - 1) + 1 = n
      BY <1>10
    <3>2. QED
      BY <3>1
  <2>2. /\ Front(ends) \in Lists(q, Dates)
        /\ \A i \in 1..q : Front(ends)[i] = ends[i]
        /\ Last(ends) = ends[n]
    <3>1. ends \in Lists(q + 1, Dates)
      BY <1>6, <2>1
    <3>2. QED
      BY ONLY <2>1, <3>1, q \in Nat, FrontIs
  <2>3. EndDates(leg) = Append(Front(ends), leg.mat)
    BY <1>7, <1>10
  <2>4. /\ Append(Front(ends), leg.mat) \in Lists(q + 1, Dates)
        /\ \A i \in 1..q : Append(Front(ends), leg.mat)[i] = Front(ends)[i]
        /\ Append(Front(ends), leg.mat)[q + 1] = leg.mat
    <3>1. leg.mat \in Dates /\ Front(ends) \in Lists(q, Dates)
      BY <1>2, <2>2
    <3>2. Appended(Append(Front(ends), leg.mat), Front(ends), leg.mat, q, Dates)
      BY <3>1, AppendIs
    <3>3. QED
      BY <3>2 DEF Appended
  <2>5. \A i \in 1..q : Front(ends)[i] = Roll(leg.eff, d * i)
    BY <1>12, <2>1, <2>2
  <2>6. leg.stub = "LONG_BACK" /\ Roll(Roll(leg.eff, d * n), d) # leg.mat
    <3>1. n \in 1..n
      BY <2>1
    <3>2. QED
      BY <1>12, <1>10, <2>2, <3>1
  <2>7. ForwardEnds(EndDates(leg), d, n, q)
    BY <1>1, <1>3, <1>4, <1>8, <2>1, <2>3, <2>4, <2>5, <2>6 DEF ForwardEnds
  <2>8. QED
    BY <2>7
<1>11. QED
  BY <1>9, <1>10

(* So the ends of a leg are its dates, in order, the last its maturity,    *)
(* regular periods apart but for the last where the leg may have a stub.   *)
EndsInOrder(e, N) ==
  /\ N \in Nat /\ N > 0 /\ e \in Lists(N, Dates)
  /\ \A i \in 1..N : ~Before(e[i], leg.eff)
  /\ \A i \in 2..N : Before(e[i - 1], e[i])
  /\ e[N] = IF leg.freq = 0 THEN End0(leg) ELSE leg.mat

EndsRegular(e, N) ==
  leg.freq > 0 =>
    /\ \A i \in 2..N : \/ SameDay(e[i - 1], e[i], RollDay)
                       \/ i = N /\ (~Backward \/ leg.last # NoDate)
    /\ ~Backward /\ N > 1 => SameDay(leg.eff, e[1], RollDay)

(* The ends that are rolled back are in order and regular.                 *)
LEMMA BackEndsInOrder ==
  ASSUME leg \in Legs, leg.freq > 0, Backward, NEW e, NEW a \in Dates, NEW d \in Int, NEW n \in Nat,
         NEW q \in Int, NEW c \in {0, 1}, BackEnds(e, a, d, n, q, c)
  PROVE  EndsInOrder(e, q + 1 + c) /\ EndsRegular(e, q + 1 + c)
<1>1. /\ Anchored(leg, a, d) /\ n = Cardinality(Rolls(leg, a, d)) /\ d < 0 /\ d = -leg.freq
      /\ a.d = RollDay /\ (leg.last = NoDate => c = 0)
      /\ IF c = 0 THEN a = leg.mat ELSE Before(a, leg.mat)
      /\ e \in Lists(q + 1 + c, Dates)
      /\ \A i \in 1..(q + 1) : e[i] = Roll(a, d * (q + 1 - i))
      /\ c = 1 => e[q + 2] = leg.mat
      /\ q = n \/ (q = n - 1 /\ q + 1 + c > 0)
  BY DEF BackEnds
<1>2. PICK N \in Nat : N = q + 1 + c /\ N > 0 /\ q <= n
  <2>1. q + 1 + c \in Nat /\ q + 1 + c > 0 /\ q <= n
    BY <1>1
  <2>2. QED
    BY <2>1
<1>3. leg.freq \in Nat /\ leg.eff \in Calendar /\ leg.mat \in Calendar /\ Before(leg.eff, leg.mat)
      /\ a \in Calendar
  BY LegIs, InnerDate
<1>4. ASSUME NEW i \in 1..(q + 1)
      PROVE  q + 1 - i \in 0..n /\ e[i] = Roll(a, d * (q + 1 - i)) /\ OnDay(e[i], RollDay)
             /\ ~Before(e[i], leg.eff) /\ (i = q + 1 => e[i] = a)
  <2>1. q + 1 - i \in 0..n
    BY <1>2
  <2>2. PICK k \in 0..n : k = q + 1 - i
    BY <2>1
  <2>3. e[i] = Roll(a, d * k)
    BY <1>1, <2>2
  <2>4. /\ Roll(a, d * k) \in Dates /\ OnDay(Roll(a, d * k), a.d)
        /\ k = 0 => Roll(a, d * k) = a
        /\ k > 0 => Before(leg.eff, Roll(a, d * k))
    BY <1>1, GridIs
  <2>5. ~Before(e[i], leg.eff)
    <3>1. k = 0 => ~Before(a, leg.eff)
      BY <1>1 DEF Anchored
    <3>2. e[i] \in Calendar
      BY <2>3, <2>4, InnerDate
    <3>3. k > 0 => ~Before(e[i], leg.eff)
      BY <1>3, <2>3, <2>4, <3>2, DateIs DEF Before
    <3>4. k = 0 \/ k > 0
      OBVIOUS
    <3>5. QED
      BY <2>3, <2>4, <3>1, <3>3, <3>4
  <2>6. i = q + 1 => k = 0
    BY <2>2
  <2>7. QED
    BY <1>1, <2>1, <2>3, <2>4, <2>5, <2>6
<1>5. ASSUME NEW i \in 2..(q + 1)
      PROVE  Before(e[i - 1], e[i]) /\ SameDay(e[i - 1], e[i], RollDay)
  <2>1. PICK k \in 0..n, j \in 0..n : k = q + 1 - (i - 1) /\ j = q + 1 - i /\ k = j + 1 /\ j < k
    <3>1. q + 1 - (i - 1) \in 0..n /\ q + 1 - i \in 0..n /\ q + 1 - (i - 1) = q + 1 - i + 1
      BY <1>2
    <3>2. q + 1 - i < q + 1 - (i - 1)
      BY <1>2
    <3>3. QED
      BY <3>1, <3>2
  <2>2. i \in 1..(q + 1) /\ i - 1 \in 1..(q + 1)
    OBVIOUS
  <2>3. /\ e[i - 1] = Roll(a, d * k) /\ e[i] = Roll(a, d * j)
        /\ OnDay(e[i - 1], RollDay) /\ OnDay(e[i], RollDay)
    BY <1>4, <2>1, <2>2
  <2>4. Before(e[i - 1], e[i]) /\ e[i - 1].m = e[i].m + d
    <3>1. /\ d < 0 => Before(Roll(a, d * k), Roll(a, d * j))
          /\ k = j + 1 => Roll(a, d * k).m = Roll(a, d * j).m + d
      BY <1>1, <2>1, GridInOrder
    <3>2. QED
      BY <1>1, <2>1, <2>3, <3>1
  <2>5. e[i].m \in Int
    <3>1. Roll(a, d * j) \in Dates
      BY <1>1, GridIs
    <3>2. QED
      BY <2>3, <3>1, InnerDate
  <2>6. e[i].m - e[i - 1].m = leg.freq
    <3>1. d = -leg.freq /\ leg.freq \in Nat
      BY <1>1, <1>3
    <3>2. e[i].m - (e[i].m + d) = -d /\ -d = leg.freq
      BY <2>5, <3>1
    <3>3. QED
      BY <2>4, <3>2
  <2>7. QED
    BY <2>3, <2>4, <2>6 DEF SameDay, OnDay
<1>6. c = 1 => N = q + 2 /\ e[N] = leg.mat
  BY <1>1, <1>2
<1>7. c = 0 => N = q + 1 /\ N \in 1..(q + 1)
  BY <1>2
<1>8. e[N] = leg.mat
  BY <1>1, <1>4, <1>6, <1>7
<1>9. ~Before(leg.mat, leg.eff)
  BY <1>3, DateIs DEF Before
<1>10. ASSUME NEW i \in 1..N PROVE ~Before(e[i], leg.eff)
  <2>1. i \in 1..(q + 1) \/ i = N
    BY <1>2
  <2>2. QED
    BY <1>4, <1>8, <1>9, <2>1
<1>11. ASSUME NEW i \in 2..N, ~(i \in 2..(q + 1)) PROVE Before(e[i - 1], e[i]) /\ i = N /\ c = 1
  <2>1. i = N /\ c = 1 /\ i - 1 = q + 1 /\ q + 1 \in 1..(q + 1)
    BY <1>2, <1>11
  <2>2. e[i - 1] = a
    BY <1>4, <2>1
  <2>3. QED
    BY <1>1, <1>8, <2>1, <2>2
<1>12. EndsInOrder(e, N)
  BY <1>1, <1>2, <1>5, <1>8, <1>10, <1>11 DEF EndsInOrder
<1>13. EndsRegular(e, N)
  <2>1. \A i \in 2..N : SameDay(e[i - 1], e[i], RollDay) \/ (i = N /\ leg.last # NoDate)
    <3>1. ASSUME NEW i \in 2..N, ~(i \in 2..(q + 1)) PROVE i = N /\ leg.last # NoDate
      BY <1>1, <1>11, <3>1
    <3>2. ASSUME NEW i \in 2..(q + 1) PROVE SameDay(e[i - 1], e[i], RollDay)
      BY <1>5
    <3>. HIDE DEF SameDay
    <3>3. QED
      BY <3>1, <3>2
  <2>2. QED
    BY <2>1 DEF EndsRegular
<1>14. QED
  BY <1>2, <1>12, <1>13

(* The ends that are rolled forward are in order and regular.              *)
LEMMA ForwardEndsInOrder ==
  ASSUME leg \in Legs, leg.freq > 0, ~Backward, NEW e, NEW d \in Int, NEW n \in Nat,
         NEW q \in Nat, ForwardEnds(e, d, n, q)
  PROVE  EndsInOrder(e, q + 1) /\ EndsRegular(e, q + 1)
<1>1. /\ Anchored(leg, leg.eff, d) /\ n = Cardinality(Rolls(leg, leg.eff, d)) /\ d > 0 /\ d = leg.freq
      /\ RollDay = leg.eff.d
      /\ e \in Lists(q + 1, Dates)
      /\ \A i \in 1..q : e[i] = Roll(leg.eff, d * i)
      /\ e[q + 1] = leg.mat
      /\ q <= n
  BY DEF ForwardEnds
<1>2. leg.eff \in Dates /\ leg.mat \in Dates /\ leg.eff \in Calendar /\ leg.mat \in Calendar /\ Before(leg.eff, leg.mat)
  BY LegIs, InnerDate
<1>3. ASSUME NEW i \in 1..q
      PROVE  /\ e[i] = Roll(leg.eff, d * i) /\ OnDay(e[i], RollDay)
             /\ Before(leg.eff, e[i]) /\ Before(e[i], leg.mat) /\ e[i] \in Dates
  <2>1. i \in 0..n /\ i > 0
    BY <1>1
  <2>2. e[i] = Roll(leg.eff, d * i)
    BY <1>1
  <2>3. /\ Roll(leg.eff, d * i) \in Dates /\ OnDay(Roll(leg.eff, d * i), leg.eff.d)
        /\ Before(leg.eff, Roll(leg.eff, d * i)) /\ Before(Roll(leg.eff, d * i), leg.mat)
    BY <1>1, <1>2, <2>1, GridIs
  <2>4. QED
    BY <1>1, <2>2, <2>3
<1>4. ASSUME NEW j \in 0..n, NEW k \in 0..n, k = j + 1
      PROVE  /\ Before(Roll(leg.eff, d * j), Roll(leg.eff, d * k))
             /\ Roll(leg.eff, d * k).m - Roll(leg.eff, d * j).m = leg.freq
  <2>1. j < k
    BY <1>4
  <2>2. /\ d > 0 => Before(Roll(leg.eff, d * j), Roll(leg.eff, d * k))
        /\ k = j + 1 => Roll(leg.eff, d * k).m = Roll(leg.eff, d * j).m + d
    BY <1>1, <1>2, <2>1, GridInOrder
  <2>3. Roll(leg.eff, d * j) \in Dates
    BY <1>1, <1>2, GridIs
  <2>4. Roll(leg.eff, d * j).m \in Int
    BY <2>3, InnerDate
  <2>5. QED
    BY <1>1, <1>4, <2>2, <2>4
<1>5. ASSUME NEW i \in 2..q PROVE Before(e[i - 1], e[i]) /\ SameDay(e[i - 1], e[i], RollDay)
  <2>1. i \in 1..q /\ i - 1 \in 1..q /\ i - 1 \in 0..n /\ i \in 0..n /\ i = (i - 1) + 1
    BY <1>1
  <2>2. /\ Before(Roll(leg.eff, d * (i - 1)), Roll(leg.eff, d * i))
        /\ Roll(leg.eff, d * i).m - Roll(leg.eff, d * (i - 1)).m = leg.freq
    BY <1>4, <2>1
  <2>3. /\ e[i] = Roll(leg.eff, d * i) /\ e[i - 1] = Roll(leg.eff, d * (i - 1))
        /\ OnDay(e[i], RollDay) /\ OnDay(e[i - 1], RollDay)
    BY <1>3, <2>1
  <2>4. QED
    BY <2>2, <2>3 DEF SameDay, OnDay
<1>6. q > 0 => SameDay(leg.eff, e[1], RollDay)
  <2>1. SUFFICES ASSUME q > 0 PROVE SameDay(leg.eff, e[1], RollDay)
    OBVIOUS
  <2>2. 1 \in 1..q /\ 0 \in 0..n /\ 1 \in 0..n /\ 1 = 0 + 1
    BY <1>1, <2>1
  <2>3. Roll(leg.eff, d * 1).m - Roll(leg.eff, d * 0).m = leg.freq
    BY <1>4, <2>2
  <2>4. Roll(leg.eff, d * 0) = leg.eff
    BY <1>1, <1>2, <2>2, GridIs
  <2>5. e[1] = Roll(leg.eff, d * 1) /\ OnDay(e[1], RollDay)
    BY <1>3, <2>2
  <2>6. QED
    BY <1>1, <2>3, <2>4, <2>5 DEF SameDay, OnDay
<1>7. ~Before(leg.mat, leg.eff)
  BY <1>2, DateIs DEF Before
<1>8. ASSUME NEW i \in 1..(q + 1) PROVE ~Before(e[i], leg.eff)
  <2>1. CASE i \in 1..q
    <3>1. Before(leg.eff, e[i]) /\ e[i] \in Calendar
      BY <1>3, <2>1, InnerDate
    <3>2. QED
      BY <1>2, <3>1, DateIs DEF Before
  <2>2. CASE i = q + 1
    BY <1>1, <1>7, <2>2
  <2>3. QED
    BY <2>1, <2>2
<1>9. ASSUME NEW i \in 2..(q + 1), ~(i \in 2..q) PROVE Before(e[i - 1], e[i]) /\ i = q + 1
  <2>1. i = q + 1 /\ i - 1 \in 1..q
    BY <1>9
  <2>2. QED
    BY <1>1, <1>3, <2>1
<1>10. EndsInOrder(e, q + 1)
  <2>1. \A i \in 2..(q + 1) : Before(e[i - 1], e[i])
    BY <1>5, <1>9
  <2>2. QED
    BY <1>1, <1>8, <2>1 DEF EndsInOrder
<1>11. EndsRegular(e, q + 1)
  <2>1. ASSUME NEW i \in 2..(q + 1) PROVE SameDay(e[i - 1], e[i], RollDay) \/ i = q + 1
    BY <1>5, <1>9, <2>1
  <2>2. QED
    BY <1>6, <2>1 DEF EndsRegular
<1>12. QED
  BY <1>10, <1>11

(* The ends of every leg are in order and regular.                         *)
LEMMA EndsAre ==
  ASSUME leg \in Legs
  PROVE  \E N \in Nat : EndsInOrder(EndDates(leg), N) /\ EndsRegular(EndDates(leg), N)
<1>1. leg.freq \in Nat
  BY LegIs
<1>2. CASE leg.freq = 0
  <2>1. EndDates(leg) = <<End0(leg)>>
    BY <1>2 DEF EndDates
  <2>2. End0(leg) \in Dates /\ ~Before(End0(leg), leg.eff)
    BY LegIs
  <2>3. <<End0(leg)>> \in Lists(1, Dates) /\ <<End0(leg)>>[1] = End0(leg)
    BY <2>2 DEF Lists
  <2>4. /\ \A i \in 1..1 : i = 1
        /\ \A i \in 2..1 : FALSE
        /\ 1 \in Nat /\ 1 > 0
    OBVIOUS
  <2>5. EndsInOrder(EndDates(leg), 1)
    BY <1>2, <2>1, <2>2, <2>3, <2>4 DEF EndsInOrder
  <2>6. EndsRegular(EndDates(leg), 1)
    BY <1>2 DEF EndsRegular
  <2>7. QED
    BY <2>4, <2>5, <2>6
<1>3. CASE leg.freq > 0 /\ Backward
  <2>1. PICK a \in Dates, d \in Int, n \in Nat, q \in Int, c \in {0, 1} : BackEnds(EndDates(leg), a, d, n, q, c)
    BY <1>3, BackEndsAre
  <2>2. EndsInOrder(EndDates(leg), q + 1 + c) /\ EndsRegular(EndDates(leg), q + 1 + c)
    BY <1>3, <2>1, BackEndsInOrder
  <2>3. q + 1 + c \in Nat
    BY <2>2 DEF EndsInOrder
  <2>4. QED
    BY <2>2, <2>3
<1>4. CASE leg.freq > 0 /\ ~Backward
  <2>1. PICK d \in Int, n \in Nat, q \in Nat : ForwardEnds(EndDates(leg), d, n, q)
    BY <1>4, ForwardEndsAre
  <2>2. EndsInOrder(EndDates(leg), q + 1) /\ EndsRegular(EndDates(leg), q + 1)
    BY <1>4, <2>1, ForwardEndsInOrder
  <2>3. q + 1 \in Nat
    OBVIOUS
  <2>4. QED
    BY <2>2, <2>3
<1>5. QED
  BY <1>1, <1>2, <1>3, <1>4

----------------------------------------------------------------------------
(* The schedule pairs the ends with the dates before them and leaves out   *)
(* the periods that are empty: none, or the first one.                     *)
Keeps(g, all, N) ==
  g = [i \in 0..N |-> IF i = 0 THEN <<>>
                      ELSE IF Before(all[i].start, all[i].end) THEN Append(g[i - 1], all[i]) ELSE g[i - 1]]
KeptOf(all, N) == (CHOOSE g : Keeps(g, all, N))[N]
Kept(all, dd, i) == [j \in 1..(i - dd) |-> all[j + dd]]

(* What is kept of the first periods, one by one.                          *)
LEMMA KeepsAt ==
  ASSUME NEW g, NEW all, NEW N, Keeps(g, all, N), NEW i \in 0..N
  PROVE  g[i] = IF i = 0 THEN <<>>
                ELSE IF Before(all[i].start, all[i].end) THEN Append(g[i - 1], all[i]) ELSE g[i - 1]
BY DEF Keeps

(* One more period is kept, or the first is not.                           *)
LEMMA KeptStep ==
  ASSUME NEW X, NEW N \in Nat, NEW all \in Lists(N, X), NEW dd \in {0, 1}, NEW i \in 1..N
  PROVE  /\ i > dd => Kept(all, dd, i) = Append(Kept(all, dd, i - 1), all[i])
         /\ ~(i > dd) => Kept(all, dd, i) = Kept(all, dd, i - 1)
         /\ Kept(all, dd, 0) = <<>>
<1>3. Kept(all, dd, 0) = <<>>
  <2>1. 1..(0 - dd) = {}
    OBVIOUS
  <2>2. QED
    BY <2>1 DEF Kept
<1>1. CASE i > dd
  <2>1. PICK m \in Nat : m = i - 1 - dd /\ m + 1 = i - dd /\ m + 1 + dd = i
    <3>1. i - 1 - dd \in Nat /\ (i - 1 - dd) + 1 = i - dd /\ (i - 1 - dd) + 1 + dd = i
      BY <1>1
    <3>2. QED
      BY <3>1
  <2>2. PICK old : old = [j \in 1..m |-> all[j + dd]]
    OBVIOUS
  <2>3. PICK new : new = [j \in 1..(m + 1) |-> all[j + dd]]
    OBVIOUS
  <2>4. Kept(all, dd, i - 1) = old /\ Kept(all, dd, i) = new
    BY <2>1, <2>2, <2>3 DEF Kept
  <2>5. \A j \in 1..m : j + dd \in 1..N
    BY <2>1
  <2>6. old \in Lists(m, X) /\ all[i] \in X
    BY <2>2, <2>5 DEF Lists
  <2>7. Appended(Append(old, all[i]), old, all[i], m, X)
    BY <2>6, AppendIs
  <2>8. \A j \in 1..(m + 1) : Append(old, all[i])[j] = new[j]
    <3>1. ASSUME NEW j \in 1..m PROVE Append(old, all[i])[j] = new[j]
      <4>1. j \in 1..(m + 1)
        OBVIOUS
      <4>2. Append(old, all[i])[j] = old[j]
        BY <2>7 DEF Appended
      <4>3. QED
        BY <2>2, <2>3, <4>1, <4>2
    <3>2. Append(old, all[i])[m + 1] = new[m + 1]
      <4>1. m + 1 \in 1..(m + 1)
        OBVIOUS
      <4>2. Append(old, all[i])[m + 1] = all[i]
        BY <2>7 DEF Appended
      <4>3. QED
        BY <2>1, <2>3, <4>1, <4>2
    <3>3. \A j \in 1..(m + 1) : j \in 1..m \/ j = m + 1
      OBVIOUS
    <3>4. QED
      BY <3>1, <3>2, <3>3
  <2>9. Append(old, all[i]) = [j \in 1..(m + 1) |-> Append(old, all[i])[j]]
    BY <2>7 DEF Appended, Lists
  <2>10. Append(old, all[i]) = new
    BY <2>3, <2>8, <2>9
  <2>11. QED
    BY <1>1, <2>4, <2>10, <1>3
<1>2. CASE ~(i > dd)
  <2>1. 1..(i - dd) = {} /\ 1..(i - 1 - dd) = {}
    BY <1>2
  <2>2. QED
    BY <1>2, <1>3, <2>1 DEF Kept
<1>4. QED
  BY <1>1, <1>2

(* The recursion of Schedule keeps the periods after the first dd.         *)
LEMMA KeptIs ==
  ASSUME NEW X, NEW N \in Nat, NEW all \in Lists(N, X), NEW dd \in {0, 1},
         \A i \in 1..N : Before(all[i].start, all[i].end) <=> i > dd
  PROVE  N > 0 => KeptOf(all, N) = Kept(all, dd, N)
<1>1. SUFFICES ASSUME N > 0 PROVE (CHOOSE g : Keeps(g, all, N))[N] = Kept(all, dd, N)
  BY DEF KeptOf
<1>2. PICK f : f = [i \in 0..N |-> Kept(all, dd, i)]
  OBVIOUS
<1>3. ASSUME NEW i \in 1..N
      PROVE  Kept(all, dd, i) = IF Before(all[i].start, all[i].end)
                                THEN Append(Kept(all, dd, i - 1), all[i]) ELSE Kept(all, dd, i - 1)
  <2>1. /\ i > dd => Kept(all, dd, i) = Append(Kept(all, dd, i - 1), all[i])
        /\ ~(i > dd) => Kept(all, dd, i) = Kept(all, dd, i - 1)
    BY KeptStep
  <2>2. QED
    BY <2>1
<1>4. Kept(all, dd, 0) = <<>>
  <2>1. 1 \in 1..N
    BY <1>1
  <2>2. QED
    BY <2>1, KeptStep
<1>5. Keeps(f, all, N)
  <2>1. ASSUME NEW i \in 0..N
        PROVE  f[i] = IF i = 0 THEN <<>>
                      ELSE IF Before(all[i].start, all[i].end) THEN Append(f[i - 1], all[i]) ELSE f[i - 1]
    <3>1. CASE i = 0
      BY <1>2, <1>4, <3>1
    <3>2. CASE i # 0
      <4>1. i \in 1..N /\ i - 1 \in 0..N
        BY <3>2
      <4>2. f[i] = Kept(all, dd, i) /\ f[i - 1] = Kept(all, dd, i - 1)
        BY <1>2, <4>1
      <4>3. QED
        BY <1>3, <3>2, <4>1, <4>2
    <3>3. QED
      BY <3>1, <3>2
  <2>2. f = [i \in 0..N |-> f[i]]
    BY <1>2
  <2>3. QED
    BY <2>1, <2>2 DEF Keeps
<1>6. PICK g : g = CHOOSE h : Keeps(h, all, N)
  OBVIOUS
<1>7. Keeps(g, all, N)
  BY <1>5, <1>6
<1>. DEFINE S == {i \in Nat : i <= N => g[i] = Kept(all, dd, i)}
<1>8. 0 \in S
  <2>1. 0 \in 0..N
    OBVIOUS
  <2>2. g[0] = <<>>
    BY <1>7, <2>1, KeepsAt
  <2>3. QED
    BY <1>4, <2>2
<1>9. ASSUME NEW i \in S PROVE i + 1 \in S
  <2>1. SUFFICES ASSUME i + 1 <= N PROVE g[i + 1] = Kept(all, dd, i + 1)
    OBVIOUS
  <2>2. i + 1 \in 0..N /\ i + 1 \in 1..N /\ i + 1 # 0 /\ (i + 1) - 1 = i /\ g[i] = Kept(all, dd, i)
    BY <2>1
  <2>3. g[i + 1] = IF Before(all[i + 1].start, all[i + 1].end) THEN Append(g[i], all[i + 1]) ELSE g[i]
    BY <1>7, <2>2, KeepsAt
  <2>4. QED
    BY <1>3, <2>2, <2>3
<1>. HIDE DEF S
<1>10. S = Nat
  BY <1>8, <1>9, SetInduction DEF S
<1>11. g[N] = Kept(all, dd, N)
  BY <1>10 DEF S
<1>12. QED
  BY <1>6, <1>11

From(e, i) == IF i = 1 THEN Start0(leg) ELSE e[i - 1]

(* The starts are the first date and the ends before.                      *)
LEMMA StartsAre ==
  ASSUME leg \in Legs, NEW N, NEW e, EndsInOrder(e, N)
  PROVE  \A i \in 1..N : (<<Start0(leg)>> \o Front(e))[i] = From(e, i)
<1>1. N \in Nat /\ N > 0 /\ e \in Lists(N, Dates) /\ Start0(leg) \in Dates
  BY LegIs DEF EndsInOrder
<1>2. PICK m \in Nat : N = m + 1
  <2>1. N - 1 \in Nat /\ N = (N - 1) + 1
    BY <1>1
  <2>2. QED
    BY <2>1
<1>3. Front(e) \in Lists(m, Dates) /\ \A i \in 1..m : Front(e)[i] = e[i]
  BY <1>1, <1>2, FrontIs
<1>4. Front(e) \in Seq(Dates) /\ Len(Front(e)) = m
  BY <1>3, FunctionIsSeq
<1>5. <<Start0(leg)>> \in Seq(Dates) /\ Len(<<Start0(leg)>>) = 1 /\ <<Start0(leg)>>[1] = Start0(leg)
  BY <1>1
<1>6. \A i \in 1..(1 + m) : (<<Start0(leg)>> \o Front(e))[i] =
                               IF i <= 1 THEN <<Start0(leg)>>[i] ELSE Front(e)[i - 1]
  BY <1>4, <1>5, ConcatProperties
<1>7. ASSUME NEW i \in 1..N PROVE (<<Start0(leg)>> \o Front(e))[i] = From(e, i)
  <2>1. (<<Start0(leg)>> \o Front(e))[i] = IF i <= 1 THEN <<Start0(leg)>>[i] ELSE Front(e)[i - 1]
    <3>1. i \in 1..(1 + m)
      BY <1>2
    <3>2. QED
      BY <1>6, <3>1
  <2>2. CASE i = 1
    BY <1>5, <2>1, <2>2 DEF From
  <2>3. CASE i # 1
    <3>1. ~(i <= 1) /\ i - 1 \in 1..m
      BY <1>2, <2>3
    <3>2. QED
      BY <1>3, <2>1, <2>3, <3>1 DEF From
  <2>4. QED
    BY <2>2, <2>3
<1>8. QED
  BY <1>7

Cut(s, e, N, dd) ==
  /\ s \in Lists(N - dd, {Period(leg, x, y) : x, y \in Dates}) /\ N - dd \in Nat
  /\ \A j \in 1..(N - dd) : s[j] = Period(leg, From(e, j + dd), e[j + dd])
  /\ dd = 0 <=> Before(Start0(leg), e[1])

(* The fields of a period.                                                 *)
LEMMA PeriodIs ==
  ASSUME NEW l, NEW x, NEW y
  PROVE  /\ Period(l, x, y).start = x /\ Period(l, x, y).end = y
         /\ Period(l, x, y).pay = AddBusinessDays(ApplyBdc(Number(y), l.bdc), l.lag)
         /\ Period(l, x, y).fixing = AddBusinessDays(Number(x), -2)
BY DEF Period

(* The schedule of every leg cuts it at the ends in order.                 *)
LEMMA ScheduleIs ==
  ASSUME leg \in Legs
  PROVE  \E N \in Nat, dd \in {0, 1} :
           /\ EndsInOrder(EndDates(leg), N) /\ EndsRegular(EndDates(leg), N)
           /\ Cut(Schedule(leg), EndDates(leg), N, dd)
<1>1. PICK N \in Nat : EndsInOrder(EndDates(leg), N) /\ EndsRegular(EndDates(leg), N)
  BY EndsAre
<1>2. PICK e : e = EndDates(leg)
  OBVIOUS
<1>. DEFINE P == {Period(leg, x, y) : x, y \in Dates}
<1>3. /\ N > 0 /\ e \in Lists(N, Dates)
      /\ \A i \in 2..N : Before(e[i - 1], e[i])
      /\ e[N] = IF leg.freq = 0 THEN End0(leg) ELSE leg.mat
  BY <1>1, <1>2 DEF EndsInOrder
<1>4. Len(e) = N /\ \A i \in 1..N : e[i] \in Dates
  BY <1>3, FunctionIsSeq DEF Lists
<1>5. PICK starts : starts = <<Start0(leg)>> \o Front(e)
  OBVIOUS
<1>6. \A i \in 1..N : starts[i] = From(e, i)
  BY <1>1, <1>2, <1>5, StartsAre
<1>7. Start0(leg) \in Dates /\ \A i \in 1..N : From(e, i) \in Dates
  <2>1. Start0(leg) \in Dates
    BY LegIs
  <2>2. ASSUME NEW i \in 1..N PROVE From(e, i) \in Dates
    <3>1. i = 1 \/ i - 1 \in 1..N
      OBVIOUS
    <3>2. QED
      BY <1>4, <2>1, <3>1 DEF From
  <2>3. QED
    BY <2>1, <2>2
<1>8. PICK all : all = [i \in 1..N |-> Period(leg, starts[i], e[i])]
  OBVIOUS
<1>9. ASSUME NEW i \in 1..N
      PROVE  /\ all[i] = Period(leg, From(e, i), e[i]) /\ all[i] \in P
             /\ all[i].start = From(e, i) /\ all[i].end = e[i]
  <2>1. all[i] = Period(leg, From(e, i), e[i])
    BY <1>6, <1>8
  <2>2. QED
    BY <1>4, <1>7, <2>1, PeriodIs
<1>10. all \in Lists(N, P) /\ Len(all) = N
  <2>1. all = [i \in 1..N |-> all[i]]
    BY <1>8
  <2>. HIDE DEF P
  <2>2. all \in Lists(N, P)
    BY <1>9, <2>1 DEF Lists
  <2>3. QED
    BY <2>2, FunctionIsSeq
<1>11. PICK dd \in {0, 1} : dd = 0 <=> Before(Start0(leg), e[1])
  <2>1. CASE Before(Start0(leg), e[1])
    BY <2>1
  <2>2. CASE ~Before(Start0(leg), e[1])
    BY <2>2
  <2>3. QED
    BY <2>1, <2>2
<1>12. ASSUME NEW i \in 1..N PROVE Before(all[i].start, all[i].end) <=> i > dd
  <2>1. CASE i = 1
    BY <1>9, <1>11, <2>1 DEF From
  <2>2. CASE i # 1
    <3>1. i \in 2..N /\ i > dd
      BY <2>2
    <3>2. QED
      BY <1>3, <1>9, <2>2, <3>1 DEF From
  <2>3. QED
    BY <2>1, <2>2
<1>13. leg.freq = 0 => N = 1 /\ dd = 0
  <2>1. SUFFICES ASSUME leg.freq = 0 PROVE N = 1 /\ dd = 0
    OBVIOUS
  <2>2. e = <<End0(leg)>>
    BY <1>2, <2>1 DEF EndDates
  <2>3. N = 1 /\ e[1] = End0(leg)
    BY <1>4, <2>2
  <2>4. Before(Start0(leg), End0(leg))
    BY <2>1, LegIs
  <2>5. QED
    BY <1>11, <2>3, <2>4
<1>14. Schedule(leg) = IF leg.freq = 0 THEN all ELSE KeptOf(all, N)
  <2>. DEFINE ends   == EndDates(leg)
              begins == <<Start0(leg)>> \o Front(ends)
              every  == [i \in 1..Len(ends) |-> Period(leg, begins[i], ends[i])]
  <2>1. Schedule(leg) = IF leg.freq = 0 THEN every ELSE KeptOf(every, Len(every))
    BY DEF Schedule, KeptOf, Keeps
  <2>2. every = all
    BY <1>2, <1>4, <1>5, <1>8
  <2>. HIDE DEF every
  <2>3. QED
    BY <1>10, <2>1, <2>2
<1>15. Kept(all, dd, N) = [j \in 1..(N - dd) |-> all[j + dd]]
  BY DEF Kept
<1>16. leg.freq = 0 => all = Kept(all, dd, N)
  <2>1. SUFFICES ASSUME leg.freq = 0 PROVE all = [j \in 1..(N - dd) |-> all[j + dd]]
    BY <1>15
  <2>2. N - dd = N /\ \A j \in 1..N : j + dd = j
    BY <1>13, <2>1
  <2>3. all = [j \in 1..N |-> all[j]]
    BY <1>8
  <2>4. QED
    BY <2>2, <2>3
<1>17. Schedule(leg) = Kept(all, dd, N)
  <2>1. KeptOf(all, N) = Kept(all, dd, N)
    BY <1>3, <1>10, <1>12, KeptIs
  <2>2. QED
    BY <1>14, <1>16, <2>1
<1>18. ASSUME NEW j \in 1..(N - dd)
       PROVE  /\ Schedule(leg)[j] = Period(leg, From(e, j + dd), e[j + dd])
              /\ Schedule(leg)[j] \in P
  <2>1. j + dd \in 1..N
    OBVIOUS
  <2>2. Schedule(leg)[j] = all[j + dd]
    BY <1>15, <1>17
  <2>3. QED
    BY <1>9, <2>1, <2>2
<1>19. N - dd \in Nat
  BY <1>3
<1>20. Schedule(leg) \in Lists(N - dd, P)
  <2>1. Schedule(leg) = [j \in 1..(N - dd) |-> Schedule(leg)[j]]
    BY <1>15, <1>17
  <2>. HIDE DEF P
  <2>2. QED
    BY <1>18, <2>1 DEF Lists
<1>21. Cut(Schedule(leg), e, N, dd)
  BY <1>11, <1>18, <1>19, <1>20 DEF Cut
<1>22. QED
  BY <1>1, <1>2, <1>21

----------------------------------------------------------------------------
(* What the periods are: none, or the schedule of the leg's terms.         *)
Inv == leg \in Legs /\ (periods = <<>> \/ periods = Schedule(leg))

(* What such a schedule says of each period.                               *)
LEMMA CutIs ==
  ASSUME leg \in Legs, NEW N, NEW e, EndsInOrder(e, N), NEW dd \in {0, 1}, NEW s, Cut(s, e, N, dd)
  PROVE  /\ N - dd \in Nat /\ Len(s) = N - dd /\ DOMAIN s = 1..(N - dd)
         /\ \A i \in 1..(N - dd) :
              /\ i + dd \in 1..N
              /\ s[i].start = From(e, i + dd) /\ s[i].end = e[i + dd]
              /\ s[i].start \in Dates /\ s[i].end \in Dates /\ Before(s[i].start, s[i].end)
              /\ s[i].pay = AddBusinessDays(ApplyBdc(Number(e[i + dd]), leg.bdc), leg.lag)
              /\ s[i].fixing = AddBusinessDays(Number(From(e, i + dd)), -2)
<1>1. /\ N \in Nat /\ e \in Lists(N, Dates)
      /\ \A i \in 2..N : Before(e[i - 1], e[i])
  BY DEF EndsInOrder
<1>2. /\ N - dd \in Nat
      /\ \A j \in 1..(N - dd) : s[j] = Period(leg, From(e, j + dd), e[j + dd])
      /\ dd = 0 => Before(Start0(leg), e[1])
  BY DEF Cut
<1>3. Len(s) = N - dd /\ DOMAIN s = 1..(N - dd)
  <2>. DEFINE P == {Period(leg, x, y) : x, y \in Dates}
  <2>1. s \in Lists(N - dd, P)
    BY DEF Cut
  <2>. HIDE DEF P
  <2>2. QED
    BY <1>2, <2>1, FunctionIsSeq DEF Lists
<1>4. \A i \in 1..N : e[i] \in Dates
  BY <1>1 DEF Lists
<1>5. ASSUME NEW i \in 1..(N - dd)
      PROVE  /\ i + dd \in 1..N
             /\ s[i].start = From(e, i + dd) /\ s[i].end = e[i + dd]
             /\ s[i].start \in Dates /\ s[i].end \in Dates /\ Before(s[i].start, s[i].end)
             /\ s[i].pay = AddBusinessDays(ApplyBdc(Number(e[i + dd]), leg.bdc), leg.lag)
             /\ s[i].fixing = AddBusinessDays(Number(From(e, i + dd)), -2)
  <2>1. PICK k \in 1..N : k = i + dd
    <3>1. i + dd \in 1..N
      BY <1>1
    <3>2. QED
      BY <3>1
  <2>2. s[i] = Period(leg, From(e, k), e[k])
    BY <1>2, <2>1
  <2>3. From(e, k) \in Dates /\ Before(From(e, k), e[k])
    <3>1. CASE k = 1
      <4>1. dd = 0
        BY <2>1, <3>1
      <4>2. QED
        BY <1>2, <3>1, <4>1, LegIs DEF From
    <3>2. CASE k # 1
      <4>1. k \in 2..N /\ k - 1 \in 1..N
        BY <1>1, <3>2
      <4>2. QED
        BY <1>1, <1>4, <3>2, <4>1 DEF From
    <3>3. QED
      BY <3>1, <3>2
  <2>4. e[k] \in Dates
    BY <1>4
  <2>5. QED
    BY <2>1, <2>2, <2>3, <2>4, PeriodIs
<1>6. QED
  BY <1>2, <1>3, <1>5

(* The periods, once there are any, are such a schedule.                   *)
LEMMA PeriodsAre ==
  ASSUME Inv, periods # <<>>
  PROVE  \E N \in Nat, dd \in {0, 1} :
           /\ leg \in Legs /\ N - dd > 0
           /\ EndsInOrder(EndDates(leg), N) /\ EndsRegular(EndDates(leg), N)
           /\ Cut(periods, EndDates(leg), N, dd)
<1>1. leg \in Legs /\ periods = Schedule(leg)
  BY DEF Inv
<1>2. PICK N \in Nat, dd \in {0, 1} :
           /\ EndsInOrder(EndDates(leg), N) /\ EndsRegular(EndDates(leg), N)
           /\ Cut(Schedule(leg), EndDates(leg), N, dd)
  BY <1>1, ScheduleIs
<1>3. N - dd \in Nat /\ DOMAIN periods = 1..(N - dd)
  BY <1>1, <1>2, CutIs
<1>4. N - dd > 0
  <2>1. SUFFICES ASSUME N - dd = 0 PROVE FALSE
    BY <1>3
  <2>. DEFINE P == {Period(leg, x, y) : x, y \in Dates}
  <2>2. periods \in Lists(0, P)
    BY <1>1, <1>2, <2>1 DEF Cut
  <2>. HIDE DEF P
  <2>3. periods \in Seq(P) /\ Len(periods) = 0
    BY <2>2, FunctionIsSeq
  <2>4. QED
    BY <2>3
<1>5. QED
  BY <1>1, <1>2, <1>4

(* The periods' dates are dates of the calendar.                           *)
LEMMA InvTypeOK ==
  ASSUME Inv PROVE TypeOK
<1>1. leg \in Legs
  BY DEF Inv
<1>2. CASE periods = <<>>
  BY <1>1, <1>2 DEF TypeOK
<1>3. CASE periods # <<>>
  <2>1. PICK N \in Nat, dd \in {0, 1} : EndsInOrder(EndDates(leg), N) /\ Cut(periods, EndDates(leg), N, dd)
    BY <1>3, PeriodsAre
  <2>2. /\ DOMAIN periods = 1..(N - dd)
        /\ \A i \in 1..(N - dd) : periods[i].start \in Dates /\ periods[i].end \in Dates
    BY <1>1, <2>1, CutIs
  <2>3. ASSUME NEW i \in DOMAIN periods, NEW dt \in {periods[i].start, periods[i].end}
        PROVE  dt.m \in DOMAIN MonthDays /\ dt.d \in 1..MonthDays[dt.m]
    <3>1. dt \in Dates
      BY <2>2
    <3>2. dt \in Calendar
      BY <3>1, InnerDate
    <3>3. QED
      BY <3>2, DateIs
  <2>4. QED
    BY <1>1, <2>3 DEF TypeOK
<1>4. QED
  BY <1>2, <1>3

(* The periods cover the leg.                                              *)
LEMMA InvTiles ==
  ASSUME Inv PROVE Tiles
<1>1. SUFFICES ASSUME periods # <<>>
               PROVE  /\ First.start = Start0(leg) \/ (leg.first # NoDate /\ Before(First.start, leg.first))
                      /\ Final.end = IF leg.freq = 0 THEN End0(leg) ELSE leg.mat
                      /\ \A i \in 1..(Len(periods) - 1) : periods[i].end = periods[i + 1].start
                      /\ \A i \in DOMAIN periods : Before(periods[i].start, periods[i].end)
  BY DEF Tiles
<1>2. PICK N \in Nat, dd \in {0, 1} :
           /\ leg \in Legs /\ N - dd > 0
           /\ EndsInOrder(EndDates(leg), N)
           /\ Cut(periods, EndDates(leg), N, dd)
  BY <1>1, PeriodsAre
<1>3. PICK e : e = EndDates(leg)
  OBVIOUS
<1>4. /\ N - dd \in Nat /\ Len(periods) = N - dd /\ DOMAIN periods = 1..(N - dd)
      /\ \A i \in 1..(N - dd) :
              /\ periods[i].start = From(e, i + dd) /\ periods[i].end = e[i + dd]
              /\ Before(periods[i].start, periods[i].end)
  <2>1. EndsInOrder(e, N) /\ Cut(periods, e, N, dd) /\ leg \in Legs
    BY <1>2, <1>3
  <2>2. QED
    BY <2>1, CutIs
<1>5. /\ e \in Lists(N, Dates) /\ ~Before(e[1], leg.eff) /\ e[1] \in Dates
      /\ e[N] = IF leg.freq = 0 THEN End0(leg) ELSE leg.mat
  <2>1. 1 \in 1..N
    BY <1>2
  <2>2. QED
    BY <1>2, <1>3, <2>1 DEF EndsInOrder, Lists
<1>6. First.start = Start0(leg) \/ (leg.first # NoDate /\ Before(First.start, leg.first))
  <2>1. First.start = From(e, 1 + dd)
    BY <1>2, <1>4 DEF First
  <2>2. CASE dd = 0
    BY <2>1, <2>2 DEF From
  <2>3. CASE dd = 1
    <3>1. First.start = e[1]
      BY <2>1, <2>3 DEF From
    <3>2. ~Before(Start0(leg), e[1])
      BY <1>2, <1>3, <2>3 DEF Cut
    <3>3. e[1] \in Calendar /\ Start0(leg) \in Calendar /\ leg.eff \in Calendar
      BY <1>2, <1>5, LegIs, InnerDate
    <3>4. Before(e[1], Start0(leg)) \/ e[1] = Start0(leg)
      BY <3>2, <3>3, DatesInOrder
    <3>5. QED
      BY <1>5, <3>1, <3>4 DEF Start0
  <2>4. QED
    BY <2>2, <2>3
<1>7. Final.end = e[N]
  <2>1. N - dd \in 1..(N - dd) /\ (N - dd) + dd = N
    BY <1>2
  <2>2. QED
    BY <1>4, <2>1 DEF Final
<1>8. ASSUME NEW i \in 1..(Len(periods) - 1) PROVE periods[i].end = periods[i + 1].start
  <2>1. i \in 1..(N - dd) /\ i + 1 \in 1..(N - dd) /\ (i + 1) + dd # 1 /\ ((i + 1) + dd) - 1 = i + dd
    BY <1>4
  <2>2. QED
    BY <1>4, <2>1 DEF From
<1>9. QED
  BY <1>4, <1>5, <1>6, <1>7, <1>8

(* A stub is where the leg asks for it.                                    *)
LEMMA InvOneStub ==
  ASSUME Inv PROVE OneStub
<1>1. SUFFICES ASSUME periods # <<>>, leg.freq > 0, NEW i \in DOMAIN periods
               PROVE  \/ SameDay(periods[i].start, periods[i].end, RollDay)
                      \/ i = 1 /\ (Backward \/ leg.first # NoDate)
                      \/ i = Len(periods) /\ (~Backward \/ leg.last # NoDate)
  BY DEF OneStub
<1>2. PICK N \in Nat, dd \in {0, 1} :
           /\ leg \in Legs /\ N - dd > 0
           /\ EndsInOrder(EndDates(leg), N) /\ EndsRegular(EndDates(leg), N)
           /\ Cut(periods, EndDates(leg), N, dd)
  BY <1>1, PeriodsAre
<1>3. PICK e : e = EndDates(leg)
  OBVIOUS
<1>4. EndsInOrder(e, N) /\ Cut(periods, e, N, dd) /\ leg \in Legs /\ EndsRegular(e, N)
  BY <1>2, <1>3
<1>5. /\ Len(periods) = N - dd /\ i \in 1..(N - dd)
      /\ periods[i].start = From(e, i + dd) /\ periods[i].end = e[i + dd]
  BY <1>4, CutIs
<1>6. PICK k \in 1..N : k = i + dd
  <2>1. i + dd \in 1..N
    BY <1>2, <1>5
  <2>2. QED
    BY <2>1
<1>7. periods[i].start = From(e, k) /\ periods[i].end = e[k] /\ (k = N => i = Len(periods))
  BY <1>2, <1>5, <1>6
<1>8. CASE k # 1
  <2>1. k \in 2..N
    BY <1>8
  <2>2. SameDay(e[k - 1], e[k], RollDay) \/ (k = N /\ (~Backward \/ leg.last # NoDate))
    BY <1>1, <1>4, <2>1 DEF EndsRegular
  <2>3. periods[i].start = e[k - 1]
    BY <1>7, <1>8 DEF From
  <2>. HIDE DEF SameDay, Backward
  <2>4. QED
    BY <1>7, <2>2, <2>3
<1>9. CASE k = 1 /\ ~Backward /\ leg.first = NoDate
  <2>1. periods[i].start = leg.eff
    BY <1>7, <1>9 DEF From, Start0
  <2>2. N > 1 => SameDay(leg.eff, e[1], RollDay)
    BY <1>1, <1>4, <1>9 DEF EndsRegular
  <2>3. N = 1 => i = Len(periods)
    BY <1>7, <1>9
  <2>4. N > 1 \/ N = 1
    BY <1>2
  <2>. HIDE DEF SameDay, Backward
  <2>5. QED
    BY <1>7, <1>9, <2>1, <2>2, <2>3, <2>4
<1>10. CASE k = 1 /\ (Backward \/ leg.first # NoDate)
  <2>1. i = 1
    BY <1>2, <1>5, <1>6, <1>10
  <2>2. QED
    BY <1>10, <2>1
<1>11. QED
  BY <1>8, <1>9, <1>10

(* How long the stub of a plain leg is, and that a whole one has none.     *)
StubIs(e, N) ==
  /\ Before(leg.eff, e[1])
  /\ e[1].m - leg.eff.m <= leg.freq * (IF Long THEN 2 ELSE 1)
  /\ N > 1 => e[N].m - e[N - 1].m <= leg.freq * (IF Long THEN 2 ELSE 1)
  /\ ~Long \/ RollDay <= 28 => \A w \in Nat : w > 0 /\ Whole(w) => N = w

(* One or two regular periods, without the product.                        *)
LEMMA LongIs ==
  ASSUME NEW f \in Nat
  PROVE  f * (IF Long THEN 2 ELSE 1) = IF Long THEN f + f ELSE f
<1>1. CASE Long
  BY <1>1
<1>2. CASE ~Long
  BY <1>2
<1>3. QED
  BY <1>1, <1>2

(* The stub of a leg that is rolled back.                                  *)
LEMMA BackStub ==
  ASSUME leg \in Legs, leg.freq > 0, Backward, leg.first = NoDate, leg.last = NoDate,
         NEW e, NEW a \in Dates, NEW d \in Int, NEW n \in Nat,
         NEW q \in Int, NEW c \in {0, 1}, BackEnds(e, a, d, n, q, c)
  PROVE  StubIs(e, q + 1 + c)
<1>1. /\ Anchored(leg, a, d) /\ n = Cardinality(Rolls(leg, a, d)) /\ d < 0 /\ d = -leg.freq
      /\ c = 0 /\ a = leg.mat /\ a.d = RollDay
      /\ \A i \in 1..(q + 1) : e[i] = Roll(a, d * (q + 1 - i))
      /\ \/ q = n
         \/ /\ q = n - 1 /\ q + 1 + c > 0 /\ leg.stub = "LONG_FRONT" /\ leg.first = NoDate
            /\ Roll(Roll(a, d * n), d) # Start0(leg)
  BY DEF BackEnds
<1>2. PICK N \in Nat : N = q + 1 /\ N = q + 1 + c /\ N > 0 /\ q \in 0..n
  <2>1. q + 1 \in Nat /\ q + 1 > 0 /\ q + 1 + c = q + 1 /\ q \in 0..n
    BY <1>1
  <2>2. QED
    BY <2>1
<1>3. leg.freq \in Nat /\ leg.eff \in Calendar /\ leg.mat \in Calendar /\ Before(leg.eff, leg.mat)
      /\ leg.eff.m \in Int /\ a.m \in Int /\ a \in Calendar
  BY <1>1, LegIs, InnerDate
<1>4. e[1] = Roll(a, d * q)
  <2>1. 1 \in 1..(q + 1) /\ q + 1 - 1 = q
    BY <1>2
  <2>2. QED
    BY <1>1, <2>1
<1>5. e[1].m = a.m + d * q /\ Before(leg.eff, e[1]) /\ d * q \in Int
  <2>1. /\ Roll(a, d * q).m = a.m + d * q /\ d * q \in Int
        /\ q = 0 => Roll(a, d * q) = a
        /\ q > 0 => Before(leg.eff, Roll(a, d * q))
    BY <1>1, <1>2, GridIs
  <2>2. q = 0 \/ q > 0
    BY <1>2
  <2>3. QED
    BY <1>1, <1>3, <1>4, <2>1, <2>2
<1>6. a.m + d * (n + 1) <= leg.eff.m
  BY <1>1, GridEnds
<1>7. d * (n + 1) = d * n + d /\ d * n \in Int /\ (q = n - 1 => d * n = d * q + d)
  <2>1. d * (n + 1) = d * n + d /\ d * n \in Int /\ d * (q + 1) = d * q + d
    BY <1>2, Times
  <2>2. q = n - 1 => q + 1 = n
    OBVIOUS
  <2>3. QED
    BY <2>1, <2>2
<1>8. e[1].m - leg.eff.m <= leg.freq * (IF Long THEN 2 ELSE 1)
  <2>1. leg.freq * (IF Long THEN 2 ELSE 1) = IF Long THEN leg.freq + leg.freq ELSE leg.freq
    BY <1>3, LongIs
  <2>2. q = n => e[1].m - leg.eff.m <= leg.freq
    BY <1>1, <1>3, <1>5, <1>6, <1>7
  <2>3. q = n - 1 => e[1].m - leg.eff.m <= leg.freq + leg.freq
    BY <1>1, <1>3, <1>5, <1>6, <1>7
  <2>4. q # n => Long
    BY <1>1 DEF Long
  <2>5. e[1].m - leg.eff.m \in Int
    BY <1>3, <1>5
  <2>6. QED
    BY <1>1, <1>3, <2>1, <2>2, <2>3, <2>4, <2>5
<1>9. ASSUME NEW w \in Nat, w > 0, Whole(w), ~Long \/ RollDay <= 28 PROVE N = w
  <2>1. -leg.freq * w = d * w
    BY <1>1, <1>3
  <2>2. Roll(leg.mat, d * w) = leg.eff
    BY <1>9, <2>1 DEF Whole
  <2>3. n = w - 1
    BY <1>1, <1>9, <2>2, WholeGrid
  <2>4. ASSUME q = n - 1, leg.stub = "LONG_FRONT", Roll(Roll(a, d * n), d) # Start0(leg) PROVE FALSE
    <3>1. a.d <= 28 /\ Start0(leg) = leg.eff
      BY <1>1, <1>9, <2>4 DEF Long, Start0
    <3>2. d * n + d = d * w
      <4>1. n + 1 = w
        BY <2>3
      <4>2. QED
        BY <1>7, <4>1
    <3>3. a.m + d * n \in DOMAIN MonthDays
      <4>1. n \in 0..n
        OBVIOUS
      <4>2. Roll(a, d * n) \in Dates /\ Roll(a, d * n).m = a.m + d * n
        BY <1>1, <4>1, GridIs
      <4>3. QED
        BY <4>2, InnerDate
    <3>4. a.m + (d * n + d) \in DOMAIN MonthDays
      <4>1. leg.eff.m = a.m + d * w
        BY <1>1, <2>2 DEF Roll
      <4>2. leg.eff.m \in DOMAIN MonthDays
        BY <1>3, DateIs
      <4>3. QED
        BY <3>2, <4>1, <4>2
    <3>5. Roll(Roll(a, d * n), d) = Roll(a, d * n + d)
      BY <1>3, <1>7, <3>1, <3>3, <3>4, RollTwice
    <3>6. QED
      BY <1>1, <2>2, <2>4, <3>1, <3>2, <3>5
  <2>5. q = n
    BY <1>1, <2>4
  <2>6. QED
    BY <1>2, <2>3, <2>5
<1>10. N > 1 => e[N].m - e[N - 1].m <= leg.freq * (IF Long THEN 2 ELSE 1)
  <2>1. SUFFICES ASSUME N > 1 PROVE e[N].m - e[N - 1].m <= leg.freq * (IF Long THEN 2 ELSE 1)
    OBVIOUS
  <2>2. EndsRegular(e, N)
    BY <1>2, BackEndsInOrder
  <2>3. SameDay(e[N - 1], e[N], RollDay)
    BY <1>2, <2>1, <2>2 DEF EndsRegular
  <2>4. e[N].m - e[N - 1].m = leg.freq
    BY <2>3 DEF SameDay
  <2>5. leg.freq * (IF Long THEN 2 ELSE 1) = IF Long THEN leg.freq + leg.freq ELSE leg.freq
    BY <1>3, LongIs
  <2>6. QED
    BY <1>3, <2>4, <2>5
<1>11. QED
  BY <1>2, <1>5, <1>8, <1>9, <1>10 DEF StubIs

(* The stub of a leg that is rolled forward.                               *)
LEMMA ForwardStub ==
  ASSUME leg \in Legs, leg.freq > 0, ~Backward, leg.first = NoDate, leg.last = NoDate,
         NEW e, NEW d \in Int, NEW n \in Nat, NEW q \in Nat, ForwardEnds(e, d, n, q)
  PROVE  StubIs(e, q + 1)
<1>1. /\ Anchored(leg, leg.eff, d) /\ n = Cardinality(Rolls(leg, leg.eff, d)) /\ d > 0 /\ d = leg.freq
      /\ RollDay = leg.eff.d
      /\ \A i \in 1..q : e[i] = Roll(leg.eff, d * i)
      /\ e[q + 1] = leg.mat
      /\ \/ q = n
         \/ q = n - 1 /\ leg.stub = "LONG_BACK" /\ Roll(Roll(leg.eff, d * n), d) # leg.mat
  BY DEF ForwardEnds
<1>2. leg.eff \in Dates /\ leg.mat \in Dates /\ leg.eff \in Calendar /\ leg.mat \in Calendar
      /\ Before(leg.eff, leg.mat) /\ leg.eff.m \in Int /\ leg.mat.m \in Int /\ d \in Nat /\ q \in 0..n
  BY <1>1, LegIs, InnerDate
<1>3. leg.eff.m + d * (n + 1) >= leg.mat.m
  BY <1>1, <1>2, GridEnds
<1>4. d * (n + 1) = d * n + d /\ d * n \in Int /\ d * q \in Int /\ (q = n - 1 => d * n = d * q + d)
  <2>1. d * (n + 1) = d * n + d /\ d * n \in Int /\ d * q \in Int /\ d * (q + 1) = d * q + d
    BY Times
  <2>2. q = n - 1 => q + 1 = n
    OBVIOUS
  <2>3. QED
    BY <2>1, <2>2
<1>5. leg.mat.m - (leg.eff.m + d * q) <= d * (IF Long THEN 2 ELSE 1)
  <2>1. d * (IF Long THEN 2 ELSE 1) = IF Long THEN d + d ELSE d
    BY <1>2, LongIs
  <2>2. q = n => leg.mat.m - (leg.eff.m + d * q) <= d
    BY <1>2, <1>3, <1>4
  <2>3. q = n - 1 => leg.mat.m - (leg.eff.m + d * q) <= d + d
    BY <1>2, <1>3, <1>4
  <2>4. q # n => Long
    BY <1>1 DEF Long
  <2>5. leg.mat.m - (leg.eff.m + d * q) \in Int
    BY <1>2, <1>4
  <2>6. QED
    BY <1>1, <1>2, <2>1, <2>2, <2>3, <2>4, <2>5
<1>6. Roll(leg.eff, d * q).m = leg.eff.m + d * q /\ (q = 0 => Roll(leg.eff, d * q) = leg.eff)
      /\ (q > 0 => Before(leg.eff, Roll(leg.eff, d * q)))
  BY <1>1, <1>2, GridIs
<1>9. ASSUME NEW w \in Nat, w > 0, Whole(w), ~Long \/ RollDay <= 28 PROVE q + 1 = w
  <2>1. Roll(leg.eff, d * w) = leg.mat
    BY <1>1, <1>9 DEF Whole
  <2>2. n = w - 1
    BY <1>1, <1>2, <1>9, <2>1, WholeGrid
  <2>3. ASSUME leg.stub = "LONG_BACK", Roll(Roll(leg.eff, d * n), d) # leg.mat PROVE FALSE
    <3>1. leg.eff.d <= 28
      BY <1>1, <1>9, <2>3 DEF Long
    <3>2. d * n + d = d * w
      <4>1. n + 1 = w
        BY <2>2
      <4>2. QED
        BY <1>4, <4>1
    <3>3. leg.eff.m + d * n \in DOMAIN MonthDays
      <4>1. n \in 0..n
        OBVIOUS
      <4>2. Roll(leg.eff, d * n) \in Dates /\ Roll(leg.eff, d * n).m = leg.eff.m + d * n
        BY <1>1, <1>2, <4>1, GridIs
      <4>3. QED
        BY <4>2, InnerDate
    <3>4. leg.eff.m + (d * n + d) \in DOMAIN MonthDays
      <4>1. leg.mat.m = leg.eff.m + d * w
        BY <2>1 DEF Roll
      <4>2. leg.mat.m \in DOMAIN MonthDays
        BY <1>2, DateIs
      <4>3. QED
        BY <3>2, <4>1, <4>2
    <3>5. Roll(Roll(leg.eff, d * n), d) = Roll(leg.eff, d * n + d)
      BY <1>2, <1>4, <3>1, <3>3, <3>4, RollTwice
    <3>6. QED
      BY <2>1, <2>3, <3>2, <3>5
  <2>4. q = n
    BY <1>1, <2>3
  <2>5. QED
    BY <2>2, <2>4
<1>7. CASE q = 0
  <2>1. e[1] = leg.mat /\ leg.eff.m + d * q = leg.eff.m /\ ~(q + 1 > 1)
    BY <1>1, <1>2, <1>6, <1>7
  <2>2. e[1].m - leg.eff.m <= leg.freq * (IF Long THEN 2 ELSE 1)
    BY <1>1, <1>5, <2>1
  <2>3. QED
    BY <1>2, <2>1, <2>2, <1>9 DEF StubIs
<1>8. CASE q > 0
  <2>1. 1 \in 1..q /\ q \in 1..q /\ q + 1 - 1 = q /\ 1 \in 0..n /\ 1 > 0 /\ q + 1 > 1
    BY <1>1, <1>8
  <2>2. e[q].m = leg.eff.m + d * q
    BY <1>1, <1>6, <2>1
  <2>3. e[q + 1].m - e[q].m <= leg.freq * (IF Long THEN 2 ELSE 1)
    BY <1>1, <1>5, <2>2
  <2>4. e[1] = Roll(leg.eff, d * 1) /\ d * 1 = d
    BY <1>1, <2>1, Times
  <2>5. Before(leg.eff, e[1]) /\ e[1].m = leg.eff.m + d
    BY <1>1, <1>2, <2>1, <2>4, GridIs
  <2>6. e[1].m - leg.eff.m <= leg.freq * (IF Long THEN 2 ELSE 1)
    <3>1. d * (IF Long THEN 2 ELSE 1) = IF Long THEN d + d ELSE d
      BY <1>2, LongIs
    <3>2. e[1].m - leg.eff.m = d
      BY <1>2, <2>5
    <3>3. QED
      BY <1>1, <1>2, <3>1, <3>2
  <2>7. QED
    BY <2>1, <2>3, <2>5, <2>6, <1>9 DEF StubIs
<1>10. QED
  BY <1>7, <1>8

(* A stub is as long as the leg asks for it.                               *)
LEMMA InvStubLength ==
  ASSUME Inv PROVE StubLength
<1>1. SUFFICES ASSUME Plain
               PROVE  /\ \A i \in DOMAIN periods :
                           periods[i].end.m - periods[i].start.m <= leg.freq * (IF Long THEN 2 ELSE 1)
                      /\ ~Long \/ RollDay <= 28 => MergesOddOnly
  BY DEF StubLength
<1>2. periods # <<>> /\ leg.freq > 0 /\ leg.first = NoDate /\ leg.last = NoDate
  BY <1>1 DEF Plain
<1>3. PICK N \in Nat, dd \in {0, 1} :
           /\ leg \in Legs /\ N - dd > 0
           /\ EndsInOrder(EndDates(leg), N) /\ EndsRegular(EndDates(leg), N)
           /\ Cut(periods, EndDates(leg), N, dd)
  BY <1>2, PeriodsAre
<1>4. PICK e : e = EndDates(leg)
  OBVIOUS
<1>5. EndsInOrder(e, N) /\ Cut(periods, e, N, dd) /\ leg \in Legs /\ EndsRegular(e, N) /\ leg.freq \in Nat
  BY <1>3, <1>4, LegIs
<1>6. \A M \in Nat : e \in Lists(M, Dates) => M = N
  <2>1. e \in Lists(N, Dates)
    BY <1>5 DEF EndsInOrder
  <2>2. \A M \in Nat : e \in Lists(M, Dates) => Len(e) = M
    BY FunctionIsSeq
  <2>3. QED
    BY <2>1, <2>2
<1>7. StubIs(e, N)
  <2>1. CASE Backward
    <3>1. PICK a \in Dates, d \in Int, n \in Nat, q \in Int, c \in {0, 1} : BackEnds(e, a, d, n, q, c)
      BY <1>2, <1>4, <1>5, <2>1, BackEndsAre
    <3>2. StubIs(e, q + 1 + c) /\ EndsInOrder(e, q + 1 + c)
      BY <1>2, <1>5, <2>1, <3>1, BackStub, BackEndsInOrder
    <3>3. q + 1 + c = N
      BY <1>6, <3>2 DEF EndsInOrder
    <3>4. QED
      BY <3>2, <3>3
  <2>2. CASE ~Backward
    <3>1. PICK d \in Int, n \in Nat, q \in Nat : ForwardEnds(e, d, n, q)
      BY <1>2, <1>4, <1>5, <2>2, ForwardEndsAre
    <3>2. StubIs(e, q + 1) /\ EndsInOrder(e, q + 1)
      BY <1>2, <1>5, <2>2, <3>1, ForwardStub, ForwardEndsInOrder
    <3>3. q + 1 = N
      BY <1>6, <3>2 DEF EndsInOrder
    <3>4. QED
      BY <3>2, <3>3
  <2>3. QED
    BY <2>1, <2>2
<1>8. dd = 0 /\ Start0(leg) = leg.eff
  BY <1>2, <1>5, <1>7 DEF StubIs, Cut, Start0
<1>9. /\ Len(periods) = N /\ DOMAIN periods = 1..N
      /\ \A i \in 1..N : periods[i].start = From(e, i) /\ periods[i].end = e[i]
  <2>1. /\ Len(periods) = N - dd /\ DOMAIN periods = 1..(N - dd)
        /\ \A i \in 1..(N - dd) : periods[i].start = From(e, i + dd) /\ periods[i].end = e[i + dd]
    BY <1>5, CutIs
  <2>2. N - dd = N /\ \A i \in 1..N : i + dd = i
    BY <1>8
  <2>3. QED
    BY <2>1, <2>2
<1>10. ASSUME NEW i \in 1..N
       PROVE  periods[i].end.m - periods[i].start.m <= leg.freq * (IF Long THEN 2 ELSE 1)
  <2>1. CASE i = 1
    BY <1>7, <1>8, <1>9, <2>1 DEF StubIs, From
  <2>2. CASE i = N /\ i # 1
    <3>1. N > 1
      BY <2>2
    <3>2. e[N].m - e[N - 1].m <= leg.freq * (IF Long THEN 2 ELSE 1)
      BY <1>7, <3>1 DEF StubIs
    <3>3. QED
      BY <1>9, <2>2, <3>2 DEF From
  <2>3. CASE i # N /\ i # 1
    <3>1. i \in 2..N
      BY <2>3
    <3>2. SameDay(e[i - 1], e[i], RollDay)
      BY <1>2, <1>5, <2>3, <3>1 DEF EndsRegular
    <3>3. periods[i].end.m - periods[i].start.m = leg.freq
      BY <1>9, <2>3, <3>2 DEF SameDay, From
    <3>4. leg.freq * (IF Long THEN 2 ELSE 1) = IF Long THEN leg.freq + leg.freq ELSE leg.freq
      BY <1>5, LongIs
    <3>5. QED
      BY <1>5, <3>3, <3>4
  <2>4. QED
    BY <2>1, <2>2, <2>3
<1>11. ASSUME ~Long \/ RollDay <= 28 PROVE MergesOddOnly
  <2>1. ASSUME NEW w \in 1..((leg.mat.m - leg.eff.m) \div leg.freq), Whole(w) PROVE Len(periods) = w
    <3>1. w \in Nat /\ w > 0
      OBVIOUS
    <3>2. N = w
      BY <1>7, <1>11, <2>1, <3>1 DEF StubIs
    <3>3. QED
      BY <1>9, <3>2
  <2>2. QED
    BY <2>1 DEF MergesOddOnly
<1>12. QED
  BY <1>9, <1>10, <1>11

(* Coupons are paid in order, on business days, and fixed two before.      *)
LEMMA InvPaidInOrder ==
  ASSUME Inv PROVE PaidInOrder
<1>1. CASE periods = <<>>
  <2>1. DOMAIN periods = {} /\ 1..(Len(periods) - 1) = {}
    BY <1>1
  <2>2. QED
    BY <2>1 DEF PaidInOrder
<1>2. CASE periods # <<>>
  <2>1. PICK N \in Nat, dd \in {0, 1} :
           /\ leg \in Legs /\ N - dd > 0
           /\ EndsInOrder(EndDates(leg), N)
           /\ Cut(periods, EndDates(leg), N, dd)
    BY <1>2, PeriodsAre
  <2>2. PICK e : e = EndDates(leg)
    OBVIOUS
  <2>3. EndsInOrder(e, N) /\ Cut(periods, e, N, dd) /\ leg \in Legs /\ leg.lag \in Int
    BY <2>1, <2>2, LegIs
  <2>4. /\ N - dd \in Nat /\ Len(periods) = N - dd /\ DOMAIN periods = 1..(N - dd)
        /\ \A i \in 1..(N - dd) :
              /\ i + dd \in 1..N
              /\ periods[i].start = From(e, i + dd) /\ periods[i].end = e[i + dd]
              /\ periods[i].start \in Dates /\ periods[i].end \in Dates
              /\ periods[i].pay = AddBusinessDays(ApplyBdc(Number(e[i + dd]), leg.bdc), leg.lag)
              /\ periods[i].fixing = AddBusinessDays(Number(From(e, i + dd)), -2)
    BY <2>3, CutIs
  <2>5. ASSUME NEW i \in 1..(N - dd)
        PROVE  LET x == periods[i].end
                   n == ApplyBdc(Number(x), leg.bdc)
               IN  /\ x \in Dates /\ n \in Int /\ periods[i].pay = AddBusinessDays(n, leg.lag)
                   /\ leg.bdc # "UNADJUSTED" => IsBusinessDay(n)
                   /\ leg.bdc \in {"MOD_FOLLOWING", "MOD_PRECEDING"} => InMonth(n, x.m)
    <3>1. periods[i].end \in Dates /\ periods[i].pay = AddBusinessDays(ApplyBdc(Number(periods[i].end), leg.bdc), leg.lag)
      BY <2>4
    <3>2. Number(periods[i].end) \in Int
      BY <3>1, InnerDate
    <3>3. PICK a, b : NextOn(Number(periods[i].end), a) /\ PrevOn(Number(periods[i].end), b)
      BY <3>2, NextExists, PrevExists
    <3>4. QED
      BY <3>1, <3>3, Adjusted
  <2>6. ASSUME NEW i \in 1..(Len(periods) - 1) PROVE periods[i].pay <= periods[i + 1].pay
    <3>1. i \in 1..(N - dd) /\ i + 1 \in 1..(N - dd) /\ i + dd \in 1..N /\ (i + 1) + dd \in 2..N
          /\ ((i + 1) + dd) - 1 = i + dd
      BY <2>4
    <3>2. PICK x \in Dates, y \in Dates : x = periods[i].end /\ y = periods[i + 1].end
      BY <2>4, <3>1
    <3>3. Before(x, y)
      BY <2>3, <2>4, <3>1, <3>2 DEF EndsInOrder
    <3>4. Number(x) \in Int /\ Number(y) \in Int /\ Number(x) <= Number(y)
      BY <3>3, InnerDate DEF Before
    <3>5. ApplyBdc(Number(x), leg.bdc) <= ApplyBdc(Number(y), leg.bdc)
      BY <3>4, AdjustedInOrder
    <3>6. /\ ApplyBdc(Number(x), leg.bdc) \in Int /\ ApplyBdc(Number(y), leg.bdc) \in Int
          /\ periods[i].pay = AddBusinessDays(ApplyBdc(Number(x), leg.bdc), leg.lag)
          /\ periods[i + 1].pay = AddBusinessDays(ApplyBdc(Number(y), leg.bdc), leg.lag)
      BY <2>5, <3>1, <3>2
    <3>7. PICK a \in Int, b \in Int, k \in Int :
             /\ a = ApplyBdc(Number(x), leg.bdc) /\ b = ApplyBdc(Number(y), leg.bdc) /\ k = leg.lag /\ a <= b
      BY <2>3, <3>5, <3>6
    <3>8. AddBusinessDays(a, k) <= AddBusinessDays(b, k)
      BY <3>7, LagMonotone
    <3>9. QED
      BY <3>6, <3>7, <3>8
  <2>7. ASSUME NEW i \in 1..(N - dd)
        PROVE  /\ Cardinality({n \in periods[i].fixing..(Number(periods[i].start) - 1) : IsBusinessDay(n)}) = 2
               /\ leg.bdc # "UNADJUSTED" \/ leg.lag # 0 => IsBusinessDay(periods[i].pay)
               /\ leg.bdc \in {"MOD_FOLLOWING", "MOD_PRECEDING"} /\ leg.lag = 0 =>
                    MonthOf(periods[i].pay) = periods[i].end.m
    <3>1. /\ periods[i].fixing = AddBusinessDays(Number(periods[i].start), -2)
          /\ Number(periods[i].start) \in Int
      BY <2>4, InnerDate
    <3>2. Cardinality({n \in periods[i].fixing..(Number(periods[i].start) - 1) : IsBusinessDay(n)}) = 2
      BY <3>1, FixingIs
    <3>3. PICK n \in Int, x \in Dates :
            /\ x = periods[i].end /\ periods[i].pay = AddBusinessDays(n, leg.lag)
            /\ leg.bdc # "UNADJUSTED" => IsBusinessDay(n)
            /\ leg.bdc \in {"MOD_FOLLOWING", "MOD_PRECEDING"} => InMonth(n, x.m)
      BY <2>5
    <3>4. /\ leg.lag = 0 => periods[i].pay = n
          /\ leg.lag # 0 => IsBusinessDay(periods[i].pay)
      <4>1. PICK k \in Int : k = leg.lag /\ n <= n
        BY <2>3
      <4>2. (k = 0 => AddBusinessDays(n, k) = n) /\ (k # 0 => IsBusinessDay(AddBusinessDays(n, k)))
        BY <4>1, LagMonotone
      <4>3. QED
        BY <3>3, <4>1, <4>2
    <3>5. x.m \in DOMAIN MonthDays
      BY InnerDate
    <3>6. InMonth(n, x.m) => MonthOf(n) = x.m
      BY <3>5, MonthOfIs
    <3>7. QED
      BY <3>2, <3>3, <3>4, <3>6
  <2>8. QED
    BY <2>4, <2>6, <2>7 DEF PaidInOrder
<1>3. QED
  BY <1>1, <1>2

----------------------------------------------------------------------------
(* ACT/ACT.  The days from one day to another, those of leap years and the *)
(* others, add up.                                                         *)
LastDay == MonthStart[Months - 1]
Leap(i, j) == {n \in i..(j - 1) : InLeapYear[n]}
Days(i, j) == <<Cardinality(Leap(i, j)), (j - i) - Cardinality(Leap(i, j))>>

(* The number of days from one to another.                                 *)
LEMMA IntervalSize ==
  ASSUME NEW i \in Int, NEW j \in Int, i <= j
  PROVE  IsFiniteSet(i..(j - 1)) /\ Cardinality(i..(j - 1)) = j - i
<1>1. j - 1 \in Int
  OBVIOUS
<1>2. IsFiniteSet(i..(j - 1)) /\ Cardinality(i..(j - 1)) = IF i > j - 1 THEN 0 ELSE (j - 1) - i + 1
  BY <1>1, FS_Interval
<1>3. (IF i > j - 1 THEN 0 ELSE (j - 1) - i + 1) = j - i
  OBVIOUS
<1>4. QED
  BY <1>2, <1>3

(* The days of leap years among them are finitely many.                    *)
LEMMA LeapSize ==
  ASSUME NEW i \in Int, NEW j \in Int, i <= j
  PROVE  IsFiniteSet(Leap(i, j)) /\ Cardinality(Leap(i, j)) \in Nat
<1>1. Leap(i, j) \subseteq i..(j - 1)
  BY DEF Leap
<1>2. IsFiniteSet(Leap(i, j))
  BY <1>1, IntervalSize, FS_Subset
<1>3. QED
  BY <1>2, FS_CardinalityType

(* The days of two stretches, one after the other.                         *)
LEMMA DaysAdd ==
  ASSUME NEW i \in Int, NEW j \in Int, NEW k \in Int, i <= j, j <= k
  PROVE  Days(i, k) = Plus(Days(i, j), Days(j, k))
<1>1. Leap(i, k) = Leap(i, j) \union Leap(j, k) /\ Leap(i, j) \intersect Leap(j, k) = {}
  BY DEF Leap
<1>2. /\ IsFiniteSet(Leap(i, j)) /\ Cardinality(Leap(i, j)) \in Nat
      /\ IsFiniteSet(Leap(j, k)) /\ Cardinality(Leap(j, k)) \in Nat
  BY LeapSize
<1>3. Cardinality(Leap(i, k)) = Cardinality(Leap(i, j)) + Cardinality(Leap(j, k))
  <2>1. Cardinality(Leap(i, j) \union Leap(j, k)) =
          Cardinality(Leap(i, j)) + Cardinality(Leap(j, k)) - Cardinality(Leap(i, j) \intersect Leap(j, k))
    BY <1>2, FS_Union
  <2>2. Cardinality({}) = 0
    BY FS_EmptySet
  <2>3. QED
    BY <1>1, <1>2, <2>1, <2>2
<1>4. PICK a \in Nat, b \in Nat : a = Cardinality(Leap(i, j)) /\ b = Cardinality(Leap(j, k))
  BY <1>2
<1>5. Days(i, j) = <<a, (j - i) - a>> /\ Days(j, k) = <<b, (k - j) - b>> /\ Days(i, k) = <<a + b, (k - i) - (a + b)>>
  BY <1>3, <1>4 DEF Days
<1>6. (k - i) - (a + b) = ((j - i) - a) + ((k - j) - b)
  OBVIOUS
<1>7. QED
  BY <1>5, <1>6 DEF Plus

(* The days of one year.                                                   *)
LEMMA OneYear ==
  ASSUME NEW i \in Int, NEW j \in Int, i <= j, NEW y, \A n \in i..(j - 1) : InLeapYear[n] <=> LeapYear(y)
  PROVE  Days(i, j) = YearDays(y, j - i)
<1>1. CASE LeapYear(y)
  <2>1. Leap(i, j) = i..(j - 1)
    BY <1>1 DEF Leap
  <2>2. Cardinality(Leap(i, j)) = j - i
    BY <2>1, IntervalSize
  <2>3. QED
    BY <1>1, <2>2 DEF Days, YearDays
<1>2. CASE ~LeapYear(y)
  <2>1. Leap(i, j) = {}
    BY <1>2 DEF Leap
  <2>2. Cardinality(Leap(i, j)) = 0
    BY <2>1, FS_EmptySet
  <2>3. QED
    BY <1>2, <2>2 DEF Days, YearDays
<1>3. QED
  BY <1>1, <1>2

(* Every day up to the last lies in a month, and with it in a year.        *)
LEMMA StartsInOrder ==
  ASSUME NEW a \in DOMAIN MonthDays, NEW b \in DOMAIN MonthDays, a <= b
  PROVE  MonthStart[a] <= MonthStart[b] /\ MonthStart[a] \in Nat /\ MonthStart[b] \in Nat
<1>1. a \in Nat /\ b \in Nat /\ MonthStart[a] \in Nat /\ MonthStart[b] \in Nat /\ MonthDays[a] \in Nat
  BY MonthLength, MonthStartIs
<1>2. a < b => MonthStart[a] + MonthDays[a] <= MonthStart[b]
  BY MonthsInOrder
<1>3. QED
  BY <1>1, <1>2

(* A day before a month lies in an earlier one.                            *)
LEMMA EveryDay ==
  ASSUME NEW M \in DOMAIN MonthDays, NEW n \in 1..MonthStart[M]
  PROVE  \E m \in DOMAIN MonthDays : m < M /\ InMonth(n, m)
<1>1. Months \in Nat /\ DOMAIN MonthDays = 0..(Months - 1) /\ M \in Nat
  BY CalendarAssumption, MonthLength
<1>. DEFINE K == {k \in 0..M : n <= MonthStart[k]}
<1>2. K # {} /\ K \in SUBSET Nat
  <2>1. M \in K
    BY <1>1, MonthStartIs
  <2>2. QED
    BY <2>1
<1>. HIDE DEF K
<1>3. PICK k \in K : \A i \in K : k <= i
  BY <1>2, LeastOf
<1>4. k \in 0..M /\ n <= MonthStart[k]
  BY <1>3 DEF K
<1>5. k # 0
  <2>1. 0 \in DOMAIN MonthDays
    BY <1>1
  <2>2. MonthStart[0] = 0
    BY <2>1, MonthStartIs
  <2>3. QED
    BY <1>4, <2>2
<1>6. PICK m \in DOMAIN MonthDays : m = k - 1 /\ m + 1 = k /\ m < M /\ m \in 0..M /\ k \in DOMAIN MonthDays
  <2>1. k - 1 \in DOMAIN MonthDays /\ (k - 1) + 1 = k /\ k - 1 < M /\ k - 1 \in 0..M /\ k \in DOMAIN MonthDays
    BY <1>1, <1>4, <1>5
  <2>2. QED
    BY <2>1
<1>7. ~(n <= MonthStart[m])
  <2>1. m \notin K
    BY <1>3, <1>4, <1>6
  <2>2. QED
    BY <1>6, <2>1 DEF K
<1>8. MonthStart[k] = MonthStart[m] + MonthDays[m] /\ MonthStart[m] \in Nat /\ MonthDays[m] \in Nat
  BY <1>6, MonthEnds, MonthStartIs, MonthLength
<1>9. InMonth(n, m)
  BY <1>4, <1>7, <1>8 DEF InMonth
<1>10. QED
  BY <1>6, <1>9

(* A day between two new years is in a leap year if the year is one.       *)
LEMMA DayInYear ==
  ASSUME NEW y \in Nat, 12 * y \in DOMAIN MonthDays, NEW n \in Int,
         MonthStart[12 * y] < n, n <= LastDay,
         12 * (y + 1) \in DOMAIN MonthDays => n <= MonthStart[12 * (y + 1)]
  PROVE  InLeapYear[n] <=> LeapYear(y)
<1>1. Months \in Nat /\ DOMAIN MonthDays = 0..(Months - 1)
  BY CalendarAssumption
<1>2. Months - 1 \in DOMAIN MonthDays /\ MonthStart[12 * y] \in Nat
  BY <1>1, MonthStartIs
<1>3. n \in 1..LastDay
  BY <1>2 DEF LastDay
<1>4. PICK m \in DOMAIN MonthDays : InMonth(n, m)
  BY <1>2, <1>3, EveryDay DEF LastDay
<1>5. m \in Nat /\ MonthStart[m] \in Nat /\ MonthDays[m] \in Nat
  BY MonthLength, MonthStartIs
<1>6. ~(m < 12 * y)
  <2>1. m < 12 * y => MonthStart[m] + MonthDays[m] <= MonthStart[12 * y]
    BY MonthsInOrder
  <2>2. QED
    BY <1>2, <1>4, <1>5, <2>1 DEF InMonth
<1>7. m < 12 * (y + 1)
  <2>1. SUFFICES ASSUME 12 * (y + 1) <= m PROVE FALSE
    BY <1>5
  <2>2. 12 * (y + 1) \in DOMAIN MonthDays
    BY <1>1, <2>1
  <2>3. MonthStart[12 * (y + 1)] <= MonthStart[m] /\ MonthStart[12 * (y + 1)] \in Nat
    BY <2>1, <2>2, StartsInOrder
  <2>4. QED
    BY <1>4, <1>5, <2>2, <2>3 DEF InMonth
<1>8. m \div 12 = y
  BY <1>5, <1>6, <1>7
<1>9. MonthOf(n) = m
  BY <1>4, MonthOfIs
<1>10. QED
  BY <1>3, <1>8, <1>9 DEF InLeapYear, LastDay

(* The whole years between two.                                            *)
YearLength(y) == IF LeapYear(y) THEN 366 ELSE 365
Adds(f, y, n) ==
  f = [i \in 0..n |-> IF i = 0 THEN <<0, 0>>
                      ELSE Plus(f[i - 1], YearDays(y + i, IF LeapYear(y + i) THEN 366 ELSE 365))]

(* The sums of the whole years, one by one.                                *)
LEMMA AddsAt ==
  ASSUME NEW y, NEW n, NEW f, Adds(f, y, n), NEW i \in 0..n
  PROVE  f[i] = IF i = 0 THEN <<0, 0>> ELSE Plus(f[i - 1], YearDays(y + i, YearLength(y + i)))
BY DEF Adds, YearLength

(* From one new year to the next are the days of the year.                 *)
LEMMA WholeYear ==
  ASSUME NEW y \in Nat, 12 * (y + 1) \in DOMAIN MonthDays
  PROVE  /\ NewYear(y) \in Int /\ NewYear(y + 1) \in Int /\ NewYear(y) <= NewYear(y + 1)
         /\ Days(NewYear(y), NewYear(y + 1)) = YearDays(y, YearLength(y))
<1>1. Months \in Nat /\ DOMAIN MonthDays = 0..(Months - 1)
  BY CalendarAssumption
<1>2. PICK a \in DOMAIN MonthDays, b \in DOMAIN MonthDays :
        a = 12 * y /\ b = 12 * (y + 1) /\ a < b /\ Months - 1 \in DOMAIN MonthDays /\ b <= Months - 1 /\ y \in 0..Months
  <2>1. 12 * y \in DOMAIN MonthDays /\ 12 * y < 12 * (y + 1) /\ Months - 1 \in DOMAIN MonthDays
        /\ 12 * (y + 1) <= Months - 1 /\ y \in 0..Months
    BY <1>1
  <2>2. QED
    BY <2>1
<1>3. /\ MonthStart[a] \in Nat /\ MonthStart[b] \in Nat /\ LastDay \in Nat
      /\ MonthStart[a] <= MonthStart[b] /\ MonthStart[b] <= LastDay
  BY <1>1, <1>2, StartsInOrder DEF LastDay
<1>4. NewYear(y) = MonthStart[a] + 1 /\ NewYear(y + 1) = MonthStart[b] + 1
  BY <1>2 DEF NewYear
<1>5. MonthStart[b] - MonthStart[a] = YearLength(y)
  BY <1>2, YearsAssumption DEF YearLength
<1>6. ASSUME NEW n \in NewYear(y)..(NewYear(y + 1) - 1) PROVE InLeapYear[n] <=> LeapYear(y)
  <2>1. n \in Int /\ MonthStart[a] < n /\ n <= MonthStart[b] /\ n <= LastDay
    BY <1>3, <1>4
  <2>2. QED
    BY <1>2, <2>1, DayInYear
<1>7. Days(NewYear(y), NewYear(y + 1)) = YearDays(y, NewYear(y + 1) - NewYear(y))
  <2>1. NewYear(y) \in Int /\ NewYear(y + 1) \in Int /\ NewYear(y) <= NewYear(y + 1)
    BY <1>3, <1>4
  <2>2. QED
    BY <1>6, <2>1, OneYear
<1>8. NewYear(y + 1) - NewYear(y) = YearLength(y)
  BY <1>3, <1>4, <1>5
<1>9. QED
  BY <1>3, <1>4, <1>7, <1>8

(* WholeYears counts the days from the first new year to the last.         *)
LEMMA WholeYearsAre ==
  ASSUME NEW y \in Nat, NEW n \in Nat, 12 * (y + n + 1) \in DOMAIN MonthDays
  PROVE  /\ NewYear(y + 1) \in Int /\ NewYear(y + n + 1) \in Int /\ NewYear(y + 1) <= NewYear(y + n + 1)
         /\ WholeYears(y, n) = Days(NewYear(y + 1), NewYear(y + n + 1))
<1>1. Months \in Nat /\ DOMAIN MonthDays = 0..(Months - 1)
  BY CalendarAssumption
<1>2. ASSUME NEW i \in 0..n
      PROVE  /\ NewYear(y + i + 1) \in Int /\ NewYear(y + 1) <= NewYear(y + i + 1)
  <2>1. 12 * (y + i + 1) \in DOMAIN MonthDays /\ 12 * (y + 1) \in DOMAIN MonthDays /\ 12 * (y + 1) <= 12 * (y + i + 1)
    BY <1>1
  <2>2. MonthStart[12 * (y + 1)] <= MonthStart[12 * (y + i + 1)]
        /\ MonthStart[12 * (y + 1)] \in Nat /\ MonthStart[12 * (y + i + 1)] \in Nat
    BY <2>1, StartsInOrder
  <2>3. QED
    BY <2>2 DEF NewYear
<1>3. NewYear(y + 1) \in Int
  <2>1. 0 \in 0..n /\ y + 0 + 1 = y + 1
    OBVIOUS
  <2>2. QED
    BY <1>2, <2>1
<1>4. Days(NewYear(y + 1), NewYear(y + 0 + 1)) = <<0, 0>>
  <2>1. PICK k \in Int : k = NewYear(y + 1) /\ NewYear(y + 0 + 1) = k
    <3>1. y + 0 + 1 = y + 1
      OBVIOUS
    <3>2. QED
      BY <1>3, <3>1
  <2>2. k..(k - 1) = {} /\ k - k = 0
    OBVIOUS
  <2>3. Leap(k, k) = {}
    BY <2>2 DEF Leap
  <2>4. Cardinality(Leap(k, k)) = 0
    BY <2>3, FS_EmptySet
  <2>5. QED
    BY <2>1, <2>2, <2>4 DEF Days
<1>5. ASSUME NEW i \in 1..n
      PROVE  Days(NewYear(y + 1), NewYear(y + i + 1)) =
               Plus(Days(NewYear(y + 1), NewYear(y + (i - 1) + 1)), YearDays(y + i, YearLength(y + i)))
  <2>1. PICK z \in Nat : z = y + i /\ z + 1 = y + i + 1 /\ z = y + (i - 1) + 1 /\ 12 * (z + 1) \in DOMAIN MonthDays
    <3>1. y + i \in Nat /\ (y + i) + 1 = y + i + 1 /\ y + i = y + (i - 1) + 1 /\ 12 * ((y + i) + 1) \in DOMAIN MonthDays
      BY <1>1
    <3>2. QED
      BY <3>1
  <2>2. /\ NewYear(z) \in Int /\ NewYear(z + 1) \in Int /\ NewYear(z) <= NewYear(z + 1)
        /\ Days(NewYear(z), NewYear(z + 1)) = YearDays(z, YearLength(z))
    BY <2>1, WholeYear
  <2>3. NewYear(y + 1) <= NewYear(z)
    <3>1. i - 1 \in 0..n
      OBVIOUS
    <3>2. QED
      BY <1>2, <2>1, <3>1
  <2>4. Days(NewYear(y + 1), NewYear(z + 1)) = Plus(Days(NewYear(y + 1), NewYear(z)), Days(NewYear(z), NewYear(z + 1)))
    BY <1>3, <2>2, <2>3, DaysAdd
  <2>5. QED
    BY <2>1, <2>2, <2>4
<1>6. PICK f : f = [i \in 0..n |-> Days(NewYear(y + 1), NewYear(y + i + 1))]
  OBVIOUS
<1>7. Adds(f, y, n)
  <2>1. ASSUME NEW i \in 0..n
        PROVE  f[i] = IF i = 0 THEN <<0, 0>>
                      ELSE Plus(f[i - 1], YearDays(y + i, IF LeapYear(y + i) THEN 366 ELSE 365))
    <3>1. CASE i = 0
      BY <1>4, <1>6, <3>1
    <3>2. CASE i # 0
      <4>1. i \in 1..n /\ i - 1 \in 0..n
        BY <3>2
      <4>2. /\ f[i] = Days(NewYear(y + 1), NewYear(y + i + 1))
            /\ f[i - 1] = Days(NewYear(y + 1), NewYear(y + (i - 1) + 1))
        BY <1>6, <4>1
      <4>3. f[i] = Plus(f[i - 1], YearDays(y + i, YearLength(y + i)))
        BY <1>5, <4>1, <4>2
      <4>4. QED
        BY <3>2, <4>3 DEF YearLength
    <3>3. QED
      BY <3>1, <3>2
  <2>2. f = [i \in 0..n |-> f[i]]
    BY <1>6
  <2>3. QED
    BY <2>1, <2>2 DEF Adds
<1>8. PICK g : g = CHOOSE h : Adds(h, y, n)
  OBVIOUS
<1>9. Adds(g, y, n)
  BY <1>7, <1>8
<1>. DEFINE S == {i \in Nat : i <= n => g[i] = Days(NewYear(y + 1), NewYear(y + i + 1))}
<1>10. 0 \in S
  <2>1. 0 \in 0..n
    OBVIOUS
  <2>2. g[0] = <<0, 0>>
    BY <1>9, <2>1, AddsAt
  <2>3. QED
    BY <1>4, <2>2
<1>11. ASSUME NEW i \in S PROVE i + 1 \in S
  <2>1. SUFFICES ASSUME i + 1 <= n PROVE g[i + 1] = Days(NewYear(y + 1), NewYear(y + (i + 1) + 1))
    OBVIOUS
  <2>2. i + 1 \in 0..n /\ i + 1 \in 1..n /\ i + 1 # 0 /\ (i + 1) - 1 = i
        /\ g[i] = Days(NewYear(y + 1), NewYear(y + i + 1))
    BY <2>1
  <2>3. g[i + 1] = Plus(g[i], YearDays(y + (i + 1), YearLength(y + (i + 1))))
    BY <1>9, <2>2, AddsAt
  <2>4. QED
    BY <1>5, <2>2, <2>3
<1>. HIDE DEF S
<1>12. S = Nat
  BY <1>10, <1>11, SetInduction DEF S
<1>13. g[n] = Days(NewYear(y + 1), NewYear(y + n + 1))
  BY <1>12 DEF S
<1>14. WholeYears(y, n) = g[n]
  BY <1>8 DEF WholeYears, Adds
<1>15. n \in 0..n
  OBVIOUS
<1>16. QED
  BY <1>2, <1>3, <1>13, <1>14, <1>15

(* ACT/ACT counts the days of a period, each in its year.                  *)
LEMMA ActActIs ==
  ASSUME NEW s \in Dates, NEW e \in Dates, Before(s, e)
  PROVE  ActActIsda(s, e) = Days(Number(s), Number(e))
<1>1. Months \in Nat /\ DOMAIN MonthDays = 0..(Months - 1)
  BY CalendarAssumption
<1>2. /\ s \in Calendar /\ s.m \in DOMAIN MonthDays /\ s.m + 1 \in DOMAIN MonthDays
      /\ e \in Calendar /\ e.m \in DOMAIN MonthDays /\ e.m + 1 \in DOMAIN MonthDays
      /\ InMonth(Number(s), s.m) /\ InMonth(Number(e), e.m)
  BY InnerDate
<1>3. PICK a \in Nat, b \in Nat : a = s.m /\ b = e.m /\ a \in DOMAIN MonthDays /\ b \in DOMAIN MonthDays
                             /\ a + 1 \in DOMAIN MonthDays /\ b + 1 \in DOMAIN MonthDays /\ a <= b
  <2>1. s.m \in Nat /\ e.m \in Nat
    BY <1>2, DateIs
  <2>2. s.m <= e.m
    BY <1>2, <2>1, DatesInOrder
  <2>3. QED
    BY <1>2, <2>1, <2>2
<1>4. PICK i \in Int, j \in Int : i = Number(s) /\ j = Number(e) /\ i < j
  BY <1>2, DateIs DEF Before
<1>5. /\ MonthStart[a] < i /\ i <= MonthStart[a + 1] /\ MonthStart[b] < j /\ j <= MonthStart[b + 1]
      /\ MonthStart[a] \in Nat /\ MonthStart[b] \in Nat /\ MonthStart[a + 1] \in Nat /\ MonthStart[b + 1] \in Nat
  <2>1. /\ MonthStart[a + 1] = MonthStart[a] + MonthDays[a] /\ MonthStart[b + 1] = MonthStart[b] + MonthDays[b]
        /\ MonthDays[a] \in Nat /\ MonthDays[b] \in Nat
        /\ MonthStart[a] \in Nat /\ MonthStart[b] \in Nat /\ MonthStart[a + 1] \in Nat /\ MonthStart[b + 1] \in Nat
    BY <1>3, MonthEnds, MonthStartIs, MonthLength
  <2>2. i \in (MonthStart[a] + 1)..(MonthStart[a] + MonthDays[a])
        /\ j \in (MonthStart[b] + 1)..(MonthStart[b] + MonthDays[b])
    BY <1>2, <1>3, <1>4 DEF InMonth
  <2>3. QED
    BY <2>1, <2>2
<1>6. j <= LastDay /\ LastDay \in Int
  <2>1. Months - 1 \in DOMAIN MonthDays /\ b + 1 <= Months - 1
    BY <1>1, <1>3
  <2>2. MonthStart[b + 1] <= LastDay /\ LastDay \in Nat
    BY <1>3, <2>1, StartsInOrder DEF LastDay
  <2>3. QED
    BY <1>5, <2>2
<1>7. PICK y1 \in Nat, y2 \in Nat :
        /\ y1 = a \div 12 /\ y2 = b \div 12 /\ y1 <= y2
        /\ 12 * y1 <= a /\ a + 1 <= 12 * (y1 + 1) /\ 12 * y2 <= b /\ b + 1 <= 12 * (y2 + 1)
        /\ 12 * y1 \in DOMAIN MonthDays /\ 12 * y2 \in DOMAIN MonthDays
  <2>1. PICK y1 \in Nat, y2 \in Nat : y1 = a \div 12 /\ y2 = b \div 12
    <3>1. a \div 12 \in Nat /\ b \div 12 \in Nat
      OBVIOUS
    <3>2. QED
      BY <3>1
  <2>2. 12 * y1 <= a /\ a + 1 <= 12 * (y1 + 1) /\ 12 * y2 <= b /\ b + 1 <= 12 * (y2 + 1)
    BY <2>1
  <2>3. y1 <= y2
    BY <1>3, <2>2
  <2>4. 12 * y1 \in DOMAIN MonthDays /\ 12 * y2 \in DOMAIN MonthDays
    BY <1>1, <1>3, <2>2
  <2>5. QED
    BY <2>1, <2>2, <2>3, <2>4
<1>8. MonthStart[12 * y1] < i /\ MonthStart[12 * y2] < j /\ MonthStart[12 * y1] \in Nat /\ MonthStart[12 * y2] \in Nat
  <2>1. MonthStart[12 * y1] <= MonthStart[a] /\ MonthStart[12 * y2] <= MonthStart[b]
        /\ MonthStart[12 * y1] \in Nat /\ MonthStart[12 * y2] \in Nat
    BY <1>3, <1>7, StartsInOrder
  <2>2. QED
    BY <1>5, <2>1
<1>9. 12 * (y2 + 1) \in DOMAIN MonthDays => j <= MonthStart[12 * (y2 + 1)]
  <2>1. SUFFICES ASSUME 12 * (y2 + 1) \in DOMAIN MonthDays PROVE j <= MonthStart[12 * (y2 + 1)]
    OBVIOUS
  <2>2. MonthStart[b + 1] <= MonthStart[12 * (y2 + 1)] /\ MonthStart[12 * (y2 + 1)] \in Nat
    BY <1>3, <1>7, <2>1, StartsInOrder
  <2>3. QED
    BY <1>5, <2>2
<1>10. CASE y1 = y2
  <2>1. ActActIsda(s, e) = YearDays(y1, j - i)
    BY <1>3, <1>4, <1>7, <1>10 DEF ActActIsda, ActDays
  <2>2. ASSUME NEW n \in i..(j - 1) PROVE InLeapYear[n] <=> LeapYear(y1)
    <3>1. n \in Int /\ MonthStart[12 * y1] < n /\ n < j /\ n <= LastDay
      BY <1>6, <1>8
    <3>2. 12 * (y1 + 1) \in DOMAIN MonthDays => n <= MonthStart[12 * (y1 + 1)]
      <4>1. SUFFICES ASSUME 12 * (y1 + 1) \in DOMAIN MonthDays PROVE n <= MonthStart[12 * (y1 + 1)]
        OBVIOUS
      <4>2. MonthStart[12 * (y1 + 1)] \in Nat
        BY <4>1, MonthStartIs
      <4>3. QED
        BY <1>9, <1>10, <3>1, <4>1, <4>2
    <3>3. QED
      BY <1>7, <3>1, <3>2, DayInYear
  <2>3. Days(i, j) = YearDays(y1, j - i)
    BY <1>4, <2>2, OneYear
  <2>4. QED
    BY <1>4, <2>1, <2>3
<1>11. CASE y1 # y2
  <2>1. PICK k \in Nat : k = y2 - y1 - 1 /\ y1 + k + 1 = y2
    <3>1. y2 - y1 - 1 \in Nat /\ y1 + (y2 - y1 - 1) + 1 = y2
      BY <1>7, <1>11
    <3>2. QED
      BY <3>1
  <2>2. 12 * (y1 + 1) \in DOMAIN MonthDays /\ 12 * (y1 + 1) <= 12 * y2 /\ 12 * (y1 + 1) <= b
    <3>1. y1 + 1 <= y2
      BY <1>7, <1>11
    <3>2. 12 * (y1 + 1) <= 12 * y2 /\ 12 * (y1 + 1) <= b
      BY <1>3, <1>7, <3>1
    <3>3. 12 * (y1 + 1) \in 0..b
      BY <3>2
    <3>4. 12 * (y1 + 1) \in DOMAIN MonthDays
      <4>1. b \in 0..(Months - 1)
        BY <1>1, <1>3
      <4>2. QED
        BY <1>1, <3>3, <4>1
    <3>5. QED
      BY <3>2, <3>4
  <2>3. PICK p \in Int, q \in Int :
          p = NewYear(y1 + 1) /\ q = NewYear(y2) /\ p = MonthStart[12 * (y1 + 1)] + 1 /\ q = MonthStart[12 * y2] + 1
          /\ i <= p /\ q <= j /\ p <= q
    <3>1. MonthStart[a + 1] <= MonthStart[12 * (y1 + 1)] /\ MonthStart[12 * (y1 + 1)] <= MonthStart[12 * y2]
          /\ MonthStart[12 * (y1 + 1)] \in Nat
      BY <1>3, <1>7, <2>2, StartsInOrder
    <3>2. i <= MonthStart[12 * (y1 + 1)] + 1 /\ MonthStart[12 * y2] + 1 <= j
          /\ MonthStart[12 * (y1 + 1)] + 1 <= MonthStart[12 * y2] + 1
          /\ MonthStart[12 * (y1 + 1)] + 1 \in Int /\ MonthStart[12 * y2] + 1 \in Int
      BY <1>5, <1>8, <3>1
    <3>3. QED
      BY <3>2 DEF NewYear
  <2>4. ActActIsda(s, e) = Plus(Plus(YearDays(y1, p - i), WholeYears(y1, k)), YearDays(y2, j - q))
    BY <1>3, <1>4, <1>7, <1>11, <2>1, <2>3 DEF ActActIsda
  <2>5. WholeYears(y1, k) = Days(p, q)
    BY <1>7, <2>1, <2>3, WholeYearsAre
  <2>6. Days(i, p) = YearDays(y1, p - i)
    <3>1. ASSUME NEW n \in i..(p - 1) PROVE InLeapYear[n] <=> LeapYear(y1)
      <4>1. n \in Int /\ MonthStart[12 * y1] < n /\ n <= MonthStart[12 * (y1 + 1)] /\ n <= LastDay
        <5>1. n \in Int /\ i <= n /\ n < p /\ p <= j /\ MonthStart[12 * (y1 + 1)] \in Nat
          BY <2>2, <2>3, MonthStartIs
        <5>2. QED
          BY <1>6, <1>8, <2>3, <5>1
      <4>2. QED
        BY <1>7, <4>1, DayInYear
    <3>2. QED
      BY <2>3, <3>1, OneYear
  <2>7. Days(q, j) = YearDays(y2, j - q)
    <3>1. ASSUME NEW n \in q..(j - 1) PROVE InLeapYear[n] <=> LeapYear(y2)
      <4>1. n \in Int /\ MonthStart[12 * y2] < n /\ n < j /\ n <= LastDay
        BY <1>6, <1>8, <2>3
      <4>2. 12 * (y2 + 1) \in DOMAIN MonthDays => n <= MonthStart[12 * (y2 + 1)]
        <5>1. SUFFICES ASSUME 12 * (y2 + 1) \in DOMAIN MonthDays PROVE n <= MonthStart[12 * (y2 + 1)]
          OBVIOUS
        <5>2. MonthStart[12 * (y2 + 1)] \in Nat
          BY <5>1, MonthStartIs
        <5>3. QED
          BY <1>9, <4>1, <5>1, <5>2
      <4>3. QED
        BY <1>7, <4>1, <4>2, DayInYear
    <3>2. QED
      BY <2>3, <3>1, OneYear
  <2>8. Days(i, q) = Plus(Days(i, p), Days(p, q)) /\ Days(i, j) = Plus(Days(i, q), Days(q, j))
    <3>1. i <= q
      BY <2>3
    <3>2. QED
      BY <2>3, <3>1, DaysAdd
  <2>9. QED
    BY <1>4, <2>4, <2>5, <2>6, <2>7, <2>8
<1>12. QED
  BY <1>10, <1>11

(* Each day of a period accrues in its year.                               *)
LEMMA InvAccruesEachDay ==
  ASSUME Inv PROVE AccruesEachDay
<1>1. CASE periods = <<>>
  BY <1>1 DEF AccruesEachDay
<1>2. CASE periods # <<>>
  <2>1. PICK N \in Nat, dd \in {0, 1} :
           leg \in Legs /\ EndsInOrder(EndDates(leg), N) /\ Cut(periods, EndDates(leg), N, dd)
    BY <1>2, PeriodsAre
  <2>2. /\ DOMAIN periods = 1..(N - dd)
        /\ \A k \in 1..(N - dd) :
             periods[k].start \in Dates /\ periods[k].end \in Dates /\ Before(periods[k].start, periods[k].end)
    BY <2>1, CutIs
  <2>3. ASSUME NEW k \in DOMAIN periods
        PROVE  LET days == Number(periods[k].start)..(Number(periods[k].end) - 1)
                   leap == {n \in days : InLeapYear[n]}
               IN  ActActIsda(periods[k].start, periods[k].end)
                     = <<Cardinality(leap), Cardinality(days) - Cardinality(leap)>>
    <3>1. PICK s \in Dates, e \in Dates : s = periods[k].start /\ e = periods[k].end /\ Before(s, e)
      BY <2>2
    <3>2. PICK i \in Int, j \in Int : i = Number(s) /\ j = Number(e) /\ i <= j
      BY <3>1, InnerDate DEF Before
    <3>3. ActActIsda(s, e) = Days(i, j)
      BY <3>1, <3>2, ActActIs
    <3>4. Cardinality(i..(j - 1)) = j - i
      BY <3>2, IntervalSize
    <3>5. QED
      BY <3>1, <3>2, <3>3, <3>4 DEF Days, Leap
  <2>4. QED
    BY <2>3 DEF AccruesEachDay
<1>3. QED
  BY <1>1, <1>2

----------------------------------------------------------------------------
(* The periods are those of the schedule, whatever steps are taken.        *)
LEMMA InvInit == Init => Inv
BY DEF Init, Inv

(* generate_schedule makes the schedule and nothing else changes it.       *)
LEMMA InvNext == Inv /\ [Generate]_vars => Inv'
<1>1. SUFFICES ASSUME Inv, [Generate]_vars PROVE Inv'
  OBVIOUS
<1>2. CASE Generate
  BY <1>1, <1>2 DEF Inv, Generate
<1>3. CASE UNCHANGED vars
  BY <1>1, <1>3 DEF Inv, vars
<1>4. QED
  BY <1>1, <1>2, <1>3

(* After any call of generate_schedule the periods are none or those of    *)
(* the leg's schedule: what the five theorems below follow from.           *)
THEOREM ScheduleMade == Spec => []Inv
<1>1. QED
  BY InvInit, InvNext, PTL DEF Spec

(* generate_schedule dates its periods inside the calendar the leg is in,  *)
(* whatever the leg's terms.                                               *)
THEOREM CouponsTypeCorrect == Spec => []TypeOK
<1>1. QED
  BY ScheduleMade, InvTypeOK, PTL

(* The periods generate_schedule makes cover the leg with no gap and no    *)
(* overlap, whatever calendar, terms, stub and first and last dates.       *)
THEOREM CouponsTile == Spec => []Tiles
<1>1. QED
  BY ScheduleMade, InvTiles, PTL

(* Its stubs are where the leg asks for them and as long as it asks, and a *)
(* leg of whole periods has none.                                          *)
THEOREM CouponsHaveTheStubsAsked == Spec => []StubsAsAsked
<1>1. Inv => StubsAsAsked
  BY InvOneStub, InvStubLength DEF StubsAsAsked
<1>2. QED
  BY <1>1, ScheduleMade, PTL

(* Payment dates keep the periods' order and fall on business days, and    *)
(* fixings precede their period by two, whatever the holidays.             *)
THEOREM CouponsPaidInOrder == Spec => []PaidInOrder
<1>1. QED
  BY ScheduleMade, InvPaidInOrder, PTL

(* actact_isda gives each day of a period to the year it lies in.          *)
THEOREM CouponsAccrueEachDay == Spec => []AccruesEachDay
<1>1. QED
  BY ScheduleMade, InvAccruesEachDay, PTL
=============================================================================
