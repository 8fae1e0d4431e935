----------------------------- MODULE MCCoupons -----------------------------
(* January 2023 to December 2027: a leap year, Saturdays, the US holidays  *)
(* and a Good Friday that ends its month.                                  *)
EXTENDS Coupons

Year == <<31, 28, 31, 30, 31, 30, 31, 31, 30, 31, 30, 31>>
Lengths == [m \in 0..59 |-> IF m = 13 THEN 29 ELSE Year[(m % 12) + 1]]

(* New Year, Independence Day, Thanksgiving, Christmas; Good Friday 2024.  *)
Closed == {1, 185, 327, 359, 366, 454, 551, 698, 725, 732, 916, 1062, 1090, 1097, 1281}

D(y, m, d) == [m |-> 12 * (y - 2023) + m - 1, d |-> d]

Starts == {D(2023, 11, 30), D(2024, 1, 31), D(2024, 2, 15), D(2024, 5, 28)}
Ends   == {D(2024, 11, 30), D(2025, 3, 31), D(2025, 8, 30), D(2026, 2, 28)}
Stubs  == {"SHORT_FRONT", "LONG_FRONT", "SHORT_BACK", "LONG_BACK"}
Conventions == {"UNADJUSTED", "FOLLOWING", "PRECEDING", "MOD_FOLLOWING", "MOD_PRECEDING"}

AllLegs ==
  [eff : Starts, mat : Ends, freq : {0, 1, 3, 6, 12}, stub : Stubs, first : {NoDate},
   last : {NoDate}, bdc : Conventions, lag : {-1, 0, 2}]
  \union
  [eff : Starts, mat : Ends, freq : {0, 3, 6}, stub : Stubs, first : {NoDate, D(2024, 2, 20)},
   last : {NoDate, D(2024, 11, 15)}, bdc : {"MOD_FOLLOWING"}, lag : {0}]
=============================================================================
