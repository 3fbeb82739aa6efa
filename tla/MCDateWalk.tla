----------------------------- MODULE MCDateWalk -----------------------------
(* One whole cycle of the Gregorian calendar, 400 years, in eight walks of *)
(* fifty years that meet, and the years in which a year's text changes its *)
(* width or gets a sign.                                                   *)
EXTENDS DateConversions

MCFirstYears == {-1, 99, 999, 1600, 1650, 1700, 1750, 1800, 1850, 1900, 1950, 9999}
MCLastYears == {1, 101, 1001, 2000, 10001}
MCShifts == {-25, -12, -1, 0, 1, 6, 13}
MCZones == {-11, -1, 0, 1, 9}
=============================================================================
