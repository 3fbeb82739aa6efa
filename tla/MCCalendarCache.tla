-------------------------- MODULE MCCalendarCache --------------------------
(* A small instance of CalendarCache: two names, alone, in both orders and *)
(* one twice.                                                              *)
EXTENDS CalendarCache

MCRegions == {1, 2}
MCRequests == {<<1>>, <<1, 2>>, <<2, 1>>, <<1, 1>>}
=============================================================================
