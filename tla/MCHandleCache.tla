--------------------------- MODULE MCHandleCache ---------------------------
(* Small instances of HandleCache: the same place of two workbooks. *)
EXTENDS HandleCache

CONSTANTS t1, t2, book1, book2, place

MCOneThread == {t1}
MCTwoThreads == {t1, t2}
MCWorkbooks == {book1, book2}
MCPlaces == {place}
=============================================================================
