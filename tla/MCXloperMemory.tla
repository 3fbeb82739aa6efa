---------------------------- MODULE MCXloperMemory ----------------------------
(* Texts of one character: one whose two forms have one length, and one    *)
(* whose UTF-8 form is longer.  The lowest free address is given out, so   *)
(* that an address is used again as soon as it can be.                     *)
EXTENDS XloperMemory

MCBlocks == 1 .. 12
MCOffered(free) == {b \in free : \A a \in free : b =< a}
MCTexts == {[bytes |-> 1, wide |-> 1], [bytes |-> 2, wide |-> 1]}
=============================================================================
