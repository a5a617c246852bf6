------------------------------ MODULE MCFlash ------------------------------
(* Instances of Flash: eight blocks in four pages, two of them in bank
   2, and the last page protected. *)
EXTENDS Flash

ACall(op, first, len, aligned) ==
  [op |-> op, first |-> first, len |-> len, value |-> "data", aligned |-> aligned]

\* Nothing at the beginning, inside and at the end of the flash; ranges that are not
\* aligned, end beyond the flash, begin beyond it or before it (the last block of the
\* 32-bit range), and one that goes all the way round; single blocks, ranges across a
\* page, across the banks and up to the end, erases from the middle of a page.
SmallCalls ==
  { ACall("write", 0, 0, TRUE), ACall("write", 2, 0, TRUE), ACall("erase", 8, 0, TRUE),
    ACall("write", 1, 1, FALSE), ACall("erase", 6, 3, TRUE), ACall("write", 8, 1, TRUE),
    ACall("write", 15, 2, TRUE), ACall("erase", 6, 11, TRUE), ACall("erase", 4, 4, TRUE),
    ACall("write", 0, 1, TRUE), ACall("write", 3, 2, TRUE),
    ACall("erase", 0, 2, TRUE), ACall("erase", 1, 2, TRUE), ACall("erase", 3, 4, TRUE) }
=============================================================================
