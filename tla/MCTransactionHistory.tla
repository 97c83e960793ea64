------------------------- MODULE MCTransactionHistory -------------------------
(***************************************************************************)
(* Small instances of TransactionHistory for TLC.                          *)
(***************************************************************************)
EXTENDS TransactionHistory

(* Rows 3 and 4 have the same created_at.                                  *)
OneTie == [s \in Rows |-> IF s > 3 THEN s - 1 ELSE s]

(* Page sizes a client may ask for: invalid, small, beyond the largest.    *)
AskedLimits == {-1, 1, 3, 9}

(* With an int of six bits and four rows a page, the offset of page 18     *)
(* wraps to 4, and that of page 9 to -32.                                  *)
AskedPages == {0, 9, 18}
=============================================================================
