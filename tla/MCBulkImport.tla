---------------------------- MODULE MCBulkImport ----------------------------
(***************************************************************************)
(* Small instances of BulkImport for TLC: sheets of two valid rows, or of  *)
(* an invalid and a valid one.                                             *)
(***************************************************************************)
EXTENDS MCOrders, BulkImport

MCSheets ==
    {rows \in [{1, 2} -> Orders] : rows[1] # rows[2]}
    \cup {<<BadRow, a>> : a \in Orders}
=============================================================================
