----------------------------- MODULE MCSsmStore -----------------------------
(* SsmStore on two threads, a slot the database has a row for, a slot it     *)
(* has none for and one setting without a flag.                              *)
EXTENDS SsmStore
CONSTANTS t1, t2, main, nobody, u1, u2, b1

MCThreads == {t1, t2}
MCUiCells == {u1, u2}
MCInDb == {u1}
=============================================================================
