------------------------ MODULE MCTransactionRunner ------------------------
(* Values of TransactionRunner's constants for TLC: two transfers between  *)
(* the same two accounts.                                                  *)
EXTENDS TransactionRunner

CONSTANTS c1, c2, a1, a2

Calls   == {c1, c2}
Book    == {a1, a2}
Overlap == [c \in Calls |-> Book]
=============================================================================
