------------------------------ MODULE MCTransfers ------------------------------
(* Values of Transfers' constants for TLC.  A day is a tick and a month is    *)
(* two, so that one midnight of the run is the end of a month as well.     *)
EXTENDS Transfers, TLC

CONSTANTS c1, c2, k1, k2

TwoCalls == {c1, c2}
TwoKeys  == {k1, k2}
AllQuotes == Quotes
Alike    == Permutations(TwoCalls) \cup Permutations(TwoKeys)

TwoOneOne == [q \in Quotes |-> IF q = 1 THEN 2 ELSE 1]
=============================================================================
