------------------------ MODULE MCCardAuthorisations ------------------------
(* Values of CardAuthorisations' constants for TLC: one expiry pass, or    *)
(* two callers of it at once.                                              *)
EXTENDS CardAuthorisations, TLC

CONSTANTS s1, s2

OneCaller  == {s1}
TwoCallers == {s1, s2}
Callers    == Permutations(TwoCallers)
=============================================================================
