---------------------------- MODULE MCBillPayments ----------------------------
(* Values of BillPayments' constants for TLC: payments of 1, from one      *)
(* account or from one each, with or without a fee of 1.                   *)
EXTENDS BillPayments, TLC

CONSTANTS i1, i2

OneInstance  == {i1}
TwoInstances == {i1, i2}
Replicas     == Permutations(TwoInstances)

OwnAccount == [p \in Payments |-> IF p <= NumAccounts THEN p ELSE NumAccounts]
Ones       == [p \in Payments |-> 1]
Zeros      == [p \in Payments |-> 0]
=============================================================================
