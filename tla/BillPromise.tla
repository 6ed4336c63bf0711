----------------------------- MODULE BillPromise -----------------------------
(***************************************************************************)
(* What a bill payment promises about money, with nothing about how: the   *)
(* customer pays first, and what the bank then holds is paid over to the   *)
(* biller or given back, exactly once.  BillPayments implements it; its    *)
(* passes, sweeps, answers, crashes and retries are all either one of      *)
(* these steps or none.                                                    *)
(***************************************************************************)
EXTENDS Integers

CONSTANTS NumPayments, Amount

VARIABLES
  money,   \* where each payment's money is
  owed     \* what the bank holds that is neither its own nor the customer's

Payments == 1..NumPayments
Place    == {"customer", "bank", "biller", "returned"}

Moves(p, from, to) == money[p] = from /\ money' = [money EXCEPT ![p] = to]

Take(p)     == Moves(p, "customer", "bank") /\ owed' = owed + Amount[p]
PayOver(p)  == Moves(p, "bank", "biller") /\ owed' = owed - Amount[p]
GiveBack(p) == Moves(p, "bank", "returned") /\ owed' = owed - Amount[p]

Init == money = [p \in Payments |-> "customer"] /\ owed = 0
Next == \E p \in Payments : Take(p) \/ PayOver(p) \/ GiveBack(p)
Spec == Init /\ [][Next]_<<money, owed>>
=============================================================================
