------------------------------- MODULE Totals -------------------------------
(***************************************************************************)
(* The sum of a function over an initial segment 1..n of the naturals.     *)
(*                                                                         *)
(* The bank's books are checked by adding things up (the holds on an       *)
(* account, the customer balances under a control account), so the modules *)
(* number what they add and use Total.  Running is a recursive function    *)
(* and not a RECURSIVE operator, which keeps it within reach of the proofs *)
(* of TotalsProofs.                                                        *)
(***************************************************************************)
EXTENDS Integers

(* Running(f, n)[i] is f[1] + ... + f[i], for i in 0..n.                   *)
Running(f, n) ==
  LET sum[i \in 0..n] == IF i = 0 THEN 0 ELSE sum[i - 1] + f[i]
  IN  sum

Total(f, n) == Running(f, n)[n]
=============================================================================
