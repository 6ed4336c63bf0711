---------------------------- MODULE CustomerAccount ----------------------------
(***************************************************************************)
(* What the services around one current account share: the business day,   *)
(* the account's ledger balance, and what holds reserve of it.             *)
(*                                                                         *)
(* A service moves money under journal references of its own prefix and    *)
(* keeps track of them itself, so of the account it is only seen whether   *)
(* it bears a debit.  AccountBook is the module about accounts,            *)
(* CardAuthorisations the one about what places holds, and                 *)
(* TransactionRunner the one that lets a transaction be one step here.     *)
(***************************************************************************)
EXTENDS Integers

CONSTANTS
  MaxDay,    \* bound: the last business day
  MaxFunds,  \* bound: the most the account ever holds, above its floor
  MaxHeld    \* bound: the most that holds ever reserve

Days  == 1..MaxDay
Funds == 0..MaxFunds
Holds == 0..MaxHeld

ASSUME AccountAssumption ==
  MaxDay \in Nat \ {0} /\ MaxFunds \in Nat /\ MaxHeld \in Nat

VARIABLES
  today,    \* ClockService.today
  balance,  \* the ledger balance above the account's floor
  held      \* the sum of its active holds

account == <<today, balance, held>>

-----------------------------------------------------------------------------
(* A plausible mistake, named after the definition it would replace.       *)

AboveFloor_Before(m) == balance >= 0

-----------------------------------------------------------------------------
(* assertSufficientFunds, which a service that spends asks first, counts   *)
(* holds in; the posting itself has only the floor of the ledger balance,  *)
(* which is all that stands before a fee or a reversal.                    *)
Covers(m)     == balance - held >= m
AboveFloor(m) == balance >= m

Debit(m)  == balance' = balance - m /\ UNCHANGED held
Credit(m) == balance + m <= MaxFunds /\ balance' = balance + m /\ UNCHANGED held

(* PostingService.post: an entry under a reference that is booked already  *)
(* moves nothing, and is the entry booked then.                            *)
Unposted == 0
Posting(entry, m) == IF entry = Unposted THEN m ELSE entry
Moved(entry, m)   == IF entry = Unposted THEN m ELSE 0

(* The business day turns; other money comes in and goes out, and holds    *)
(* are placed and end (a capture is both, one after the other).  A step of *)
(* one service is such a step to another.                                  *)
NextDay   == today < MaxDay /\ today' = today + 1 /\ UNCHANGED <<balance, held>>
Elsewhere ==
  /\ \/ balance' \in Funds \ {balance} /\ UNCHANGED held
     \/ held' \in Holds \ {held} /\ UNCHANGED balance
  /\ UNCHANGED today

AccountInit   == today = 1 /\ balance = MaxFunds /\ held = 0
AccountTypeOK == today \in Days /\ balance \in Funds /\ held \in Holds
=============================================================================
