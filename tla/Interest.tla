-------------------------------- MODULE Interest --------------------------------
(***************************************************************************)
(* Interest on a credit balance (interest/): accrued daily into an exact   *)
(* accumulator, paid monthly in whole minor units.                         *)
(*                                                                         *)
(* A run reads the accrual state of the account and later writes it, on    *)
(* condition that the fields it computed from are as they were.  Runs of   *)
(* any day and any period overlap, are repeated, and die in between; a     *)
(* capitalisation posts the payout before it writes, under a reference     *)
(* made of the account and the period.  One account is modelled, as the    *)
(* runs treat each by itself.                                              *)
(***************************************************************************)
EXTENDS CustomerAccount, Totals

CONSTANTS
  Accruers,      \* runs for this account under way at the same time
  Increment,     \* Increment[d]: units (of 1/Unit) that day d earns
  Unit,          \* units to a minor unit (splitCapitalisation's divisor)
  DaysInPeriod   \* days in a month

ASSUME InterestAssumption ==
  /\ Increment \in [Days -> Nat] /\ Unit \in Nat \ {0} /\ DaysInPeriod \in Nat \ {0}

VARIABLES
  accrual,  \* the AccrualState document
  times,    \* times[d]: how often day d was added to the accumulator
  payout,   \* payout[p]: amount of entry INT-account-CAP-p, Unposted if none
  accruer   \* what the runs under way have read

interest == <<accrual, times, payout, accruer>>

Period(day) == (day - 1) \div DaysInPeriod + 1
Periods     == 1..Period(MaxDay)
NoState     == [numerator |-> 0, lastAccruedOn |-> 0, lastCapitalisedPeriod |-> 0,
                capitalisedToDate |-> 0]
NoRun       == [doing |-> "nothing", for |-> 0, read |-> NoState]

-----------------------------------------------------------------------------
(* Plausible mistakes, each named after the definition it would replace.   *)

SettledFor_Equal(day) == accrual.lastAccruedOn = day

-----------------------------------------------------------------------------
(* The daily accrual, for today or for an earlier day.                     *)

SettledFor(day) == accrual.lastAccruedOn >= day
StartAccrual(r, day) ==
  /\ accruer[r].doing = "nothing" /\ day <= today /\ ~SettledFor(day)
  /\ accruer' = [accruer EXCEPT ![r] = [doing |-> "accruing", for |-> day, read |-> accrual]]
  /\ UNCHANGED <<account, accrual, times, payout>>

(* applyAccrual: a conditional write; a row that is not there yet is       *)
(* inserted, by one run (the unique account).                              *)
Unchanged(read) ==
  /\ accrual.numerator = read.numerator
  /\ accrual.lastAccruedOn = read.lastAccruedOn

Accrue(r) ==
  LET day == accruer[r].for
      read == accruer[r].read
  IN
  /\ accruer[r].doing = "accruing" /\ Unchanged(read)
  /\ accrual' = [accrual EXCEPT !.numerator = read.numerator + Increment[day],
                                !.lastAccruedOn = day]
  /\ times' = [times EXCEPT ![day] = @ + 1]
  /\ accruer' = [accruer EXCEPT ![r] = NoRun]
  /\ UNCHANGED <<account, payout>>

-----------------------------------------------------------------------------
(* The monthly capitalisation.                                             *)

Payable(units)   == units \div Unit
Remainder(units) == units % Unit

StartCapitalisation(r, period) ==
  /\ accruer[r].doing = "nothing" /\ period < Period(today)
  /\ accrual.numerator > 0 /\ accrual.lastCapitalisedPeriod < period
  /\ accruer' = [accruer EXCEPT ![r] = [doing |-> "paying", for |-> period, read |-> accrual]]
  /\ UNCHANGED <<account, accrual, times, payout>>

(* postInterest, when there is a whole minor unit to pay.                  *)
PostInterest(r) ==
  LET period == accruer[r].for
      m == Payable(accruer[r].read.numerator)
  IN
  /\ accruer[r].doing = "paying"
  /\ Credit(Moved(payout[period], m)) /\ UNCHANGED today
  /\ payout' = [payout EXCEPT ![period] = Posting(@, m)]
  /\ accruer' = [accruer EXCEPT ![r].doing = "stamping"]
  /\ UNCHANGED <<accrual, times>>

(* applyCapitalisation: conditional on the period and the accumulator.     *)
Unstamped(read) ==
  /\ accrual.numerator = read.numerator
  /\ accrual.lastCapitalisedPeriod = read.lastCapitalisedPeriod

Stamp(r) ==
  LET read == accruer[r].read IN
  /\ accruer[r].doing = "stamping" /\ Unstamped(read)
  /\ accrual' = [accrual EXCEPT !.numerator = Remainder(read.numerator),
                                !.lastCapitalisedPeriod = accruer[r].for,
                                !.capitalisedToDate = read.capitalisedToDate
                                                        + Payable(read.numerator)]
  /\ accruer' = [accruer EXCEPT ![r] = NoRun]
  /\ UNCHANGED <<account, times, payout>>

(* A CONFLICT, a refused posting, or the death of the process: whatever    *)
(* was posted stays posted.                                                *)
EndRun(r) ==
  /\ accruer[r].doing # "nothing"
  /\ accruer' = [accruer EXCEPT ![r] = NoRun]
  /\ UNCHANGED <<account, accrual, times, payout>>

-----------------------------------------------------------------------------
InterestInit ==
  /\ accrual = NoState
  /\ times = [d \in Days |-> 0]
  /\ payout = [p \in Periods |-> Unposted]
  /\ accruer = [r \in Accruers |-> NoRun]

InterestNext ==
  \E r \in Accruers :
    \/ Accrue(r) \/ PostInterest(r) \/ Stamp(r) \/ EndRun(r)
    \/ \E d \in Days : StartAccrual(r, d)
    \/ \E p \in Periods : StartCapitalisation(r, p)

AccrualState == [numerator : Nat, lastAccruedOn : Nat, lastCapitalisedPeriod : Nat,
                 capitalisedToDate : Nat]
InterestTypeOK ==
  /\ accrual \in AccrualState
  /\ times \in [Days -> Nat] /\ payout \in [Periods -> Nat]
  /\ accruer \in [Accruers -> [doing : {"nothing", "accruing", "paying", "stamping"},
                               for : Nat, read : AccrualState]]

(* No interest appears and none disappears in the accumulator, however     *)
(* runs of accrual and capitalisation overlap: what was capitalised and    *)
(* what is left are what the accrued days earned, and a day is accrued     *)
(* once, never out of order.  (What was paid out is another matter: see    *)
(* the README.)                                                            *)
AccrualConserved ==
  /\ accrual.numerator + Unit * accrual.capitalisedToDate
       = Total([d \in Days |-> times[d] * Increment[d]], MaxDay)
  /\ \A d \in Days : times[d] <= 1
=============================================================================
