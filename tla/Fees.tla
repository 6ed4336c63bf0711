---------------------------------- MODULE Fees ----------------------------------
(***************************************************************************)
(* Fees (fees/ over products/fee.service.ts): a fee is assessed once for   *)
(* its charge key, free of charge as long as the month's allowance lasts.  *)
(*                                                                         *)
(* An assessment looks for the charge first.  Then, in one transaction, it *)
(* prices the fee from the month's counter, counts it, posts it, and       *)
(* inserts the charge; and it reads the clock three times, to know which   *)
(* month prices it, which counts it, and what day it is charged.  A month  *)
(* has one counter, so of two fees counted in a month at the same time one *)
(* is run again; fees counted in different months do not meet.             *)
(*                                                                         *)
(* The fees here are of one kind, which the product prices.                *)
(***************************************************************************)
EXTENDS CustomerAccount, FiniteSets

CONSTANTS
  Charges,       \* charge keys
  Assessors,     \* assessments under way at the same time
  Fee,           \* Fee[k]: what the charge costs when it is not free
  FreePerMonth,  \* the allowance of the fee entry
  DaysInMonth

ASSUME FeeAssumption ==
  /\ Charges # {}
  /\ Fee \in [Charges -> Nat \ {0}] /\ FreePerMonth \in Nat /\ DaysInMonth \in Nat \ {0}

VARIABLES
  charge,    \* the charges by charge key, and the months that priced and counted them
  posted,    \* posted[k]: amount of entry FEE:k, Unposted if there is none
  counter,   \* counter[m]: fees counted in month m
  assessor   \* the assessments under way

fees == <<charge, posted, counter, assessor>>

Month(day) == (day - 1) \div DaysInMonth
Months     == 0..Month(MaxDay)
NoCharge   == [amount |-> 0, waived |-> FALSE, window |-> 0, counted |-> 0, day |-> 0]
NoAssessor == [at |-> "idle", key |-> CHOOSE k \in Charges : TRUE,
               window |-> 0, free |-> FALSE, counted |-> 0, missed |-> {}]

(* In its transaction; missed are the counters written since its snapshot. *)
Booking == {"windowed", "priced", "counted"}

-----------------------------------------------------------------------------
(* Plausible mistakes, each named after the definition it would replace.   *)

Conflict_Never(v, m) == FALSE

-----------------------------------------------------------------------------
Charged(k) == charge[k] # NoCharge

Becomes(v, state) == assessor' = [assessor EXCEPT ![v] = state]
NothingBooked     == UNCHANGED <<account, charge, posted, counter>>

(* assess: a charge that exists already is the answer, and nothing else    *)
(* happens.                                                                *)
Assess(v, k) ==
  /\ assessor[v].at = "idle" /\ ~Charged(k)
  /\ Becomes(v, [NoAssessor EXCEPT !.at = "assessing", !.key = k])
  /\ NothingBooked

(* usedThisMonth: the clock, and then the counter, the first that the      *)
(* transaction reads.                                                      *)
OpenWindow(v) ==
  /\ assessor[v].at = "assessing"
  /\ Becomes(v, [assessor[v] EXCEPT !.at = "windowed", !.window = Month(today)])
  /\ NothingBooked
Price(v) ==
  /\ assessor[v].at = "windowed"
  /\ Becomes(v, [assessor[v] EXCEPT !.at = "priced",
                   !.free = counter[assessor[v].window] < FreePerMonth])
  /\ NothingBooked

(* consumeAllowance: counted, free or not, in the month it is by now, if   *)
(* no other transaction has written that counter since the snapshot.       *)
Conflict(v, m) ==
  \/ m \in assessor[v].missed
  \/ \E w \in Assessors \ {v} : assessor[w].at = "counted" /\ assessor[w].counted = m
Count(v) ==
  /\ assessor[v].at = "priced" /\ ~Conflict(v, Month(today))
  /\ Becomes(v, [assessor[v] EXCEPT !.at = "counted", !.counted = Month(today)])
  /\ NothingBooked

(* FeePostingService.book: posted if it was not waived, down to the floor  *)
(* of the account, inserted, and committed.                                *)
Misses(w, m) == [assessor[w] EXCEPT !.missed = IF assessor[w].at = "priced" THEN @ \cup {m} ELSE @]
Charge(v) ==
  LET k == assessor[v].key
      m == assessor[v].counted
      fee == IF assessor[v].free THEN 0 ELSE Fee[k]
  IN
  /\ assessor[v].at = "counted" /\ ~Charged(k)
  /\ AboveFloor(Moved(posted[k], fee))
  /\ Debit(Moved(posted[k], fee)) /\ UNCHANGED today
  /\ posted' = [posted EXCEPT ![k] = Posting(@, fee)]
  /\ counter' = [counter EXCEPT ![m] = @ + 1]
  /\ charge' = [charge EXCEPT ![k] = [amount |-> fee, waived |-> assessor[v].free,
                                      window |-> assessor[v].window, counted |-> m,
                                      day |-> today]]
  /\ assessor' = [w \in Assessors |-> IF w = v THEN NoAssessor ELSE Misses(w, m)]

(* A write conflict, here or on the account: run again from the start.     *)
Restart(v) ==
  /\ assessor[v].at \in Booking
  /\ Becomes(v, [NoAssessor EXCEPT !.at = "assessing", !.key = assessor[v].key])
  /\ NothingBooked

(* The unique charge key: recoverFromDuplicate answers with the winner.    *)
(* Or the fee is refused, or the process dies.                             *)
EndAssessment(v) ==
  /\ assessor[v].at # "idle"
  /\ Becomes(v, NoAssessor)
  /\ NothingBooked

-----------------------------------------------------------------------------
FeesInit ==
  /\ charge = [k \in Charges |-> NoCharge]
  /\ posted = [k \in Charges |-> Unposted]
  /\ counter = [m \in Months |-> 0]
  /\ assessor = [v \in Assessors |-> NoAssessor]

FeesNext ==
  \E v \in Assessors :
    \/ OpenWindow(v) \/ Price(v) \/ Count(v) \/ Charge(v)
    \/ Restart(v) \/ EndAssessment(v)
    \/ \E k \in Charges : Assess(v, k)

FeesTypeOK ==
  /\ charge \in [Charges -> [amount : Nat, waived : BOOLEAN, window : Months,
                             counted : Months, day : {0} \cup Days]]
  /\ posted \in [Charges -> Nat]
  /\ counter \in [Months -> Nat]
  /\ assessor \in [Assessors -> [at : {"idle", "assessing"} \cup Booking, key : Charges,
                                 window : Months, free : BOOLEAN, counted : Months,
                                 missed : SUBSET Months]]

(* The register of charges and the fee income in the journal agree charge  *)
(* by charge, as FeeReconciliationService expects; a month's counter is    *)
(* what was counted in it, none of it charged before or priced after; and  *)
(* of the fees priced and counted in a month no more than its allowance    *)
(* are free.  A month end between two of an assessment's readings of the   *)
(* clock tells the three apart, and may give away a fee too many.          *)
AllowanceKept ==
  /\ \A k \in Charges :
       /\ posted[k] = charge[k].amount
       /\ Charged(k) => /\ charge[k].window <= charge[k].counted
                        /\ charge[k].counted <= Month(charge[k].day)
  /\ \A m \in Months :
       LET In == {k \in Charges : Charged(k) /\ charge[k].counted = m} IN
       /\ counter[m] = Cardinality(In)
       /\ Cardinality({k \in In : charge[k].waived /\ charge[k].window = m}) <= FreePerMonth
=============================================================================
