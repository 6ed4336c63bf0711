------------------------------- MODULE Mandates -------------------------------
(***************************************************************************)
(* Direct Debit mandates (mandates/): a merchant collects from a customer  *)
(* who may pause or cancel the mandate at any time, and who may have any   *)
(* collection refunded under the guarantee.                                *)
(*                                                                         *)
(* A collection reads the mandate, and later debits the account, settles   *)
(* with the scheme and adds a row to the mandate in one transaction; a     *)
(* refund reads a row, and later credits the account and marks the row.    *)
(* Passes of several instances overlap.  The references of the entries     *)
(* name the mandate and the day, and a refund's the entry it undoes: so    *)
(* entries are indexed by mandate and day here.                            *)
(*                                                                         *)
(* RETAINED_COLLECTIONS (36 rows) is taken to be more than are ever made.  *)
(***************************************************************************)
EXTENDS CustomerAccount, Sequences

CONSTANTS
  MandateIds,
  Asks,           \* amounts merchants ask for
  Collectors,     \* collections and refunds being made at the same time
  FixedAmount,    \* FixedAmount[m]: Mandate.fixedAmount, 0 for none
  MaxAmount,      \* MaxAmount[m]: Mandate.maxAmount, the agreed ceiling
  Frequency,      \* Frequency[m]: FREQUENCY_DAYS, 0 for VARIABLE
  Notice,         \* ADVANCE_NOTICE_DAYS
  Guarantee,      \* GUARANTEE_WINDOW_DAYS
  MaxCollections  \* bound: rows of a mandate

ASSUME MandateAssumption ==
  /\ MandateIds # {} /\ Asks \subseteq Nat \ {0}
  /\ FixedAmount \in [MandateIds -> Nat] /\ MaxAmount \in [MandateIds -> Nat]
  /\ Frequency \in [MandateIds -> Nat]
  /\ Notice \in Nat /\ Guarantee \in Nat /\ MaxCollections \in Nat

VARIABLES
  mandate,    \* the documents
  debited,    \* debited[m][d]: amount of entry dd:m:d, Unposted if there is none
  settled,    \* settled[m][d]: amount of entry dd-settle:m:d
  refunded,   \* refunded[m][d]: amount of the refund of dd:m:d
  collector   \* what collections and refunds in progress have read

mandateEntries == <<debited, settled, refunded>>
mandates       == <<mandate, debited, settled, refunded, collector>>

MandateStatus == {"NONE", "ACTIVE", "PAUSED", "CANCELLED"}
Never         == 0
Collection    == [day : Days, amount : Nat \ {0}, refunded : BOOLEAN]
NoMandate     == [status |-> "NONE", nextExpectedAt |-> Never, collections |-> <<>>]

Doing == {"nothing", "listed", "collecting", "refunding"}
Idle(w) == [doing |-> "nothing", mandate |-> CHOOSE m \in MandateIds : TRUE,
            amount |-> 0, day |-> 1]
Busy(w, what) == collector[w].doing = what

-----------------------------------------------------------------------------
(* Plausible mistakes, each named after the definition it would replace.   *)

FirstRow_Last(m, d) ==
  LET rows == {i \in DOMAIN mandate[m].collections : mandate[m].collections[i].day = d} IN
  CHOOSE i \in rows : \A j \in rows : j <= i

-----------------------------------------------------------------------------
(* The customer.                                                           *)

(* setUp: active at once, collected after notice.                          *)
SetUp(m) ==
  /\ mandate[m].status = "NONE"
  /\ mandate' = [mandate EXCEPT ![m].status = "ACTIVE", ![m].nextExpectedAt = today + Notice]
  /\ UNCHANGED <<account, mandateEntries, collector>>

(* setStatus: a mandate that is not cancelled, to what the customer may    *)
(* choose.                                                                 *)
CHOOSABLE == {"ACTIVE", "PAUSED"}
SetStatus(m, s) ==
  /\ mandate[m].status \in CHOOSABLE /\ s \in CHOOSABLE \cup {"CANCELLED"}
  /\ mandate' = [mandate EXCEPT ![m].status = s]
  /\ UNCHANGED <<account, mandateEntries, collector>>

-----------------------------------------------------------------------------
(* Collecting.                                                             *)

(* dueForCollection: the list of a pass.  A pass over several mandates is  *)
(* several collectors here.                                                *)
Due(m) == mandate[m].status = "ACTIVE" /\ mandate[m].nextExpectedAt \in 1..today
List(w, m) ==
  /\ Busy(w, "nothing") /\ Due(m)
  /\ collector' = [collector EXCEPT ![w].doing = "listed", ![w].mandate = m]
  /\ UNCHANGED <<account, mandate, mandateEntries>>

(* collect: the mandate is read again, and must be active and the amount   *)
(* within its ceiling; whether it is still due is not asked.  The merchant *)
(* asks for itself, or the pass does for what is fixed.                    *)
WithinCeiling(m, x) == MaxAmount[m] = 0 \/ x <= MaxAmount[m]
Ask(w, m, x) ==
  /\ \/ Busy(w, "nothing") /\ x \in Asks
     \/ Busy(w, "listed") /\ m = collector[w].mandate /\ FixedAmount[m] # 0
  /\ FixedAmount[m] # 0 => x = FixedAmount[m]
  /\ mandate[m].status = "ACTIVE" /\ WithinCeiling(m, x)
  /\ collector' = [collector EXCEPT ![w].doing = "collecting", ![w].mandate = m, ![w].amount = x]
  /\ UNCHANGED <<account, mandate, mandateEntries>>

(* MandatePoster.collect: the debit, and its settlement, under today's     *)
(* references.                                                             *)
Taken(m, x) ==
  /\ Covers(x) /\ Debit(Moved(debited[m][today], x)) /\ UNCHANGED today
  /\ debited' = [debited EXCEPT ![m][today] = Posting(@, x)]
  /\ settled' = [settled EXCEPT ![m][today] = Posting(@, x)]

(* The transaction: the entries and the row, whether or not the entries    *)
(* moved anything; if the mandate is active still.                         *)
Collect(w) ==
  LET m == collector[w].mandate
      x == collector[w].amount
      row == [day |-> today, amount |-> x, refunded |-> FALSE]
  IN
  /\ Busy(w, "collecting") /\ mandate[m].status = "ACTIVE"
  /\ Len(mandate[m].collections) < MaxCollections
  /\ Taken(m, x)
  /\ mandate' = [mandate EXCEPT
       ![m].collections = Append(@, row),
       ![m].nextExpectedAt = IF Frequency[m] = 0 THEN Never ELSE today + Frequency[m]]
  /\ collector' = [collector EXCEPT ![w] = Idle(w)]
  /\ UNCHANGED refunded

-----------------------------------------------------------------------------
(* The guarantee.                                                          *)

(* collectionOf: the first row of that entry.                              *)
Rows(m, d) == {i \in DOMAIN mandate[m].collections : mandate[m].collections[i].day = d}
FirstRow(m, d) == CHOOSE i \in Rows(m, d) : \A j \in Rows(m, d) : i <= j

(* assertRefundable, on the mandate as read.                               *)
Dispute(w, m, d) ==
  /\ Busy(w, "nothing") /\ Rows(m, d) # {}
  /\ ~mandate[m].collections[FirstRow(m, d)].refunded
  /\ today - d <= Guarantee
  /\ collector' = [collector EXCEPT
       ![w] = [doing |-> "refunding", mandate |-> m, day |-> d,
               amount |-> mandate[m].collections[FirstRow(m, d)].amount]]
  /\ UNCHANGED <<account, mandate, mandateEntries>>

(* The transaction: the credit, under the entry's reference, and the mark, *)
(* which recordRefund puts on the first row of that entry that has none.   *)
Refund(w) ==
  LET m == collector[w].mandate
      d == collector[w].day
      x == collector[w].amount
      Open == {i \in Rows(m, d) : ~mandate[m].collections[i].refunded}
  IN
  /\ Busy(w, "refunding") /\ Open # {}
  /\ Credit(Moved(refunded[m][d], x)) /\ UNCHANGED today
  /\ refunded' = [refunded EXCEPT ![m][d] = Posting(@, x)]
  /\ \E i \in Open :
       /\ \A j \in Open : i <= j
       /\ mandate' = [mandate EXCEPT ![m].collections[i].refunded = TRUE]
  /\ collector' = [collector EXCEPT ![w] = Idle(w)]
  /\ UNCHANGED <<debited, settled>>

(* A collection or refund that is refused, fails, or dies with its process.*)
GiveUp(w) ==
  /\ ~Busy(w, "nothing")
  /\ collector' = [collector EXCEPT ![w] = Idle(w)]
  /\ UNCHANGED <<account, mandate, mandateEntries>>

-----------------------------------------------------------------------------
MandatesInit ==
  LET NoEntry == [m \in MandateIds |-> [d \in Days |-> Unposted]] IN
  /\ mandate = [m \in MandateIds |-> NoMandate]
  /\ debited = NoEntry /\ settled = NoEntry /\ refunded = NoEntry
  /\ collector = [w \in Collectors |-> Idle(w)]

MandatesNext ==
  \/ \E m \in MandateIds : SetUp(m) \/ \E s \in MandateStatus : SetStatus(m, s)
  \/ \E w \in Collectors, m \in MandateIds :
       \/ List(w, m)
       \/ \E x \in Asks \cup {FixedAmount[m]} : Ask(w, m, x)
       \/ \E d \in Days : Dispute(w, m, d)
  \/ \E w \in Collectors : Collect(w) \/ Refund(w) \/ GiveUp(w)

MandatesTypeOK ==
  /\ mandate \in [MandateIds -> [status : MandateStatus, nextExpectedAt : Nat,
                                collections : Seq(Collection)]]
  /\ debited \in [MandateIds -> [Days -> Nat]]
  /\ settled \in [MandateIds -> [Days -> Nat]]
  /\ refunded \in [MandateIds -> [Days -> Nat]]
  /\ collector \in [Collectors -> [doing : Doing, mandate : MandateIds, amount : Nat, day : Days]]

(* However collections and refunds overlap, cross midnight or are sent     *)
(* twice: what left the account on a day went to the merchant, and what    *)
(* the guarantee gave back is that amount, once, exactly when a row of     *)
(* that day says so - although a second collection on one day leaves a row *)
(* that moved nothing, for an amount of its own.                           *)
GuaranteeOnce ==
  \A m \in MandateIds, d \in Days :
    /\ settled[m][d] = debited[m][d]
    /\ refunded[m][d] \in {Unposted, debited[m][d]}
    /\ refunded[m][d] # Unposted <=>
         \E i \in Rows(m, d) : mandate[m].collections[i].refunded
    /\ Rows(m, d) # {} =>
         mandate[m].collections[FirstRow(m, d)].amount = debited[m][d]
=============================================================================
