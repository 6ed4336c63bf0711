------------------------- MODULE CardAuthorisations -------------------------
(***************************************************************************)
(* Card payments on one account (cards/authorisation/ with holds/): the    *)
(* approval that reserves funds, the increment that replaces the reserve,  *)
(* the capture that takes the money, the three other endings, and refunds. *)
(*                                                                         *)
(* Approve, increment, capture, reverse and refund are one transaction     *)
(* each, so one action each.  Two things are not one transaction and have  *)
(* a step for every write: authorise decides on limits and funds it reads  *)
(* before the transaction that books the approval, and the expiry pass     *)
(* closes the authorisations it listed one at a time, each in a write of   *)
(* its own followed by a read and a release of the hold it remembers.      *)
(*                                                                         *)
(* Nothing in the repository schedules the two expiry passes; they are     *)
(* actions here because the modules export them for whoever does.          *)
(***************************************************************************)
EXTENDS Integers, Totals

CONSTANTS
  NumAuths,       \* authorisations that can ever be asked for
  Sweepers,       \* concurrent callers of the authorisation expiry pass
  Funds,          \* bound: what the account starts with
  MaxAmount,      \* bound: the largest amount asked for, spent or charged
  DailyLimit,     \* the tightest ceiling set on the card
  MaxIncrements,  \* MAX_INCREMENTAL_AUTHORISATIONS
  Crashes         \* may a process die between two writes?

Auths   == 1..NumAuths
HoldIds == 1..(MaxIncrements + 1)
Amounts == 1..MaxAmount

ASSUME CardAssumption ==
  /\ NumAuths \in Nat \ {0} /\ Funds \in Nat /\ MaxAmount \in Nat
  /\ DailyLimit \in Nat /\ MaxIncrements \in Nat /\ Crashes \in BOOLEAN

VARIABLES
  auth,          \* the authorisations collection
  hold,          \* hold[p][k]: the k-th hold placed for authorisation p
  age,           \* how long ago p was authorised: its window and its expiresAt
  offer,         \* what authorise has decided to approve and not yet booked; 0 is nothing
  account,       \* the account's status
  balance,       \* its ledger balance
  holdTotal,     \* its reserve
  captureEntry,  \* amount of the journal entry card-capture:p; 0 is not booked
  refundEntry,   \* amount of p's refund entry by the suffix of its reference
  charged,       \* total of the fees taken without a funds check
  sweep          \* what each expiry pass holds

books == <<captureEntry, refundEntry>>
funds == <<account, balance, charged>>
vars  == <<auth, hold, age, offer, account, balance, holdTotal, captureEntry,
           refundEntry, charged, sweep>>

-----------------------------------------------------------------------------
(* Types.                                                                  *)

AuthorisationStatus == {"NONE", "DECLINED", "APPROVED", "CAPTURED", "REVERSED", "EXPIRED"}
HoldStatus          == {"NONE", "ACTIVE", "RELEASED", "CAPTURED", "EXPIRED"}

(* holdId 0 is null.  A declined request keeps no amount here.             *)
Authorisation == [status : AuthorisationStatus, amount : Nat, holdId : 0..(MaxIncrements + 1),
                  incrementCount : 0..MaxIncrements, capturedAmount : Nat, refundedAmount : Nat]
NoAuth        == [status |-> "NONE", amount |-> 0, holdId |-> 0,
                  incrementCount |-> 0, capturedAmount |-> 0, refundedAmount |-> 0]
Hold          == [status : HoldStatus, amount : Nat]

(* In today's spend window, out of it, past expiresAt, which the           *)
(* authorisation and every hold of it share, a day or more away.           *)
Age == {"today", "past", "lapsed"}

(* Where an expiry pass is, and which hold it read for each authorisation  *)
(* it has still to deal with.                                              *)
SweepAt == {"idle", "next", "closed", "releasing"}
Unread  == [p \in Auths |-> 0]
Sweep   == [at : SweepAt, read : [Auths -> 0..(MaxIncrements + 1)], on : Auths]
NoSweep == [at |-> "idle", read |-> Unread, on |-> 1]

-----------------------------------------------------------------------------
(* Plausible mistakes, each named after the definition it would replace.   *)

WithinFloor_Unchecked(m)   == TRUE
Available_Ledger(held)     == balance
referenceFor_Plain(p)      == 0
OPEN_STATUSES_Reversed     == {"APPROVED", "REVERSED"}
Replaced_Unreleased(p, k, to) ==
  [hold EXCEPT ![p][k + 1] = [status |-> "ACTIVE", amount |-> to]]

-----------------------------------------------------------------------------
(* The account, as the card entries use it.  No overdraft.                 *)

Usable == account = "ACTIVE"

(* computeAvailability, with held reserved.                                *)
Available(held) == IF balance < held THEN 0 ELSE balance - held

(* assertCovers, the check that reserve makes in its own transaction.      *)
Covers(held, m) == Usable /\ Available(held) >= m

(* assertWithinFloor: the ledger balance, whatever is reserved.            *)
WithinFloor(m) == balance >= m

-----------------------------------------------------------------------------
(* Authorising.                                                            *)

(* spentIn over listInWindow.                                              *)
COUNTS_TOWARDS_SPEND == {"APPROVED", "CAPTURED"}
SpendOf(p) == IF auth[p].status \notin COUNTS_TOWARDS_SPEND \/ age[p] # "today" THEN 0
              ELSE IF auth[p].status = "CAPTURED" THEN auth[p].capturedAmount
              ELSE auth[p].amount
Spent == Total([p \in Auths |-> SpendOf(p)], NumAuths)

Headroom == IF DailyLimit < Spent THEN 0 ELSE DailyLimit - Spent
Ceiling  == IF Headroom < Available(holdTotal) THEN Headroom ELSE Available(holdTotal)

(* decide: the whole amount, what there is for a merchant who takes less,  *)
(* or nothing.                                                             *)
Decision(m, partialApprovalAllowed) ==
  IF m <= Ceiling THEN m ELSE IF partialApprovalAllowed THEN Ceiling ELSE 0

Declined(p) == [auth EXCEPT ![p].status = "DECLINED"]

(* Ids are handed out in order.                                            *)
Unasked(p) ==
  /\ auth[p].status = "NONE" /\ offer[p] = 0
  /\ \A q \in 1..(p - 1) : auth[q].status # "NONE" \/ offer[q] # 0

(* AuthorisationGuardService.evaluate and what authorise makes of it: a    *)
(* refusal is recorded, an approval has still to be booked.  The account   *)
(* is read before the windows; the transaction reads it again, so one      *)
(* reading stands for both.                                                *)
Evaluate(p, m, partial) ==
  /\ Unasked(p)
  /\ IF Decision(m, partial) > 0
     THEN offer' = [offer EXCEPT ![p] = Decision(m, partial)] /\ auth' = auth
     ELSE auth' = Declined(p) /\ offer' = offer
  /\ age' = [age EXCEPT ![p] = "today"]
  /\ UNCHANGED <<hold, holdTotal, funds, books, sweep>>

(* The scheme, the card's status, its controls and its PIN refuse for      *)
(* reasons of their own.                                                   *)
Refuse(p) ==
  /\ Unasked(p)
  /\ auth' = Declined(p)
  /\ UNCHANGED <<hold, age, offer, holdTotal, funds, books, sweep>>

(* approveWithin: the record, the hold and the link.                       *)
Approved(p) == [auth EXCEPT ![p].status = "APPROVED", ![p].amount = offer[p], ![p].holdId = 1]

Place(p, k, m) == [hold EXCEPT ![p][k] = [status |-> "ACTIVE", amount |-> m]]

(* AuthorisationBookingService.approve: funds that went in between are a   *)
(* decline.                                                                *)
Approve(p) ==
  /\ offer[p] # 0 /\ Usable
  /\ IF Covers(holdTotal, offer[p])
     THEN /\ auth' = Approved(p)
          /\ hold' = Place(p, 1, offer[p])
          /\ holdTotal' = holdTotal + offer[p]
     ELSE auth' = Declined(p) /\ UNCHANGED <<hold, holdTotal>>
  /\ offer' = [offer EXCEPT ![p] = 0]
  /\ UNCHANGED <<age, funds, books, sweep>>

(* The account was frozen meanwhile, or the process died: an error, and    *)
(* nothing recorded.                                                       *)
Abandon(p) ==
  /\ offer[p] # 0 /\ (~Usable \/ Crashes)
  /\ offer' = [offer EXCEPT ![p] = 0]
  /\ UNCHANGED <<auth, hold, age, holdTotal, funds, books, sweep>>

-----------------------------------------------------------------------------
(* What becomes of an approval.                                            *)

OPEN_STATUSES == {"APPROVED"}
Open(p) == auth[p].status \in OPEN_STATUSES

(* resolveWithin: conditional on ACTIVE, and the whole hold goes back.     *)
Active(p, k)            == hold[p][k].status = "ACTIVE"
Resolved(p, k, outcome) == [hold EXCEPT ![p][k].status = outcome]

(* incrementWithin's two holds: the old one released, one for the new      *)
(* total placed.                                                           *)
Replaced(p, k, to) ==
  [hold EXCEPT ![p][k].status = "RELEASED",
               ![p][k + 1] = [status |-> "ACTIVE", amount |-> to]]

(* AuthorisationLifecycleService.increment.  Neither the card's ceilings   *)
(* nor expiresAt are consulted.                                            *)
Increment(p, to) ==
  LET k == auth[p].holdId IN
  /\ Open(p) /\ auth[p].incrementCount < MaxIncrements /\ to > auth[p].amount
  /\ Active(p, k)
  /\ Covers(holdTotal - hold[p][k].amount, to)
  /\ hold' = Replaced(p, k, to)
  /\ holdTotal' = holdTotal - hold[p][k].amount + to
  /\ auth' = [auth EXCEPT ![p].amount = to, ![p].holdId = k + 1,
                          ![p].incrementCount = @ + 1]
  /\ UNCHANGED <<age, offer, funds, books, sweep>>

(* AuthorisationLifecycleService.reverse: refused whole when the hold is   *)
(* no longer there to release.                                             *)
Reverse(p) ==
  LET k == auth[p].holdId IN
  /\ Open(p) /\ Active(p, k)
  /\ auth' = [auth EXCEPT ![p].status = "REVERSED"]
  /\ hold' = Resolved(p, k, "RELEASED")
  /\ holdTotal' = holdTotal - hold[p][k].amount
  /\ UNCHANGED <<age, offer, funds, books, sweep>>

(* PostingService.post: booked already, it moves nothing.                  *)
Once(entry, m) == IF entry # 0 THEN 0 ELSE m

(* CardCaptureService.capture: the posting, the hold, the authorisation.   *)
Capture(p, m) ==
  LET k == auth[p].holdId IN
  /\ auth[p].status = "APPROVED"
  /\ Active(p, k) /\ m <= hold[p][k].amount
  /\ Usable /\ WithinFloor(m)
  /\ balance' = balance - Once(captureEntry[p], m)
  /\ captureEntry' = [captureEntry EXCEPT ![p] = captureEntry[p] + Once(captureEntry[p], m)]
  /\ hold' = Resolved(p, k, "CAPTURED")
  /\ holdTotal' = holdTotal - hold[p][k].amount
  /\ auth' = [auth EXCEPT ![p].status = "CAPTURED", ![p].capturedAmount = m]
  /\ UNCHANGED <<age, offer, account, refundEntry, charged, sweep>>

(* assertRefundable: no more back than was taken.                          *)
Refundable(p, m) == auth[p].refundedAmount + m <= auth[p].capturedAmount

(* The suffix of the reference: nothing (0) for the first refund, then the *)
(* amount already back.                                                    *)
referenceFor(p) == auth[p].refundedAmount

(* CardRefundService.refund.                                               *)
Refund(p, m) ==
  LET n == referenceFor(p) IN
  /\ auth[p].status = "CAPTURED" /\ Refundable(p, m)
  /\ Usable
  /\ balance' = balance + Once(refundEntry[p][n], m)
  /\ refundEntry' = [refundEntry EXCEPT ![p][n] = refundEntry[p][n] + Once(refundEntry[p][n], m)]
  /\ auth' = [auth EXCEPT ![p].refundedAmount = @ + m]
  /\ UNCHANGED <<hold, age, offer, account, holdTotal, captureEntry, charged, sweep>>

-----------------------------------------------------------------------------
(* The expiry passes.                                                      *)

(* HoldService.expireDue: each hold in a transaction conditional on ACTIVE,*)
(* one that was resolved meanwhile is skipped.                             *)
ExpireHold(p, k) ==
  /\ age[p] = "lapsed" /\ Active(p, k)
  /\ hold' = Resolved(p, k, "EXPIRED")
  /\ holdTotal' = holdTotal - hold[p][k].amount
  /\ UNCHANGED <<auth, age, offer, funds, books, sweep>>

(* listExpired.                                                            *)
Due == {p \in Auths : auth[p].status = "APPROVED" /\ age[p] = "lapsed"}

(* AuthorisationLifecycleService.expireDue: the read, with each record's   *)
(* holdId of then.                                                         *)
StartSweep(s) ==
  /\ sweep[s].at = "idle" /\ Due # {}
  /\ sweep' = [sweep EXCEPT ![s] =
                 [at |-> "next", on |-> 1,
                  read |-> [p \in Auths |-> IF p \in Due THEN auth[p].holdId ELSE 0]]]
  /\ UNCHANGED <<auth, hold, age, offer, holdTotal, funds, books>>

(* On to the next record, or done.                                         *)
Onward(s, p) ==
  LET rest == [sweep[s].read EXCEPT ![p] = 0] IN
  sweep' = [sweep EXCEPT ![s] = IF rest = Unread THEN NoSweep
                                ELSE [at |-> "next", read |-> rest, on |-> 1]]

(* close's first write, conditional on the authorisation being open.       *)
CloseExpired(s, p) ==
  /\ sweep[s].at = "next" /\ sweep[s].read[p] # 0
  /\ IF Open(p)
     THEN /\ auth' = [auth EXCEPT ![p].status = "EXPIRED"]
          /\ sweep' = [sweep EXCEPT ![s].at = "closed", ![s].on = p]
     ELSE auth' = auth /\ Onward(s, p)
  /\ UNCHANGED <<hold, age, offer, holdTotal, funds, books>>

(* close's read of the hold the listed record named.                       *)
RequireHold(s) ==
  LET p == sweep[s].on IN
  /\ sweep[s].at = "closed"
  /\ IF Active(p, sweep[s].read[p])
     THEN sweep' = [sweep EXCEPT ![s].at = "releasing"]
     ELSE Onward(s, p)
  /\ UNCHANGED <<auth, hold, age, offer, holdTotal, funds, books>>

(* close's release: a hold resolved since it was read throws, and nothing  *)
(* in expireDue catches that.                                              *)
ReleaseExpired(s) ==
  LET p == sweep[s].on
      k == sweep[s].read[p]
  IN
  /\ sweep[s].at = "releasing"
  /\ IF Active(p, k)
     THEN /\ hold' = Resolved(p, k, "RELEASED")
          /\ holdTotal' = holdTotal - hold[p][k].amount
          /\ Onward(s, p)
     ELSE /\ sweep' = [sweep EXCEPT ![s] = NoSweep]
          /\ UNCHANGED <<hold, holdTotal>>
  /\ UNCHANGED <<auth, age, offer, funds, books>>

(* The process dies between two writes.                                    *)
CrashSweep(s) ==
  /\ Crashes /\ sweep[s].at # "idle"
  /\ sweep' = [sweep EXCEPT ![s] = NoSweep]
  /\ UNCHANGED <<auth, hold, age, offer, holdTotal, funds, books>>

-----------------------------------------------------------------------------
(* What else happens to the account, and time.                             *)

(* A transfer, a payment: funds checked against what is not reserved.      *)
Spend(m) ==
  /\ Covers(holdTotal, m)
  /\ balance' = balance - m
  /\ UNCHANGED <<auth, hold, age, offer, account, holdTotal, books, charged, sweep>>

(* A fee (FeePostingService, BillPaymentPoster.postFee): nothing but the   *)
(* posting's own floor.                                                    *)
Charge(m) ==
  /\ Usable /\ WithinFloor(m)
  /\ balance' = balance - m /\ charged' = charged + m
  /\ UNCHANGED <<auth, hold, age, offer, account, holdTotal, books, sweep>>

Freeze   == account = "ACTIVE" /\ account' = "FROZEN"
Unfreeze == account = "FROZEN" /\ account' = "ACTIVE"
SetAccount ==
  /\ Freeze \/ Unfreeze
  /\ UNCHANGED <<auth, hold, age, offer, balance, holdTotal, books, charged, sweep>>

(* The spend window moves on.                                              *)
NewDay ==
  /\ \E p \in Auths : age[p] = "today"
  /\ age' = [p \in Auths |-> IF age[p] = "today" THEN "past" ELSE age[p]]
  /\ UNCHANGED <<auth, hold, offer, holdTotal, funds, books, sweep>>

(* expiresAt passes; it matters while the approval is open.                *)
Lapse(p) ==
  /\ Open(p) /\ age[p] = "past"
  /\ age' = [age EXCEPT ![p] = "lapsed"]
  /\ UNCHANGED <<auth, hold, offer, holdTotal, funds, books, sweep>>

-----------------------------------------------------------------------------
Init ==
  /\ auth         = [p \in Auths |-> NoAuth]
  /\ hold         = [p \in Auths |-> [k \in HoldIds |-> [status |-> "NONE", amount |-> 0]]]
  /\ age          = [p \in Auths |-> "past"]
  /\ offer        = [p \in Auths |-> 0]
  /\ account      = "ACTIVE"
  /\ balance      = Funds
  /\ holdTotal    = 0
  /\ captureEntry = [p \in Auths |-> 0]
  /\ refundEntry  = [p \in Auths |-> [n \in 0..MaxAmount |-> 0]]
  /\ charged      = 0
  /\ sweep        = [s \in Sweepers |-> NoSweep]

Next ==
  \/ \E p \in Auths, m \in Amounts, partial \in BOOLEAN : Evaluate(p, m, partial)
  \/ \E p \in Auths : Refuse(p) \/ Approve(p) \/ Abandon(p)
  \/ \E p \in Auths, m \in Amounts : Increment(p, m) \/ Capture(p, m) \/ Refund(p, m)
  \/ \E p \in Auths : Reverse(p) \/ Lapse(p)
  \/ \E p \in Auths, k \in HoldIds : ExpireHold(p, k)
  \/ \E s \in Sweepers : StartSweep(s) \/ RequireHold(s) \/ ReleaseExpired(s) \/ CrashSweep(s)
  \/ \E s \in Sweepers, p \in Auths : CloseExpired(s, p)
  \/ \E m \in Amounts : Spend(m) \/ Charge(m)
  \/ SetAccount \/ NewDay

Spec == Init /\ [][Next]_vars

-----------------------------------------------------------------------------
(* What card payments promise.                                             *)

TypeOK ==
  /\ auth \in [Auths -> Authorisation]
  /\ hold \in [Auths -> [HoldIds -> Hold]]
  /\ age \in [Auths -> Age]
  /\ offer \in [Auths -> 0..MaxAmount]
  /\ account \in {"ACTIVE", "FROZEN"}
  /\ balance \in Nat /\ holdTotal \in Nat /\ charged \in Nat
  /\ captureEntry \in [Auths -> 0..MaxAmount]
  /\ refundEntry \in [Auths -> [0..MaxAmount -> 0..MaxAmount]]
  /\ sweep \in [Sweepers -> Sweep]

(* An authorisation has at most one reserve, of its own amount, the one it *)
(* names, through any number of increments; it has one until it ends or    *)
(* its deadline passes, whatever the expiry passes remember of it          *)
(* (authorisation-booking.service.ts, authorisation-lifecycle.service.ts). *)
ReserveExact ==
  \A p \in Auths :
    /\ \A k \in HoldIds : Active(p, k) =>
         /\ auth[p].status \in {"APPROVED", "EXPIRED"}
         /\ k = auth[p].holdId /\ hold[p][k].amount = auth[p].amount
    /\ auth[p].status = "APPROVED" /\ age[p] # "lapsed" => Active(p, auth[p].holdId)

(* The account's reserve is what those authorisations hold.                *)
Reserved(p) == IF \E k \in HoldIds : Active(p, k) THEN auth[p].amount ELSE 0
HoldTotalExact == holdTotal = Total([p \in Auths |-> Reserved(p)], NumAuths)

(* What the journal took for a payment is what the payment says was taken, *)
(* never more than was approved and nothing unless it was captured; and    *)
(* its refunds, however they were split, give back what it says is back    *)
(* and never more than was taken (card-capture.service.ts,                 *)
(* card-refund.service.ts).                                                *)
RefundsOf(p) == Total([n \in 1..(MaxAmount + 1) |-> refundEntry[p][n - 1]], MaxAmount + 1)
ChargedExact ==
  \A p \in Auths :
    /\ captureEntry[p] = auth[p].capturedAmount
    /\ captureEntry[p] <= auth[p].amount
    /\ captureEntry[p] # 0 <=> auth[p].status = "CAPTURED"
    /\ RefundsOf(p) = auth[p].refundedAmount
    /\ auth[p].refundedAmount <= auth[p].capturedAmount

(* Reserved money is there when the merchant claims it, short of nothing   *)
(* but the fees that were taken without looking at the reserve.            *)
ReserveCovered == holdTotal <= balance + charged

(* A payment ends once: declined, captured, reversed or expired, it is     *)
(* never claimed, raised or reopened, and a hold given back stays back     *)
(* (authorisation.repository.ts, holds/hold.service.ts).                   *)
EndingStands ==
  [][\A p \in Auths :
       /\ auth[p].status \notin {"NONE", "APPROVED"} =>
            /\ auth'[p].status = auth[p].status /\ auth'[p].amount = auth[p].amount
            /\ captureEntry'[p] = captureEntry[p]
       /\ \A k \in HoldIds :
            hold[p][k].status \notin {"NONE", "ACTIVE"} => hold'[p][k] = hold[p][k]]_vars

(* "Three endings, and all three finish the same way: the hold goes back"  *)
(* (authorisation-lifecycle.service.ts:23), once the pass that expires the *)
(* payment is done with it.                                                *)
EndedGivesHoldBack ==
  \A p \in Auths, k \in HoldIds :
    /\ auth[p].status \in {"CAPTURED", "REVERSED", "EXPIRED"}
    /\ \A s \in Sweepers : sweep[s].at # "idle" => sweep[s].read[p] = 0
    => ~Active(p, k)

(* Approved and captured authorisations both count against a ceiling, so   *)
(* that it is not spent "twice over" (spend-limits.ts:13-14).              *)
WithinCeiling == Spent <= DailyLimit
=============================================================================
