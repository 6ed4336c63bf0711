----------------------------- MODULE AccountBook -----------------------------
(***************************************************************************)
(* The books of the bank: customer accounts, the holds placed against them *)
(* and the double-entry journal, with the balance projections that the     *)
(* journal is supposed to explain.                                         *)
(*                                                                         *)
(* Every operation of accounts/, holds/, ledger/ and overdraft/ that       *)
(* changes state is one action, because every one of them runs as one      *)
(* MongoDB transaction (TransactionRunner.run) whose writes to an account  *)
(* are conditional on the version it read, and which it runs again when    *)
(* another writer was first.  That this makes a transaction atomic is      *)
(* taken as given here.                                                    *)
(*                                                                         *)
(* Money is an integer number of minor units in one currency (a posting    *)
(* in another is refused before it changes anything).  Accounts, holds and *)
(* the references callers choose are numbered from 1.                      *)
(***************************************************************************)
EXTENDS Integers, Sequences, Totals

CONSTANTS
  NumAccounts,    \* accounts that can ever be opened
  NumHolds,       \* holds that can ever be placed
  NumRequests,    \* references callers of PostingService.post may use
  MaxAmount,      \* bound: the largest single movement or hold
  MaxLimit,       \* bound: the largest overdraft granted; 0 leaves overdrafts out
  MaxReversals,   \* how many REV- prefixes MAX_REFERENCE_LENGTH leaves room for
  Owner,          \* Owner[a]: the customer who holds account a
  Minimum         \* Minimum[a]: the minimumOpeningBalance of account a

Accounts == 1..NumAccounts
Holds    == 1..NumHolds
Requests == 1..NumRequests
Amounts  == 1..MaxAmount
Limits   == IF MaxLimit = 0 THEN {} ELSE 0..MaxLimit

ASSUME BoundsAssumption ==
  /\ NumAccounts \in Nat \ {0} /\ NumHolds \in Nat /\ NumRequests \in Nat
  /\ MaxAmount \in Nat /\ MaxLimit \in Nat /\ MaxReversals \in Nat

ASSUME MinimumAssumption == Minimum \in [Accounts -> Nat]

VARIABLES
  status,             \* Account.status, "NONE" before the account is opened
  ledgerBalance,      \* Account.ledgerBalance
  availableBalance,   \* Account.availableBalance, stored and not derived
  holdTotal,          \* Account.holdTotal
  overdraftLimit,     \* Account.overdraftLimit
  facility,           \* status of the account's latest overdraft facility
  hold,               \* the holds collection
  journal,            \* journal entries in booking order; an entry's id is its position
  deposits            \* balance projection of GL 2000, Customer Deposits

bookVars   == <<ledgerBalance, journal, deposits>>
vars       == <<status, ledgerBalance, availableBalance, holdTotal, overdraftLimit,
                facility, hold, journal, deposits>>

-----------------------------------------------------------------------------
(* Types.                                                                  *)

AccountStatus  == {"NONE", "PENDING", "ACTIVE", "DORMANT", "FROZEN", "CLOSED"}
FacilityStatus == {"NONE", "ACTIVE", "SUSPENDED", "CLOSED", "DECLINED"}
HoldStatus     == {"NONE", "ACTIVE", "RELEASED", "CAPTURED", "EXPIRED"}

(* Of the six reasons a hold is placed for, two can be captured; the other *)
(* four behave as one.                                                     *)
HoldReason == {"CARD_AUTHORISATION", "COURT_ORDER"}
Capturable == {"CARD_AUTHORISATION"}

Hold == [status : HoldStatus, accountId : Accounts, amount : Nat,
         reason : HoldReason, capturedEntryId : Nat]

(* A journal reference: what a caller chose (POST), what a hold or an      *)
(* account fixes (CAPTURE, CLOSE), under some number of REV- prefixes.     *)
Bases      == ({"POST"} \X Requests) \cup ({"CAPTURE"} \X Holds) \cup ({"CLOSE"} \X Accounts)
References == [base : Bases, reversals : 0..MaxReversals]
Ref(kind, n) == [base |-> <<kind, n>>, reversals |-> 0]

(* What an entry does to the customer accounts: its postings aggregated    *)
(* per account, a credit being positive.  The internal legs that balance   *)
(* it are whatever is left over, because an unbalanced entry cannot be     *)
(* constructed (domain/ledger/journal-entry.ts).                           *)
Effects == [Accounts -> Int]
Entry   == [reference : References, effects : Effects, reversedBy : Nat]

NewEntry(ref, effects) == [reference |-> ref, effects |-> effects, reversedBy |-> 0]

NoEffect          == [x \in Accounts |-> 0]
Only(a, m)        == [NoEffect EXCEPT ![a] = m]
InternalTransfer(a, b, m) == [NoEffect EXCEPT ![a] = -m, ![b] = m]

(* The entries the recipes of domain/ledger/recipes build: money in, money *)
(* out, money from one account to another.                                 *)
Recipes == {Only(a, m) : a \in Accounts, m \in Amounts}
      \cup {Only(a, -m) : a \in Accounts, m \in Amounts}
      \cup {InternalTransfer(p[1], p[2], m) :
               p \in {q \in Accounts \X Accounts : q[1] # q[2]}, m \in Amounts}

-----------------------------------------------------------------------------
(* Plausible mistakes in the definitions that follow, each named after the *)
(* one it would replace.  They are no part of the specification: they show *)
(* that the properties below notice.                                       *)

Booked_Never(ref)             == FALSE
Refusals_ClosedOnly           == {"NONE", "CLOSED"}
WithinFloor_Before(effects)   == \A a \in Accounts : ledgerBalance[a] >= -overdraftLimit[a]
Moves_Replayed(ref, effects)  == effects
AvailableAfter_Credits(moves) == [a \in Accounts |-> IF moves[a] < 0 THEN availableBalance[a]
                                                     ELSE availableBalance[a] + moves[a]]
ControlDelta_First(moves)     == IF Accounts = {} THEN 0 ELSE moves[1]
Reversal_SameSign(effects)    == effects
ResolvableFrom_Captured       == {"ACTIVE", "CAPTURED"}
Released_Taken(h, amount)     == amount
NoActiveHolds_Unchecked(a)    == TRUE

-----------------------------------------------------------------------------
(* ledger/                                                                 *)

(* findByReference: the reference is already in the journal.               *)
Booked(ref) == \E i \in DOMAIN journal : journal[i].reference = ref

(* assertAccountUsable: the statuses that refuse money movement.  An       *)
(* account that was never opened is ACCOUNT_NOT_FOUND.                     *)
MOVEMENT_REFUSALS == {"NONE", "CLOSED", "FROZEN"}
Usable(a) == status[a] \notin MOVEMENT_REFUSALS

(* assertWithinFloor, for every account the entry debits.                  *)
WithinFloor(effects) ==
  \A a \in Accounts : effects[a] < 0 => ledgerBalance[a] + effects[a] >= -overdraftLimit[a]

Postable(effects) ==
  /\ \A a \in Accounts : effects[a] # 0 => Usable(a)
  /\ WithinFloor(effects)

(* What post moves: nothing when the reference is already booked.          *)
Moves(ref, effects) == IF Booked(ref) THEN NoEffect ELSE effects

(* applyDelta on each account: the same signed delta on a balance.         *)
Moved(balance, moves) == [a \in Accounts |-> balance[a] + moves[a]]

AvailableAfter(moves) == Moved(availableBalance, moves)

(* aggregateLedgerEffects for GL 2000, every leg of which names a customer *)
(* account (assertCustomerDepositsCarriesAccount).                         *)
ControlDelta(moves) == Total(moves, NumAccounts)

(* The status change that rides along with a balance write.                *)
transitionFor(moves) ==
  [a \in Accounts |->
     IF moves[a] # 0 /\ (\/ status[a] = "DORMANT"
                         \/ status[a] = "PENDING" /\ ledgerBalance[a] + moves[a] >= Minimum[a])
     THEN "ACTIVE" ELSE status[a]]

(* The id of the entry that post returns: the one already booked, or the   *)
(* one it appends.                                                         *)
EntryId(ref) ==
  IF Booked(ref) THEN CHOOSE i \in DOMAIN journal : journal[i].reference = ref
                 ELSE Len(journal) + 1

(* postWithin: the idempotency check, the refusals, the entry and the two  *)
(* projections it writes.  Availability and status are left to the caller, *)
(* who may write them again in the same transaction.                       *)
PostWithin(ref, effects) ==
  /\ ~Booked(ref) => Postable(effects)
  /\ journal' = IF Booked(ref) THEN journal
                ELSE Append(journal, NewEntry(ref, effects))
  /\ deposits' = deposits + ControlDelta(Moves(ref, effects))
  /\ ledgerBalance' = Moved(ledgerBalance, Moves(ref, effects))

(* PostingService.post under a reference the caller chose.  A replay books *)
(* nothing and moves nothing.                                              *)
Post(n, effects) ==
  LET ref == Ref("POST", n) IN
  /\ PostWithin(ref, effects)
  /\ availableBalance' = AvailableAfter(Moves(ref, effects))
  /\ status' = transitionFor(Moves(ref, effects))
  /\ UNCHANGED <<holdTotal, overdraftLimit, facility, hold>>

(* buildReversal: the mirror of every leg.                                 *)
buildReversal(effects) == [a \in Accounts |-> -effects[a]]
reversalReference(ref) == [ref EXCEPT !.reversals = @ + 1]

(* markReversed: the link to the reversal is all that changes.             *)
Marked(i, id) == [journal EXCEPT ![i].reversedBy = id]

(* ReversalService.reverse: assertReversible, the mirror entry, the mark on*)
(* the original.                                                           *)
Reverse(i) ==
  LET ref    == reversalReference(journal[i].reference)
      mirror == buildReversal(journal[i].effects)
  IN
  /\ journal[i].reversedBy = 0
  /\ ref.reversals <= MaxReversals
  /\ ~Booked(ref) => Postable(mirror)
  /\ journal' = IF Booked(ref) THEN Marked(i, EntryId(ref))
                ELSE Append(Marked(i, EntryId(ref)), NewEntry(ref, mirror))
  /\ deposits' = deposits + ControlDelta(Moves(ref, mirror))
  /\ ledgerBalance' = Moved(ledgerBalance, Moves(ref, mirror))
  /\ availableBalance' = AvailableAfter(Moves(ref, mirror))
  /\ status' = transitionFor(Moves(ref, mirror))
  /\ UNCHANGED <<holdTotal, overdraftLimit, facility, hold>>

-----------------------------------------------------------------------------
(* holds/                                                                  *)

(* computeAvailability: what the customer may spend, never negative.       *)
available(a) ==
  LET headroom == ledgerBalance[a] - holdTotal[a] + overdraftLimit[a]
  IN  IF headroom < 0 THEN 0 ELSE headroom

(* HoldService.place: BalanceService.reserve, then the hold.  Ids are      *)
(* handed out in order.                                                    *)
PlaceHold(h, a, amount, reason) ==
  /\ hold[h].status = "NONE" /\ \A g \in 1..(h - 1) : hold[g].status # "NONE"
  /\ Usable(a)
  /\ available(a) >= amount
  /\ holdTotal' = [holdTotal EXCEPT ![a] = @ + amount]
  /\ availableBalance' = [availableBalance EXCEPT
                            ![a] = ledgerBalance[a] - holdTotal[a] - amount]
  /\ hold' = [hold EXCEPT ![h] = [status |-> "ACTIVE", accountId |-> a, amount |-> amount,
                                  reason |-> reason, capturedEntryId |-> 0]]
  /\ UNCHANGED <<status, overdraftLimit, facility, bookVars>>

(* The conditional write of HoldRepository.resolve.                        *)
ResolvableFrom == {"ACTIVE"}

(* What a resolution gives back: the whole hold, even on a part capture.   *)
Released(h, amount) == hold[h].amount

(* resolveWithin: the transition, then BalanceService.restore against the  *)
(* ledger balance as this transaction has left it.                         *)
ResolveWithin(h, outcome, amount, entryId) ==
  LET a == hold[h].accountId IN
  /\ hold[h].status \in ResolvableFrom
  /\ holdTotal[a] >= Released(h, amount)
  /\ hold' = [hold EXCEPT ![h].status = outcome, ![h].capturedEntryId = entryId]
  /\ holdTotal' = [holdTotal EXCEPT ![a] = @ - Released(h, amount)]
  /\ availableBalance' = [availableBalance EXCEPT ![a] = ledgerBalance'[a] - holdTotal'[a]]

(* HoldService.release and expireDue.  The reserve goes back whatever the  *)
(* account's status.  Any active hold may have reached its expiry.         *)
GiveBack(h, outcome) ==
  /\ UNCHANGED <<status, overdraftLimit, facility, bookVars>>
  /\ ResolveWithin(h, outcome, 0, 0)

ReleaseHold(h) == GiveBack(h, "RELEASED")
ExpireHold(h)  == GiveBack(h, "EXPIRED")

(* HoldCaptureService.capture: the posting, the hold, the reserve, in that *)
(* order and in one transaction.                                           *)
CaptureHold(h, amount) ==
  LET ref   == Ref("CAPTURE", h)
      taken == Only(hold[h].accountId, -amount)
  IN
  /\ hold[h].status \in ResolvableFrom
  /\ hold[h].reason \in Capturable
  /\ amount <= hold[h].amount
  /\ PostWithin(ref, taken)
  /\ status' = transitionFor(Moves(ref, taken))
  /\ ResolveWithin(h, "CAPTURED", amount, EntryId(ref))
  /\ UNCHANGED <<overdraftLimit, facility>>

-----------------------------------------------------------------------------
(* accounts/                                                               *)

(* AccountOpeningService.open.                                             *)
Open(a) ==
  /\ status[a] = "NONE" /\ \A b \in 1..(a - 1) : status[b] # "NONE"
  /\ status' = [status EXCEPT ![a] = IF Minimum[a] > 0 THEN "PENDING" ELSE "ACTIVE"]
  /\ UNCHANGED <<availableBalance, holdTotal, overdraftLimit, facility, hold, bookVars>>

SetStatus(a, from, to) ==
  /\ status[a] \in from
  /\ status' = [status EXCEPT ![a] = to]
  /\ UNCHANGED <<availableBalance, holdTotal, overdraftLimit, facility, hold, bookVars>>

FREEZABLE == {"PENDING", "ACTIVE", "DORMANT"}

(* AccountStatusService: a repeated freeze or unfreeze changes nothing.    *)
Freeze(a)       == SetStatus(a, FREEZABLE \cup {"FROZEN"}, "FROZEN")
Unfreeze(a)     == SetStatus(a, {"FROZEN", "ACTIVE"}, "ACTIVE")
SweepDormant(a) == SetStatus(a, {"ACTIVE"}, "DORMANT")

(* assertNoActiveHolds reads holdTotal, not the holds collection.          *)
NoActiveHolds(a) == holdTotal[a] = 0

(* sweepResidue's early return: nothing to move.                           *)
NothingToSweep(a) == ledgerBalance[a] = 0

(* AccountClosureService.close with nothing to sweep: a frozen account too.*)
CloseEmpty(a) ==
  /\ status[a] # "NONE"
  /\ status[a] # "CLOSED" => NoActiveHolds(a) /\ NothingToSweep(a)
  /\ status' = [status EXCEPT ![a] = "CLOSED"]
  /\ UNCHANGED <<availableBalance, holdTotal, overdraftLimit, facility, hold, bookVars>>

(* AccountClosureService.close with a residue: the sweep and the closure   *)
(* in one transaction.  A debt cannot be swept.                            *)
CloseSweeping(a, target) ==
  LET ref   == Ref("CLOSE", a)
      swept == InternalTransfer(a, target, ledgerBalance[a])
  IN
  /\ status[a] \notin {"NONE", "CLOSED"}
  /\ NoActiveHolds(a)
  /\ ~NothingToSweep(a) /\ ledgerBalance[a] > 0
  /\ target # a /\ Owner[target] = Owner[a] /\ status[target] = "ACTIVE"
  /\ PostWithin(ref, swept)
  /\ availableBalance' = AvailableAfter(Moves(ref, swept))
  /\ status' = [transitionFor(Moves(ref, swept)) EXCEPT ![a] = "CLOSED"]
  /\ UNCHANGED <<holdTotal, overdraftLimit, facility, hold>>

-----------------------------------------------------------------------------
(* overdraft/                                                              *)

SetFacility(a, to, limit) ==
  /\ facility' = [facility EXCEPT ![a] = to]
  /\ overdraftLimit' = [overdraftLimit EXCEPT ![a] = limit]
  /\ UNCHANGED <<status, availableBalance, holdTotal, hold, bookVars>>

(* OverdraftService.request, granting limit or, with none granted,         *)
(* declining.  The account's own status is not consulted.                  *)
RequestOverdraft(a, limit) ==
  /\ status[a] # "NONE" /\ facility[a] \notin {"ACTIVE", "SUSPENDED"}
  /\ IF limit > 0 THEN SetFacility(a, "ACTIVE", limit)
                  ELSE SetFacility(a, "DECLINED", overdraftLimit[a])

(* OverdraftService.suspend: the limit goes at once, the drawn balance     *)
(* stays.                                                                  *)
SuspendOverdraft(a) == facility[a] # "NONE" /\ SetFacility(a, "SUSPENDED", 0)

(* OverdraftService.close: refused while the account is overdrawn.         *)
CloseOverdraft(a) ==
  facility[a] # "NONE" /\ ledgerBalance[a] >= 0 /\ SetFacility(a, "CLOSED", 0)

-----------------------------------------------------------------------------
Init ==
  /\ status           = [a \in Accounts |-> "NONE"]
  /\ ledgerBalance    = [a \in Accounts |-> 0]
  /\ availableBalance = [a \in Accounts |-> 0]
  /\ holdTotal        = [a \in Accounts |-> 0]
  /\ overdraftLimit   = [a \in Accounts |-> 0]
  /\ facility         = [a \in Accounts |-> "NONE"]
  /\ hold = [h \in Holds |-> [status |-> "NONE", accountId |-> 1, amount |-> 0,
                              reason |-> "COURT_ORDER", capturedEntryId |-> 0]]
  /\ journal  = << >>
  /\ deposits = 0

Next ==
  \/ \E n \in Requests, e \in Recipes : Post(n, e)
  \/ \E i \in DOMAIN journal : Reverse(i)
  \/ \E h \in Holds, a \in Accounts, m \in Amounts, r \in HoldReason : PlaceHold(h, a, m, r)
  \/ \E h \in Holds : ReleaseHold(h) \/ ExpireHold(h)
  \/ \E h \in Holds, m \in Amounts : CaptureHold(h, m)
  \/ \E a \in Accounts : Open(a) \/ Freeze(a) \/ Unfreeze(a) \/ SweepDormant(a) \/ CloseEmpty(a)
  \/ \E a, b \in Accounts : CloseSweeping(a, b)
  \/ \E a \in Accounts, m \in Limits : RequestOverdraft(a, m)
  \/ \E a \in Accounts : SuspendOverdraft(a) \/ CloseOverdraft(a)

Spec == Init /\ [][Next]_vars

-----------------------------------------------------------------------------
(* What the books promise.                                                 *)

TypeOK ==
  /\ status \in [Accounts -> AccountStatus]
  /\ ledgerBalance \in [Accounts -> Int]
  /\ availableBalance \in [Accounts -> Int]
  /\ holdTotal \in [Accounts -> Nat]
  /\ overdraftLimit \in [Accounts -> Nat]
  /\ facility \in [Accounts -> FacilityStatus]
  /\ hold \in [Holds -> Hold]
  /\ journal \in Seq(Entry)
  /\ deposits \in Int
  /\ \A h \in Holds : hold[h].capturedEntryId <= Len(journal)
  /\ \A i \in DOMAIN journal : journal[i].reversedBy <= Len(journal)

(* The stored availability never drifts from ledger - holdTotal, although  *)
(* postings add a delta to it and holds recompute it (account.schema.ts,   *)
(* availability.ts).                                                       *)
AvailabilityExact ==
  \A a \in Accounts : availableBalance[a] = ledgerBalance[a] - holdTotal[a]

(* holdTotal is the sum of the account's active holds, whichever way holds *)
(* are placed, released, expired and captured: assertNoActiveHolds and     *)
(* assertReserveExists both trust it in place of the collection.           *)
ActiveAmount(a) ==
  [h \in Holds |-> IF hold[h].status = "ACTIVE" /\ hold[h].accountId = a
                   THEN hold[h].amount ELSE 0]
HoldsExact == \A a \in Accounts : holdTotal[a] = Total(ActiveAmount(a), NumHolds)

(* SUM(customer balances) = balance of GL 2000, which posting-rules.ts     *)
(* calls the bank's single most important identity.                        *)
ControlExact == deposits = Total(ledgerBalance, NumAccounts)

(* Every balance is what replaying the journal gives: what                 *)
(* LedgerVerifierService rebuilds and compares.                            *)
EffectsOn(a) == [i \in 1..Len(journal) |-> journal[i].effects[a]]
JournalExplains == \A a \in Accounts : ledgerBalance[a] = Total(EffectsOn(a), Len(journal))

(* A reference books at most one entry.                                    *)
BookedOnce ==
  \A i, j \in DOMAIN journal : journal[i].reference = journal[j].reference => i = j

(* A hold is captured exactly when its capture is in the journal, and that *)
(* entry, the one the hold names, debits its account and no other by no    *)
(* more than the hold (capture is exactly once, hold-capture.service.ts).  *)
CaptureExact ==
  \A h \in Holds :
    /\ Booked(Ref("CAPTURE", h)) <=> hold[h].status = "CAPTURED"
    /\ hold[h].status = "CAPTURED" =>
         /\ hold[h].capturedEntryId \in DOMAIN journal
         /\ LET entry == journal[hold[h].capturedEntryId] IN
              /\ entry.reference = Ref("CAPTURE", h)
              /\ \E m \in 1..hold[h].amount : entry.effects = Only(hold[h].accountId, -m)

(* An entry is marked reversed exactly when its reversal is in the journal,*)
(* by that entry, which undoes it leg by leg: no operator can reverse it a *)
(* second time (reversal.service.ts).                                      *)
ReversalExact ==
  \A i \in DOMAIN journal :
    /\ journal[i].reversedBy # 0 <=> Booked(reversalReference(journal[i].reference))
    /\ journal[i].reversedBy # 0 =>
         /\ journal[i].reversedBy \in DOMAIN journal
         /\ LET mirror == journal[journal[i].reversedBy] IN
              /\ mirror.reference = reversalReference(journal[i].reference)
              /\ \A a \in Accounts : mirror.effects[a] = -journal[i].effects[a]

(* Nothing is stranded in a closed account: no money, no debt, no hold     *)
(* (account-closure.service.ts).                                           *)
ClosedIsEmpty ==
  \A a \in Accounts : status[a] = "CLOSED" =>
    /\ ledgerBalance[a] = 0 /\ availableBalance[a] = 0
    /\ \A h \in Holds : hold[h].accountId = a => hold[h].status # "ACTIVE"

(* An account is below its overdraft limit only after its facility was     *)
(* withdrawn: no posting, capture, sweep or reversal takes it there.       *)
WithinFacility ==
  \A a \in Accounts : ledgerBalance[a] >= -overdraftLimit[a] \/ facility[a] = "SUSPENDED"

(* While an account is frozen its balance moves in neither direction; a    *)
(* closed account is empty and closed for good, whatever operation runs.   *)
FrozenAndClosedStand ==
  /\ []ClosedIsEmpty
  /\ [][\A a \in Accounts :
          /\ status[a] \in {"FROZEN", "CLOSED"} => ledgerBalance'[a] = ledgerBalance[a]
          /\ status[a] = "CLOSED" => status'[a] = "CLOSED"]_vars

-----------------------------------------------------------------------------
(* The journal and the holds without what is derived from them: which      *)
(* accounts move, what each hold still keeps, what each entry did.         *)
Life    == [a \in Accounts |-> IF Usable(a) THEN "OPEN" ELSE status[a]]
Reserve == [h \in Holds |-> [accountId |-> hold[h].accountId,
                             amount |-> IF hold[h].status = "ACTIVE" THEN hold[h].amount ELSE 0]]
Entries == [i \in 1..Len(journal) |-> [reference |-> journal[i].reference,
                                       effects |-> journal[i].effects]]

Promise == INSTANCE BookPromise WITH
  life <- Life, limit <- overdraftLimit, reserve <- Reserve, entries <- Entries

(* The books keep BookPromise: the code decides on stored balances and     *)
(* hold totals and marks entries as reversed, and it comes to the same as  *)
(* reading the journal and the holds afresh each time, on books in which   *)
(* no entry is ever changed, replaced or booked again.                     *)
KeepsPromise == Promise!Spec
=============================================================================
