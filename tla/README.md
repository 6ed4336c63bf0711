# Verification of the Reliance Bank core

TLA+ models of the parts of the core banking API (`src/apps/api`) that move money, the TLC runs
that check them on small instances, and theorems about them that TLAPS proves for every value
of the constants. Every definition that stands for code has the lines it stands for in
`PROJECT.json` under `map`.

Contents: [the system](#the-system) · [the modules](#the-modules) ·
[AccountBook](#accountbook-the-books) · [TransactionRunner](#transactionrunner-why-a-transaction-is-one-step) ·
[BillPayments](#billpayments-debit-first-ask-later) · [CardAuthorisations](#cardauthorisations-reserve-then-claim) ·
[Transfers](#transfers-behind-idempotency-keys) · [CustomerServices](#customerservices-the-services-around-an-account) ·
[the runs](#the-runs) · [fairness](#fairness) · [what is proved](#what-is-proved) ·
[disagreements found](#disagreements-found) · [what is not modelled](#what-is-not-modelled) ·
[the plan](#the-plan) · [running it](#running-it)

## The system

One NestJS API over a MongoDB replica set, any number of instances of it. Customers, staff and
simulated outside networks reach it through controllers; interval timers in each process
(`jobs/scheduled-task.ts`) drive the rest. Nothing is shared between instances but the
database, so every race of the system is a race between documents read and documents written.

The components call each other like this:

```
 transfers   bill-pay   cards   mandates   loans/deposits/...   fees, interest
     |          |          |        |            |                    |
     |     biller rail   holds      |            |                    |
     v          v          v        v            v                    v
  ---------------------- PostingService (ledger/) ----------------------
                |                                  |
      journal entries + GL balances      AccountBalancePort (accounts/)
                |                                  |
  ------- TransactionRunner: one MongoDB transaction, versioned writes -------
```

A business operation reads what it needs, then runs one transaction in which it writes its own
record, posts an entry and, through the balance port, writes the balances of the accounts the
entry touches. What goes wrong between two transactions is the business of the component that
runs both.

### Inventory

The complete list, with the source files and what is modelled of each, is `components` in
`PROJECT.json`; every hazard, at its line, with the property that covers it or the reason none
does, is `hazards` there. This is the part of the system that keeps state worth arguing about.

| component | state | operations | what is hard | what makes it correct |
|---|---|---|---|---|
| Ledger (`ledger/`, `domain/ledger/`) | journal entries, GL balances | post under a reference, reverse, mark reversed | a retry of a posting that committed; a reversal of a reversal; two projections of one journal | one entry per reference; balances are what the journal adds up to; history is never edited |
| Accounts (`accounts/`) | status, ledger and available balance, overdraft limit | open, freeze, unfreeze, go dormant, close with or without a sweep | closure against late credits, reversals and holds; the stored availability, which one path moves by a delta and another recomputes | a closed account is empty; a frozen one does not move; availability is ledger less holds |
| Holds (`holds/`) | holds, `holdTotal` on the account | place, release, expire, capture in part or whole | four endings of one reserve; a denormalised total that closure trusts | `holdTotal` is the sum of the active holds; a hold is captured once |
| Overdraft (`overdraft/`) | facility (in process memory), limit on the account | request, suspend, close, daily interest, assessment | the limit falls while the balance is negative; facilities are gone after a restart | nothing takes an account below its limit |
| Transaction runner (`database/`) | none of its own; session and attempt | run, commit, retry | conflicts, aborts, a commit whose answer is lost, lock order | a work happens at once and at most once, and its answer is true |
| Bill payments and top-ups (`bill-pay/`) | payment status, `submittedAt` | book, submission pass, settle, refuse, refund, sweep | a crash between claim and answer; a late answer against the sweep; a batch that cannot be refunded | paid over or given back, once; the biller is asked once |
| Card authorisations (`cards/authorisation/`) | authorisation, its holds, capture and refund entries | authorise, increment, capture, reverse, refund, expire | decisions on figures read before the transaction; an expiry pass acting on a list read earlier | one reserve per open authorisation; ended payments stay ended |
| Transfers and quotes (`transfers/`), limits (`products/limits.service.ts`) | quotes, transfers, usage counters | quote, execute | two executions of one quote; a limit checked in one window and counted in another; an unknown commit | one transfer per quote; no window passes its limit |
| Idempotency keys (`idempotency/`) | key, request hash, stored answer | claim, complete, replay, release | a handler that committed and whose answer could not be stored; a key given back while others are served | one request at a time per key; answers are true |
| Interest (`interest/`) | accumulator, entries | accrue, capitalise | posting and stamp are two writes; accrual in between; days out of order | no interest appears or disappears in the accumulator |
| Mandates (`mandates/`) | mandate, its collections, entries | set up, pause, cancel, collect, refund | two collections on one day share a reference; cancellation between check and debit; two refunds of one row | what was taken is what a refund gives back, once |
| Term deposits (`deposits/`) | records in process memory, entries | place, break, mature, roll over | a store that takes no part in the transaction and forgets on a restart | record and journal agree (they do not: see below) |
| Payment requests (`payment-requests/`) | requests, transfers, reminders | raise, pay, withdraw, decline, expire, remind | payment against expiry against withdrawal | paid exactly when the money moved; every request ends |
| Savings goals (`savings-goals/`) | goals, vault movements, schedules | contribute, withdraw, close, save automatically | passes over a goal that moves or closes meanwhile; references told apart by a counter | the goal shows what the journal holds |
| Disputes (`disputes/`) | cases, provisional credits, resolutions | raise, answer, attach, decide, withdraw | everyone acts on the case as read; writes ask for nothing | never credited twice, never charged for what was not given |
| Fees (`fees/`, `products/fee.service.ts`) | register of charges, monthly counters | assess, charge | one allowance for two fees; the end of the month | register, counter and journal agree; the allowance is kept |
| Audit trail (`audit/`) | a hash chain | append, verify | every writer wants the tail; a verification while it grows | the chain never breaks |
| Loans, transfer orders, card lifecycle, settlement, FX, sessions, notifications | records with a status, some in process memory | see `components` | stale edits, partly stamped batches, single-use claims | not modelled yet |
| The rest (reports, statements, feed, insights, files, CMS, chat, tickets, KYC, products, RBAC, rails kernel, the web applications) | | | reads, content, I/O, presentation | see `components` |

## The modules

| module | models | size of its next-state relation |
|---|---|---|
| `Totals` | sums over `1..n`, as a recursive function | – |
| `AccountBook` | ledger, accounts, holds, overdraft limits: the books | 15 operations |
| `BookPromise` | what the books promise, in terms of entries and holds alone | 10 actions |
| `TransactionRunner` | `TransactionRunner.run` over MongoDB transactions | 9 steps of the client, 3 of the database |
| `AtomicWork` | what a caller of `run` is promised | 2 actions |
| `BillPayments` | bill payments and top-ups | booking, 9 steps of the pass, 4 of the sweep, faults, the account, time |
| `BillPromise` | what a bill payment promises about money | 3 actions |
| `CardAuthorisations` | card payments on one account | 19 steps |
| `IdempotencyKeys` | the interceptor around every request that moves money | extended by `Transfers` |
| `Transfers` | internal transfers, quotes, limits, behind idempotency keys | 14 steps of requests and time, 2 of the database |
| `TransferPromise` | what transfers promise the clients that ask for them | 7 actions |
| `CustomerAccount` | the business day, and one account's ledger balance and holds, shared by what follows | – |
| `Mandates`, `PaymentRequests`, `SavingsGoals`, `Disputes`, `TermDeposits`, `AuditTrail`, `Fees`, `Interest` | one service each | 4 to 9 steps each |
| `CustomerServices` | the eight services together | their steps, days, other money |
| `AccountBookProofs`, `JournalProofs`, `BillPaymentsProofs`, `CardAuthorisationsProofs`, `TransactionRunnerProofs`, `TransfersProofs`, `CustomerServicesProofs`, `TotalsProofs` | theorems and lemmas | – |
| `MC…` | constants for TLC | – |

How they fit together. `AccountBook`, `BillPayments` and `CardAuthorisations` make one
transaction one action. `TransactionRunner` is where that is justified: it takes the runner and
the database apart and is shown to implement `AtomicWork`, in which a work happens at one
instant, at most once, and is reported truthfully. `AccountBook` implements `BookPromise`,
`BillPayments` implements `BillPromise`, `Transfers` implements `TransferPromise`.
`BillPayments` and `CardAuthorisations` keep the little of an account that they need (its
status, its ledger balance, its reserve) with the same rules as `AccountBook` (`Usable`,
`WithinFloor`, postings booked once per reference); composing them with the whole book would
multiply states and say nothing more about them. `Transfers` does not: it keeps a
transaction's reads, writes and commit apart, because a client may be gone when the commit lands. `Transfers` extends `IdempotencyKeys`, whose
handler it is. `CustomerServices` composes the eight services around one account: they extend
`CustomerAccount`, whose variables they share, and keep to their own collections and reference
prefixes, so that a step of one is a change of day or of the account to another.

In each module, after the types, comes a section of *plausible mistakes*: alternative
definitions such as `REFUSABLE_Late`. They are no part of the specification. Each stands for a
bug somebody could write (a dropped guard, a wrong status list), and for every property there
is one that TLC reports when it takes the place of the definition it is named after
(`mutants` in `PROJECT.json`): no property here is one that no bug could break.

## AccountBook: the books

| variable | code |
|---|---|
| `status`, `ledgerBalance`, `availableBalance`, `holdTotal`, `overdraftLimit` | the fields of `Account` (`accounts/account.schema.ts`) |
| `facility` | status of the latest facility of the account (`overdraft/`) |
| `hold` | the holds collection |
| `journal` | the entries, in booking order; an entry's id is its place |
| `deposits` | the balance of GL 2000, Customer Deposits |

An entry is kept as what it does to each customer account, the sum of its legs. Its other legs
are whatever balances it: the code cannot construct an unbalanced entry. References are kept
as what they are made of (chosen by a caller, fixed by a hold, fixed by an account) under a
number of `REV-` prefixes, so that replays and derived references collide exactly when they do
in the code.

Actions: `Post`, `Reverse`; `PlaceHold`, `ReleaseHold`, `ExpireHold`, `CaptureHold`; `Open`,
`Freeze`, `Unfreeze`, `SweepDormant`, `CloseEmpty`, `CloseSweeping`; `RequestOverdraft`,
`SuspendOverdraft`, `CloseOverdraft`. `PostWithin` is the part shared by everything that posts:
the look-up of the reference, the refusals by status and floor, the entry, both projections,
and the activation of pending and dormant accounts that rides along with a balance write.

Left out: several currencies (a posting in another currency is refused first), limits and fees
of products, who may call what. A reason for a hold is one of two, because the code only tells
the holds that can be captured from those that cannot. Overdraft assessment grants any limit:
what the limit is, is data.

`BookPromise` is the same bank without anything that is derived: what was booked, in order; what
each hold still keeps; which accounts are open, frozen or closed; the limits. There is no stored
balance or availability, no `holdTotal`, no control account, no mark on a reversed entry, no
link from a hold to its entry and no facility. Funds, reserves and emptiness are worked out anew
at each step from the entries and the holds, and a replay is a step that changes nothing. That
`AccountBook` implements it says that whatever the code decides on the figures it stores, it
would decide likewise on the journal and the holds, and that an entry, once booked, is never
edited, moved or booked again. What it does not promise is as telling: a capture is borne by the ledger balance and not by
what is available, and a withdrawn limit leaves a debt where it is.

## TransactionRunner: why a transaction is one step

`at`, `attempt` and `sent` are the local state of one call of `run`; `snap`, `written` and
`server` are what MongoDB knows of its latest transaction; `store` is the committed documents,
each with its version and the works that are in it. What a work computes is left out: it
writes the accounts in `Touches`, one at a time, in any order.

Client: `Begin`, `Write`, `Conflicted` (a write conflict or a failed version check, which
`writeBalances` labels as transient), `Aborted`, `Reject` (an error of the work's own),
`Commit`, `Committed`, `Unknown` (no answer: the commit alone is sent again), `Die`. Database
(outside `src/`, modelled from how the runner uses it): `Land` (a commit that was sent takes
effect, perhaps after the client has stopped listening), `GiveUp` (an election, a time-out).
`Patch` is `AccountRepository.patch` outside a transaction.

Left out: the length of the backoff (any interleaving of attempts is explored), the log lines.

## BillPayments: debit first, ask later

`status`, `due`, `submittedAt` and `stranded` are the payment; `booked` is the set of journal
references derived from payment ids, `unsettled` the balance of UNSETTLED_OUTBOUND; `account`
and `balance` the customer's account; `pass` and `sweep` what the two scheduled tasks of each
instance hold between two database operations, which is what a crash loses; `calls` and `taken`
what the biller was asked and said.

- Booking: `Book` (payment or top-up, due now or later) is row and debit in one transaction.
- The submission pass: `StartPass`, `Claim` (the conditional write, then the call), `Resume`
  (a payment somebody else has), `Answer` (accepted or refused; silence is a refusal), then
  `Complete`, `LateAcknowledgement` or `FeeRefused` on one side and `Refuse`, `Refund` on the
  other.
- The refund sweep: `StartSweep` reads the oldest stranded payments with their status of then,
  `Recover` acts on that status, `SweepRefuse` and `SweepRefund` make the same two writes as
  the pass, but step over a payment that fails where the pass gives up the batch.
- Around them: `FallsDue`, `Strands` (business time), `SpendAll`, `Freeze`, `Unfreeze`, `Close`
  (the rest of the bank), `Crash`, `DatabaseError`.

Time is kept as two facts per payment, "scheduled for now or earlier" and "claimed longer ago
than the threshold", because nothing else is read from a clock. With `ClockJumps` the
second may become true during a live call: the operators' console moves the business clock.

## CardAuthorisations: reserve, then claim

`auth` and `hold` are the two collections, `captureEntry` and `refundEntry` the journal by
reference, `offer` what has been decided and not yet booked, `sweep` what each caller of the
expiry pass remembers, `account`, `balance`, `holdTotal` the account and `charged` the fees
that were taken without looking at the reserve (a history variable, for `ReserveCovered`).

`Evaluate` reads ceilings and funds and decides; `Approve`, another step, books the approval
and checks the funds again. `Increment`, `Capture`, `Reverse`, `Refund` and the hold sweep's
`ExpireHold` are one transaction each. The expiry pass is not: `StartSweep` lists,
`CloseExpired` writes the status, `RequireHold` reads the hold the list named and
`ReleaseExpired` releases it, with `CrashSweep` anywhere. `Spend`, `Charge`, `SetAccount`,
`NewDay` and `Lapse` are the rest of the bank and time.

Left out: what makes a card refuse (status, PIN, controls) is one action, `Refuse`; several
spend windows are one, the tightest; the merchant, the gateway and settlement batches.

## Transfers: behind idempotency keys

`key` is the collection of idempotency keys, `call` what each request being served has reached;
`expiresAt` the quotes, `journal` the quotes whose entry is booked, `countedAt` the transfer rows
(with the moment their usage was recorded), `available` the source account, `dayUsage` and
`monthUsage` the usage counters, `work` the transaction a request is in, and `pending` the
transfer that is written and neither committed nor aborted, with the moment it is counted at.

`Request` claims a key, is turned away or gets a replay; the handler is `FindWinner`, `Clear`
(all checks pass on the transaction's snapshot), `Refuse`, `Write` (entry, usage and row),
`Book` (the answer to the commit), `BookUnsure` (no answer to any attempt at it), `Restart` and
`Duplicate`; `Respond` stores the answer, fails to, or gives the key back. `Crash` drops a request
anywhere, `Forget` is the TTL index, `Tick` moves business time. The database takes its own
steps: `Land` puts what is pending in place and `GiveUp` drops it, whether the request that wrote
it is still there, has been told that the outcome is unknown, or died with its process. The
transactions of one source account all write the account first, so only one can have writes
pending, another that comes to write meanwhile conflicts, and a commit makes every other open one
stale; `TransactionRunner` is the module about why. Quotes are numbered in the order in which
they are priced.

A request asks for a quote under any key, so that a retry under the same key, under a fresh
one, and under the key of another request by mistake are all there.

`TransferPromise` is what of this a client can rely on. It knows when each quote was paid
(`paidAt` is `countedAt`), who waits for an answer to what, what each was told, and which quotes
are in `doubt`: somebody was left without an answer, and they may yet be paid or come to nothing.
There are no keys, transactions, snapshots, counters or balances in it. A quote is paid in one
step, once, while somebody waits for it or was left in doubt about it, if the funds and all limits
*of the moment it is counted at* bear it, worked out from the quotes that were paid before and
when. A check that was made on another day, against counters, on a snapshot, has to come to the
same; and so has a commit that lands days after the transaction that wrote it was checked.
What is not promised is as much part of it. A client need not be told of a payment that was made.
A payment in doubt is counted at a moment that may have passed when it is made. And a quote may
have lapsed by the time it is paid: `requireExecutable` is the first thing that the booking
transaction asks, and nothing asks again before it writes.

Left out: transfers over outside rails and their fees, step-up, payees (all of which only
refuse), and the text of answers. An answer is the quote whose result it is.

## CustomerServices: the services around an account

Each module keeps what its service reads in one step and uses in another: `collector`
(`Mandates`), `reminder` (`PaymentRequests`), `saver` (`SavingsGoals`), `handler` (`Disputes`),
`clerk` (`TermDeposits`), `writer` and `verifier` (`AuditTrail`), `assessor` (`Fees`), `accruer`
(`Interest`). Whoever holds something may also put it down: a refusal, a failed transaction and
the death of the process look alike to the rest.

Of the account they share they see the ledger `balance`, counted from its floor, and what holds
reserve of it, `held`. A service that spends the customer's money asks `assertSufficientFunds`
first, which takes holds into account (`Covers`). A fee and the reversal of a dispute's credit are
posted without asking, so that all that stands before them is the floor of the posting itself
(`AboveFloor`): they may leave less than what is reserved.

- `Mandates`: `SetUp`, `SetStatus`; `List`, `Ask` (the mandate is read and checked), `Collect`
  (the transaction: debit and settlement under references of the day, a row, the next date);
  `Dispute` and `Refund`. Entries are indexed by mandate and day, as their references are.
- `PaymentRequests`: `Raise`, `Pay`, `Close`, `Expire`, and the two halves of a reminder. Paying
  is one step, because the condition of its last write repeats every check of its first read.
- `SavingsGoals`: `Create`, `Contribute` (of the customer, or from round-ups), `Withdraw`,
  `CloseGoal`, `SetAutoSave`; a pass is
  `StartSaving`, `SaveOne` for each occurrence it missed, `Reschedule`.
- `Disputes`: `OpenCase`; `Handle` reads a case, and `Represent`, `Attach` or `Settle` writes it
  under no condition. A decision's entries are worked out from the case as read.
- `TermDeposits`: a placement or closing writes the record in one step and commits its entry in
  the next; `Abort` between the two undoes nothing, `Forget` is a restart.
- `AuditTrail`: `ReadTail`, `AppendEvent`, `LoseRace`, `Swallow`, and `VerifyNext`, a batch at a time.
- `Fees`: `Assess` (no charge under the key yet), and then in a transaction `OpenWindow` (the clock
  says which month's counter to read), `Price` (the counter, on the snapshot), `Count` (the clock
  again, for the month to count in), `Charge` (the clock once more, for the day); `Restart` is a
  write conflict. Two counted in one month conflict, two counted in different months do not.
- `Interest`: `StartAccrual` and `Accrue`; `StartCapitalisation`, `PostInterest` and `Stamp`.

## The runs

| run | instance | shows |
|---|---|---|
| `book_postings` | 2 accounts, the second sold on a minimum balance of 2; 1 hold, 2 references, amounts to 2, one reversal level | `AvailabilityExact`, `ControlExact`, `JournalExplains`, `BookedOnce`, `ReversalExact`, `FrozenAndClosedStand`, `KeepsPromise` (the refinement): the projections never disagree, what is booked is booked once, a frozen or closed account stands still |
| `book_holds` | 1 account, 2 holds, an overdraft of 1 | `HoldsExact`, `CaptureExact`, `WithinFacility` |
| `bill_races` | 2 payments of one account, 2 instances with a pass and a sweep each, one fault anywhere, clock jumps; the instances are symmetric | `TypeOK`, `EntriesMatchStatus`, `InFlightExact`, `SubmittedOnce` |
| `bill_settles` | 2 payments of two accounts, 1 instance, one fault, batches of 1 | `KeepsPromise` (the refinement), `Settles` (liveness) |
| `bill_accepted` | 1 payment with a fee, no fault, no clock jump | `AcceptedStands` **fails** |
| `card_reserves` | 2 authorisations, an increment each, 2 callers of the expiry pass, crashes | `TypeOK`, `ReserveExact`, `HoldTotalExact`, `ChargedExact`, `ReserveCovered`, `EndingStands` |
| `card_endings` | 1 authorisation, 1 increment, 1 caller | `EndedGivesHoldBack` **fails** |
| `card_ceiling` | 2 authorisations, a ceiling of 2 | `WithinCeiling` **fails** |
| `runner_atomic` | 2 calls over the same 2 accounts, 2 attempts and 2 commits each, 1 write outside transactions, all faults | `AppliedOnce`, `WorksAtOnce` (the refinement), `Answered` (liveness) |
| `payments_retried` | 3 quotes (2, 1 and 1) on one account with 3 to spend, 2 requests served at once under 2 keys, 3 days of which the second begins a month; one transfer a day, amounts to 2 a day and a month; calls and keys are symmetric | `TypeOK`, `TransferOnce`, `LimitsHeld`, `AnswersTrue`, `OneHandler`, `KeepsPromise` (the refinement) |
| `customer_services` | 3 days, a balance to 2 and holds to 1, and a customer for each service: 1 mandate with 2 rows, and 2 collections or refunds at a time; 2 requests and 2 reminders; 1 goal saving every 2 days, and 2 passes; 1 dispute and 2 handlers; 2 deposits; 3 events, 2 attempts each; 2 fees, 1 free in a month of 2 days; 2 interest runs | `TypeOK`, `GuaranteeOnce`, `PaidExactly`, `VaultExact`, `CreditedOnce`, `ChainUnbroken`, `AllowanceKept`, `AccrualConserved`, `RequestsEnd` (liveness) |
| `deposits_funded` | 2 deposits, 2 calls at a time | `EveryDepositFunded` **fails** |

Why the bounds are enough to be worth running. Two of everything that races: two instances
(each with its pass and its sweep), two callers of the expiry pass, two transactions; every
hazard listed is a race of two. Amounts go to 2 so that a part differs from a whole (part
capture, part refund, part of a balance) and an amount from a minimum. One reversal level lets
an entry be reversed, the reversal be replayed, and the bound on references refuse the next
one. A batch of one makes a batch full of unrefundable payments one payment. One fault per run
suffices for each single crash or failed transaction at every point; that any number does no
harm to the invariants is what the theorems add. The clock, ceilings and budgets reach their
limits within the instance. In `customer_services` a customer uses one service (`Customers`):
the services share nothing but the day and the funds, and `NextDay` and `Elsewhere` already
move those in every way another service could; all eight at once would multiply the states and
add no step that any of them can tell from these. Three days hold a due date, the day after
it, and the end of a window (of the guarantee, of a month, of a request's life). Holds to 1
under a balance to 2 give an account that bears a fee and no purchase.

In `payments_retried` the funds, the count of a day and the amount of a month each refuse a
payment that the other limits would let through: 2 and 1 and 1 over two months are more than the
3 there are, 1 and 1 in one day are two transfers, 2 and 1 in one month are 3. With these three
quotes `PerTransaction` and `DailyAmount` never bind on their own; they are compared in the same
way, and `LimitsNeverPassed` and `PromiseKept` are about all values of the four. A quote is told
from another of its amount by its age alone; pricing them in the order of their numbers leaves
out the orders in which the quote of 2 is not the oldest.

`CHECK_DEADLOCK FALSE` is set where the system may come to rest: bill payments when all are
dealt with, cards when every authorisation asked for has ended, the runner when every call is
answered, transfers and the services when their bounds are used up. The books never come to rest: the account can always be
frozen and unfrozen.

The properties that say most:

- `AvailabilityExact`: postings add a delta to `availableBalance`, holds recompute it from the
  two others; no order of the two lets it drift.
- `HoldsExact`, `FrozenAndClosedStand`: closure looks at `holdTotal` and never at the holds, so
  that a closed account stays empty depends on the first.
- `CaptureExact`, `ReversalExact`: the record that says it happened and the entry that made it
  happen are there together or not at all.
- `KeepsPromise` of `AccountBook`: every decision on a stored figure is the one the entries and
  the holds would give, and no step, replay or mark edits what was booked.
- `EntriesMatchStatus`: settled exactly when COMPLETED and reversed exactly when REFUNDED,
  however a late answer, a sweep on stale records and a crash are ordered.
- `Settles`: every payment taken is settled or refunded, provided that from some point on its
  account takes credits *and fewer than a whole batch of payments cannot be refunded*. The
  second condition is a fact about the code: the sweep reads the oldest
  `REFUND_SWEEP_BATCH_SIZE` and would read the same ones for ever.
- `ReserveExact`: an open authorisation has exactly one active hold, the one it names, of its
  own amount, whatever the passes remember.
- `ReserveCovered`: what is reserved is there, short of nothing but fees. A fee is checked
  against the ledger balance and not against what is spendable, so without `charged` the
  property would not hold.
- `TransferOnce`: keys are given back while a payment may have been made, and a retry under a
  fresh key is a request of its own; the quote, its unique row and the entry's reference are
  what is left, and they suffice.
- `LimitsHeld`: a transfer is checked in one window and counted in another, and the counters
  bound what happened only because the check and the count are one transaction that any other
  makes stale.
- `KeepsPromise` of `Transfers`: all of the above at once, seen from outside; and what no
  invariant says, that the limits bear a payment at the moment it is counted at though the commit
  may land later, and that it is made for somebody who waits for it or was left in doubt.
- `GuaranteeOnce`: two collections on a day share their entries but not their rows, and a refund
  is by entry; `collectionOf` takes the first row, which is the one whose amount was taken.
- `CreditedOnce`: writes overwrite each other and a decided case may be decided again; it is
  the references of the entries, and the order in which they can appear, that keep the money right.
- `ChainUnbroken`: no writer breaks the chain, a verification that overlaps with writers
  does not call it broken, and a writer gives up only when others got through.
- `AllowanceKept`: register, journal and counters agree, and of the fees that one month both
  priced and counted no more than its allowance are free. Those are the fees whose check and count
  met in one document; nothing more can be said, since a month may end between the two.
- `AccrualConserved`: the accumulator that was read earlier is still so when it is written, or
  the write is refused.
- `WorksAtOnce`: the runner, its conflicts, replays and lost answers included, is an atomic step.

## Fairness

`BillPayments`: weak fairness of each instance's pass and of its sweep, of a payment falling due
and of it passing the stranding threshold. The tasks are started by `setInterval` for as
long as the process lives, a crashed instance is started again, neither task waits for the
other (each only refuses to overlap itself), the biller rail always answers (`submit` turns a
time-out into a refusal), and time passes. Nothing is assumed of the customer, the bank's
staff or the faults; faults are bounded, so that they stop.

`TransactionRunner` (`LiveSpec`): a live process takes its next step, the server carries out a
commit it received or gives it up, and ends transactions whose client is gone.
Backoff is bounded and so are attempts, so weak fairness is enough and nothing is assumed about
who wins a conflict.

`CustomerServices`: weak fairness of the day turning, and of the expiry of each request that
has lapsed. `PaymentRequestExpiryTask` is started at an interval in every process and lists the
oldest lapsed requests first; each pass ends every one it listed, so none stays behind for ever.
Nothing is assumed of customers, staff, or of any other service.

`AccountBook`, `CardAuthorisations` and `Transfers` state no liveness. In particular nothing in the
repository calls `HoldService.expireDue` or `AuthorisationLifecycleService.expireDue` on a
schedule (`src/docs/HANDOFFS.md` asks for it), so no fairness of the expiry passes would be
honest.

## What is proved

For every value of the constants the assumptions admit (any number of accounts, holds,
payments, authorisations, instances, callers, amounts and faults); the assumptions are the
named `ASSUME`s of the modules and only say that sizes are naturals and tables are functions.

| module | theorem | statement |
|---|---|---|
| `AccountBookProofs` | `TypeCorrect` | `Spec => []TypeOK` |
| | `ControlIdentity` | `Spec => []ControlExact` |
| | `AvailabilityNeverDrifts` | `Spec => []AvailabilityExact` |
| | `HoldTotalIsTheHolds` | `Spec => []HoldsExact` |
| | `NeverBeyondFacility` | `Spec => []WithinFacility` |
| `JournalProofs` | `NeverBookedTwice`, `JournalExplainsBalances` | `[]BookedOnce`, `[]JournalExplains` |
| | `ReversedOnce`, `CapturedOnce` | `[]ReversalExact`, `[]CaptureExact` |
| | `FrozenAndClosedHold` | `Spec => FrozenAndClosedStand` |
| | `PromiseKept` | `Spec => KeepsPromise` |
| `BillPaymentsProofs` | `TypeCorrect`, `JournalAgrees`, `NothingLostInBetween`, `NeverAskedTwice` | `[]TypeOK`, `[]EntriesMatchStatus`, `[]InFlightExact`, `[]SubmittedOnce` |
| | `PromiseKept` | `Spec => KeepsPromise` |
| `CardAuthorisationsProofs` | `TypeCorrect`, `ReserveIsExact`, `HoldTotalIsExact`, `ChargedIsExact`, `ReserveIsCovered` | the five invariants of `card_reserves` |
| | `EndingsStand` | `Spec => EndingStands` |
| `TransactionRunnerProofs` | `TypeCorrect`, `AtMostOnce` | `[]TypeOK`, `[]AppliedOnce` |
| | `Implements` | `Spec => WorksAtOnce` |
| `TransfersProofs` | `TypeCorrect`, `PaidOnce`, `LimitsNeverPassed`, `AnswersAreTrue`, `OneAtATime` | the five invariants of `payments_retried` |
| | `PromiseKept` | `Spec => KeepsPromise` |
| `CustomerServicesProofs` | `RequestsPaidExactly`, `DisputesCreditedOnce`, `InterestConserved` | `[]PaidExactly`, `[]CreditedOnce`, `[]AccrualConserved` |
| | `GoalsVaultExact`, `MandatesGuaranteeOnce`, `FeesAllowanceKept` | `[]VaultExact`, `[]GuaranteeOnce`, `[]AllowanceKept` |
| | `AuditChainUnbroken`, `ServicesTypeCorrect` | `[]ChainUnbroken`, `[]TypeOK` |

The arguments:

- **Sums.** `TotalsProofs` proves what `Total` does: its type, what a change at one place does
  to it, that it is additive, bounded and extended by one. `Total` is a recursive function
  over the naturals; induction goes through the set of the numbers for which a lemma holds.
- **Books.** `MoneyStep`: whatever a step is, it moves the balances by some effect and the
  control account by the effect's total, and unless the effect is empty `Postable` let it
  through. `ControlExact` and `WithinFacility` follow; availability and holds need
  one lemma for each way a reserve comes and goes. `WithinFacility` is not inductive by itself:
  its strengthening adds that an account without an active facility has no limit.
- **Journal.** Every entry is appended by `PostWithin`, which has looked its reference up. The
  strengthening says which references may exist at all: those of a hold only with a captured
  hold, those of a reversal only with the entry they undo marked as reversed by them.
- **Books and their promise.** The promise computes what the books store: `JournalExplains` makes a
  balance the sum of its entries (`BalanceSeen`) and `HoldsExact` makes `holdTotal` the sum of what
  the holds keep (`ReservedSeen`), so every guard has the same value on both sides. `PostWithin` is then
  one booking, or none when the reference is there (`PostWithinSeen`). Where the promise has no replay
  there must be none: `ReversalExact` rules it out for an unmarked entry, `CaptureExact` for an active
  hold, `ClosedHolds` for the sweep of an account that is not closed; `LimitNeedsFacility` says that a
  limit is granted only where there is none. Every other write (dormancy, activation, marks, links,
  facilities) is one the promise does not see.
- **Transfers.** Four parts join the properties to make them inductive: `Clearance` (a request
  whose checks passed, and whom nobody has overtaken, still finds its quote unbooked, its funds
  and its allowance in the windows of any later moment), `PendingHolds` (so does the transfer
  that is written, in the windows it is counted in, for as long as it is pending, and whoever wrote
  it and is still there serves that quote), `KeysServe` (a key under which a request
  is being served is in flight for that very request, or already completed by it) and
  `NothingAhead` (the windows after now are empty). `StepCases` sorts the actions into those
  that touch the interceptor only, and those that book.
- **Bill payments.** `StepIsAMove`: whatever a step does to the tasks, it leaves payments and
  journal alone or moves one payment along one of the five arrows of its life, with
  the entries that belong to the arrow. Each invariant and each step of the refinement is then
  about five arrows instead of twenty actions.
- **Cards.** `Sound` says of one authorisation, its holds, its age and its entries all that has
  to be true, as a statement about values; `OneChanges` says that a step changes one of them.
  The invariant adds what the passes and offers may remember: a pass past its first write is on
  an authorisation it expired itself (`PassesSound`), an offer is not in the collection yet.
  `ChargedExact` needs that the suffix of the next refund is free, which is what `EntriesSound`
  says.
- **Runner.** `Locked`: what an open transaction has written is still what its snapshot shows
  and nobody else's, so that `Land` puts in place what is there and its own work. `Linked`: the
  runner starts over only when the server has given the transaction up. `Booked`: the store
  holds a work exactly when its latest transaction committed. Together they are inductive.

- **Services.** The services of a customer share the clock and the account's funds and nothing
  else, so each has an invariant over its own variables and the clock: a step of another service
  leaves the first alone (`RequestsAlone` and its like), and the clock never goes back
  (`ClockTurns`). What each adds to its property is what somebody may still remember:
  `HandlersRead` (a case that was read open had its amount parked, or taken back by now),
  `RunsRead` (what a capitalisation read is current unless a later period was stamped, and then
  its stamp is refused), `EntriesNumbered` (no entry of a goal carries a number the goal has not
  reached), `CollectorsRead` (a refund is for what was debited on the day) and `AssessorsFit` (an
  assessment's readings of the clock are in order; one priced free fits the allowance of the month
  that priced it for as long as it may be counted there; and no two are counted in one month
  at the same time).

- **Transfers and their promise.** The interceptor, the handler and the database are taken in turn.
  The step that pays is `Land`. `LandingIsBorne` derives from `PendingHolds` that whatever the checks
  were made against, the quote fits what has been paid by the moment it lands, in the windows it
  is counted in; and from `TransferOnce` and `LimitsHeld` that balance and counters are the sums
  over the quotes paid. Whoever wrote the pending transfer waits for it, or has gone and left it in
  doubt: `OwnerLeaves` is the step that leaves (an answer that says nothing, or a crash),
  `GiveUpKeepsPromise` the one by which what is in doubt comes to nothing. Every other step of
  a handler changes nothing a client sees, or is an answer (`HandlerKeepsPromise`).
- **The audit trail.** `Numbered`: the events are numbered from one without a gap, so that the
  number of the last is how many there are. `WritersChained`: what a writer chained onto is a place of the
  trail (`Ends`), so an insert whose number is free can only go right after the last event; and the trail
  has grown by at least the attempts a writer lost since it began, which is what a writer that gives
  up has to show. `VerifierAhead`: a verification has got to a place of the trail too, and the
  next batch continues from there whatever was appended since the last (`BatchIsAStretch`,
  `BatchLinks`).
- **The types of the services.** That no service takes the ledger balance they share below its
  floor is not about any of them alone: each checks what it debits against the balance of the
  moment it posts (`…Funds`, which all come to `FundsKept`), and the company it keeps can only have
  moved it to another place above the floor. Nothing is claimed of what is available: fees and
  reversals may eat into what holds reserve, and holds may exceed the balance.
  The rest of each type comes with the service's own invariant.

What this covers: every invariant and every action property of every passing run is a theorem,
and all four refinements are. Only model-checked are the liveness properties `Settles`,
`Answered` and `RequestsEnd`. Out of the prover's reach: liveness under fairness and
`ENABLED`; induction over data where the library's theorems take an operator as parameter; any
module that declares a RECURSIVE operator, which is why there is none here. The type invariants
of `AccountBook` and `TransactionRunner` are theorems and not checked by a run.

## Disagreements found

Each is a run in which TLC finds the statement of a comment or a test violated by what the code
does. Details and quotations are in `findings`.

1. **A payment the biller accepted may be refunded** (`bill_accepted`). The fee is posted with
   the settlement and is not covered by the check at booking. When it is refused, both
   roll back, and the sweep takes the payment for one nobody answered.
2. **An expired authorisation may keep a hold** (`card_endings`). The expiry pass looks at the
   hold its list named; an increment in between has replaced it, and the new one stays active
   until the hold sweep.
3. **Two authorisations may pass one ceiling** (`card_ceiling`). The ceiling is read before the
   transaction that books the approval and is not read again in it.
4. **A deposit may be active and not funded** (`deposits_funded`). The store bound in
   `deposits.module.ts` is in memory and ignores the session, so a refused posting leaves
   the record; the tests roll the store back themselves.

What else came up while modelling, and is in the models but not a run of its own:

- A refused bill payment is never refunded when its account was closed, or frozen for good, in
  between; closure asks nothing of bill payments (`account-closure.service.ts:84`), although
  `bill-submission.service.ts:27-29` promises the money back. It is a condition of `Settles`.
- A pending account can be debited: `MOVEMENT_REFUSALS` does not list PENDING, though
  `account.factory.ts:90-91` says such an account can be credited and nothing else.
- A second collection of a mandate on one day adds a row and moves nothing; across midnight two
  passes over one list debit twice, as the reference changes with the day, although
  `mandate-collection.task.ts:14-22` says that overlapping passes cannot.
- Two reminders at the same time can pass `MAX_NUDGES`: the write does not repeat the check.
- An automatic saving pass that fails midway repeats, the next day, the occurrences it had made;
  and it writes back a schedule that the customer changed meanwhile.
- A decided dispute can be opened and decided again (`dispute.repository.ts:82` writes under no
  condition), although `domain/dispute-lifecycle.ts:21` says that it never moves again. The
  customer's money is right all the same (`CreditedOnce`); the status, and the summary, may not be.
- Interest is posted and then stamped. When the process dies in between and a day is accrued
  before the retry, the accumulator gives up more than was paid under the period's reference.
  A day on which no run was made is never accrued, once a later one has been.
- The month that prices a fee, the month that counts it and its date are read from the clock one
  after another (`fee.service.ts:106`, `fee.service.ts:91`, `fee-posting.service.ts:99`). When a
  month ends in between, a fee is free by the allowance of one month and uses up that of the next,
  and two fees that are free by the same month's last allowance do not conflict.
- A retry of a transfer under a fresh key, after its answer was lost and its quote expired, is
  told that the quote expired: expiry is checked before the transfer is looked up
  (`transfer-execution.service.ts:58`).
- Nothing in the repository schedules the interest runs or `DepositMaturityService.run`.
- A failed append to the audit trail is logged and swallowed by the interceptor, after the change
  it records has been made.

## What is not modelled

Per component, with the reason, in `PROJECT.json`. In short: reads (reports, statements, feed,
insights), content and messaging, cryptographic checks, file storage, the web applications and
generated clients have no transitions a model would say anything about. Money is whole minor
units in one currency, so rounding and allocation are not covered yet. Documents are written
whole and indexes are taken to be unique where the schema says so. HTTP, guards and
validation are taken to do what they say: the models start at the services.

Components with state of their own that are not modelled yet are in the plan.

Some hazards are known and no property covers them: the ones `hazards` lists with a note, and
three of the same patterns elsewhere. A batch of mandates that cannot be collected keeps its
place and starves younger ones (`mandate-collection.service.ts:99`), the pattern of `Settles`.
Two settlement runs may stamp the same items (`card-settlement.service.ts:89`). Amending a
transfer order undoes a skip made in between (`transfer-order-lifecycle.service.ts:156`).

The greater part of the repository by volume is not in the models and is not meant to be: three
web applications, the component library, contracts, mocks, seeds and fixtures, and the read
side of the API. The API's services with transitions of their own are what is modelled.

## The plan

In order of how much money depends on it. The first seven steps are done.

1. `AccountBook` implementing `BookPromise` – the books, with the journal's theorems. *Done.*
2. `BillPayments` implementing `BillPromise`. *Done.*
3. `CardAuthorisations`. *Done.*
4. `TransactionRunner` implementing `AtomicWork`. *Done.*
5. `IdempotencyKeys` and `Transfers` implementing `TransferPromise`, with theorems. *Done.*
6. `Mandates`, `PaymentRequests`, `SavingsGoals`, `Disputes`, `TermDeposits`, `AuditTrail`, `Fees`,
   `Interest`, composed in `CustomerServices`. *Done*, with theorems about
   every property of theirs but the liveness of requests.
7. The liveness of requests and bill payments. *Done.*
8. `LoanServicing`, `OverdraftFacility`: records in process memory beside a transaction that may
   be run again or abort; restarts.
9. `CardSettlement`, `CardLifecycle` on top of `CardAuthorisations`; `TransferOrders`; conversions
   on top of `Transfers`.
10. `Portfolio`: the cap on open accounts and the one primary account of a customer, over
    transactions that read several accounts and write one.
11. `SessionRotation`, `Delivery`, `LedgerRepair`.
12. The money library: `allocate` and the roundings as functions, against a reference.

## Running it

In this directory:

```
tlasany AccountBook.tla                                  # parse
tlc -workers 2 -config BookPostings.cfg MCAccountBook    # a run; PROJECT.json names module and cfg
tlapm AccountBookProofs.tla                              # proofs
```

The largest runs (`payments_retried`, `customer_services`, `card_reserves`, `bill_races`) have
between 410,000 and 850,000 states; each finishes within a few minutes.
