------------------------------- MODULE Transfers -------------------------------
(***************************************************************************)
(* Internal transfers (transfers/) under the limits of the source account  *)
(* (products/limits.service.ts), behind the idempotency keys.              *)
(*                                                                         *)
(* A transfer is priced by a quote, which lives a quarter of an hour, and  *)
(* executed in one transaction: checks against a snapshot, then the entry, *)
(* the day's and the month's usage, and the transfer itself.  Every such   *)
(* transaction writes the source account first, so while one has writes    *)
(* that are neither committed nor aborted, another that comes to write, or *)
(* that read before it commits, conflicts and is run again                 *)
(* (TransactionRunner is the module about that).                           *)
(*                                                                         *)
(* Those writes stay with the database.  If the process that made them     *)
(* dies, or gives up on the answer to its commit, they may be committed    *)
(* later, or be dropped.                                                   *)
(*                                                                         *)
(* Quotes are numbered as they are priced, and all are drawn on one        *)
(* account.  A quote is also the body of the request that executes it.     *)
(* Internal transfers have no fee (feeKindFor), so the debit is the        *)
(* credit.  Business time runs in ticks, a fixed number to a day and to a  *)
(* month.                                                                  *)
(***************************************************************************)
EXTENDS IdempotencyKeys, Totals

CONSTANTS
  NumQuotes,       \* bound: quotes that are ever priced
  Amount,          \* Amount[q]: what quote q pays
  Funds,           \* bound: what the source account can spend
  Ttl,             \* QUOTE_TTL_MINUTES, in ticks
  DayLength,       \* ticks in a day
  MonthLength,     \* ticks in a month, whole days
  MaxTime,         \* bound: the last tick
  PerTransaction,  \* LimitMatrix.perTransaction
  DailyAmount,     \* LimitMatrix.daily
  DailyCount,      \* LimitMatrix.dailyCount
  MonthlyAmount    \* LimitMatrix.monthly

Quotes == 1..NumQuotes

ASSUME TransferAssumption ==
  /\ NumQuotes \in Nat \ {0} /\ Bodies = Quotes
  /\ Amount \in [Quotes -> Nat \ {0}]
  /\ Ttl \in Nat \ {0} /\ DayLength \in Nat \ {0} /\ MonthLength \in Nat \ {0}
  /\ MonthLength % DayLength = 0
  /\ {PerTransaction, DailyAmount, DailyCount, MonthlyAmount} \subseteq Nat

ASSUME TransferBoundsAssumption == Funds \in Nat /\ MaxTime \in Nat \ {0}

VARIABLES
  now,         \* ClockService.now
  expiresAt,   \* Quote.expiresAt; 0 before the quote exists
  journal,     \* quotes whose transfer entry is in the journal
  countedAt,   \* when the usage of a quote's transfer was recorded; 0 without a transfer
  available,   \* what the source account can spend
  dayUsage,    \* UsageCounter of each day
  monthUsage,  \* UsageCounter of each month
  work,        \* the transaction a request is in
  pending      \* the transfer that is written and neither committed nor aborted

ledger == <<journal, countedAt, available, dayUsage, monthUsage>>
vars   == <<key, call, now, expiresAt, journal, countedAt, available, dayUsage,
            monthUsage, work, pending>>

Times  == 1..MaxTime
Day(t)   == t \div DayLength
Month(t) == t \div MonthLength
Days   == 0..Day(MaxTime)
Months == 0..Month(MaxTime)

UsageCounter == [total : Nat, count : Nat]

(* none: no transaction; cleared: the checks passed, on a snapshot that    *)
(* still is the latest; stale: it is not, or the transaction was dropped;  *)
(* written: its writes are the pending ones; committed: they took effect.  *)
Work == {"none", "cleared", "stale", "written", "committed"}

(* Whose writes they are, and the moment whose windows they count in.      *)
NoPending == [quote |-> None, at |-> 0]
Pending   == [quote : Quotes \cup {None}, at : Times \cup {0}]
Unwritten == pending = NoPending

-----------------------------------------------------------------------------
(* Plausible mistakes, each named after the definition it would replace.   *)

Breach_NoCount(q, t) ==
  \/ Amount[q] > PerTransaction
  \/ dayUsage[Day(t)].total + Amount[q] > DailyAmount
  \/ monthUsage[Month(t)].total + Amount[q] > MonthlyAmount
Covered_WhenQuoted(q) == TRUE
Overtaken_Never(d) == work[d]
Restart_Posted(c) ==
  /\ At(c, "executing") /\ work[c] = "stale"
  /\ journal' = journal \cup {call[c].body}
  /\ work' = [work EXCEPT ![c] = "none"]
  /\ UNCHANGED <<interceptor, now, expiresAt, countedAt, available, dayUsage, monthUsage, pending>>
-----------------------------------------------------------------------------
(* Quotes.                                                                 *)

(* LimitsService.check: findBreach over the transaction and the windows a  *)
(* moment falls into, which is now whenever it is asked.                   *)
Breach(q, t) ==
  LET day == dayUsage[Day(t)]
      month == monthUsage[Month(t)]
  IN
  \/ Amount[q] > PerTransaction
  \/ day.count + 1 > DailyCount
  \/ day.total + Amount[q] > DailyAmount
  \/ month.total + Amount[q] > MonthlyAmount

(* TransferQuoteService.priceAndStore: a quote reserves neither money nor  *)
(* allowance.                                                              *)
Quote(q) ==
  /\ \A p \in Quotes : expiresAt[p] # 0 <=> p < q
  /\ ~Breach(q, now)
  /\ expiresAt' = [expiresAt EXCEPT ![q] = now + Ttl]
  /\ UNCHANGED <<interceptor, now, ledger, work, pending>>

(* requireExecutable.                                                      *)
Executable(q) == expiresAt[q] > now

-----------------------------------------------------------------------------
(* TransferExecutionService.run, in a transaction.                         *)

(* findByQuote.                                                            *)
AlreadyBooked(q) == countedAt[q] # 0

(* assertFunds and the limits, once more.                                  *)
Covered(q) == available >= Amount[q]
Refused(q) == ~Covered(q) \/ Breach(q, now)

(* A transfer the quote already has is the answer, money or not.           *)
FindWinner(c) ==
  LET q == call[c].body IN
  /\ At(c, "executing") /\ work[c] = "none"
  /\ Executable(q) /\ AlreadyBooked(q)
  /\ Returns(c, q)
  /\ UNCHANGED <<key, now, expiresAt, ledger, work, pending>>

(* The checks pass on the snapshot of this transaction.                    *)
Clear(c) ==
  LET q == call[c].body IN
  /\ At(c, "executing") /\ work[c] = "none"
  /\ Executable(q) /\ ~AlreadyBooked(q) /\ ~Refused(q)
  /\ work' = [work EXCEPT ![c] = "cleared"]
  /\ UNCHANGED <<interceptor, now, expiresAt, ledger, pending>>

(* They do not; or a check the model has no state for (the step-up, the    *)
(* accounts, the payee) does not, or the database fails.  The transaction  *)
(* is aborted, with what it has written.                                   *)
Refuse(c) ==
  /\ At(c, "executing") /\ work[c] # "committed"
  /\ Throws(c)
  /\ work' = [work EXCEPT ![c] = "none"]
  /\ pending' = IF work[c] = "written" THEN NoPending ELSE pending
  /\ UNCHANGED <<key, now, expiresAt, ledger>>

(* book: the entry, which writes the account, the usage of the windows     *)
(* that now, later than the checks, falls into, and the row.               *)
Write(c) ==
  LET q == call[c].body IN
  /\ At(c, "executing") /\ work[c] = "cleared"
  /\ Unwritten /\ ~AlreadyBooked(q)
  /\ work' = [work EXCEPT ![c] = "written"]
  /\ pending' = [quote |-> q, at |-> now]
  /\ UNCHANGED <<interceptor, now, expiresAt, ledger>>

(* A write conflict, or the transaction was dropped: the runner starts     *)
(* again.                                                                  *)
Restart(c) ==
  /\ At(c, "executing")
  /\ \/ work[c] = "stale"
     \/ work[c] = "cleared" /\ ~Unwritten
  /\ work' = [work EXCEPT ![c] = "none"]
  /\ UNCHANGED <<interceptor, now, expiresAt, ledger, pending>>

(* The unique quoteId: recoverFromDuplicate answers with the winner.       *)
Duplicate(c) ==
  LET q == call[c].body IN
  /\ At(c, "executing") /\ work[c] = "stale" /\ AlreadyBooked(q)
  /\ Returns(c, q)
  /\ work' = [work EXCEPT ![c] = "none"]
  /\ UNCHANGED <<key, now, expiresAt, ledger, pending>>

(* The answer to the commit: it took effect.                               *)
Book(c) ==
  /\ At(c, "executing") /\ work[c] = "committed"
  /\ Returns(c, call[c].body)
  /\ work' = [work EXCEPT ![c] = "none"]
  /\ UNCHANGED <<key, now, expiresAt, ledger, pending>>

(* No answer to any attempt at it: it took effect, or may yet, and the     *)
(* request fails (UnknownTransactionCommitResult).                         *)
BookUnsure(c) ==
  /\ At(c, "executing") /\ work[c] \in {"written", "committed"}
  /\ Throws(c)
  /\ work' = [work EXCEPT ![c] = "none"]
  /\ UNCHANGED <<key, now, expiresAt, ledger, pending>>

-----------------------------------------------------------------------------
(* The database, whether the process that wrote is still there or not.     *)

(* A commit overtakes every other transaction on the account.              *)
Overtaken(d) == IF work[d] = "cleared" THEN "stale" ELSE work[d]

(* postTransfer: under the quote's reference, once.                        *)
Once(q) == IF q \in journal THEN 0 ELSE Amount[q]

(* UsageCounterRepository.accumulate.                                      *)
Accumulate(u, m) == [total |-> u.total + m, count |-> u.count + 1]

(* The commit takes effect.                                                *)
Land ==
  LET q == pending.quote
      t == pending.at
  IN
  /\ ~Unwritten /\ pending' = NoPending
  /\ journal' = journal \cup {q}
  /\ available' = available - Once(q)
  /\ dayUsage' = [dayUsage EXCEPT ![Day(t)] = Accumulate(@, Amount[q])]
  /\ monthUsage' = [monthUsage EXCEPT ![Month(t)] = Accumulate(@, Amount[q])]
  /\ countedAt' = [countedAt EXCEPT ![q] = t]
  /\ work' = [d \in Calls |-> IF work[d] = "written" THEN "committed" ELSE Overtaken(d)]
  /\ UNCHANGED <<interceptor, now, expiresAt>>

(* Or the transaction is dropped: nobody committed it in time, or the      *)
(* primary stepped down.                                                   *)
GiveUp ==
  /\ ~Unwritten /\ pending' = NoPending
  /\ work' = [d \in Calls |-> IF work[d] = "written" THEN "stale" ELSE work[d]]
  /\ UNCHANGED <<interceptor, now, expiresAt, ledger>>

-----------------------------------------------------------------------------
(* The whole.                                                              *)

transfersUnchanged == UNCHANGED <<now, expiresAt, ledger, work, pending>>

(* A client only asks for quotes it was given.                             *)
Request(c, k, q) ==
  /\ expiresAt[q] # 0
  /\ Claim(c, k, q) \/ TurnedAway(c, k, q) \/ Replay(c, k, q)
  /\ transfersUnchanged

Respond(c) ==
  /\ Complete(c) \/ CompleteFails(c) \/ Release(c)
  /\ transfersUnchanged

(* The process dies.  What it has written is with the database: it lands   *)
(* if the commit was sent, or is given up.                                 *)
Crash(c) ==
  /\ Dropped(c)
  /\ work' = [work EXCEPT ![c] = "none"]
  /\ UNCHANGED <<key, now, expiresAt, ledger, pending>>

Forget(k) == Expire(k) /\ transfersUnchanged

Tick ==
  /\ now < MaxTime
  /\ now' = now + 1
  /\ UNCHANGED <<interceptor, expiresAt, ledger, work, pending>>

Init ==
  /\ InterceptorInit
  /\ now = 1
  /\ expiresAt = [q \in Quotes |-> 0]
  /\ journal = {}
  /\ countedAt = [q \in Quotes |-> 0]
  /\ available = Funds
  /\ dayUsage = [d \in Days |-> [total |-> 0, count |-> 0]]
  /\ monthUsage = [m \in Months |-> [total |-> 0, count |-> 0]]
  /\ work = [c \in Calls |-> "none"]
  /\ pending = NoPending

Next ==
  \/ \E q \in Quotes : Quote(q)
  \/ \E c \in Calls, k \in Keys, q \in Quotes : Request(c, k, q)
  \/ \E c \in Calls : \/ FindWinner(c) \/ Clear(c) \/ Refuse(c) \/ Write(c) \/ Restart(c)
                      \/ Duplicate(c) \/ Book(c) \/ BookUnsure(c) \/ Respond(c) \/ Crash(c)
  \/ Land \/ GiveUp
  \/ \E k \in Keys : Forget(k)
  \/ Tick

Spec == Init /\ [][Next]_vars

-----------------------------------------------------------------------------
(* Properties.                                                             *)

(* Types; in particular the source account is never spent below zero.      *)
TypeOK ==
  /\ key \in [Keys -> KeyDocument] /\ call \in [Calls -> Call]
  /\ now \in Times
  /\ expiresAt \in [Quotes -> Nat] /\ journal \subseteq Quotes
  /\ countedAt \in [Quotes -> {0} \cup Times]
  /\ available \in Nat
  /\ dayUsage \in [Days -> UsageCounter] /\ monthUsage \in [Months -> UsageCounter]
  /\ work \in [Calls -> Work] /\ pending \in Pending

AmountsIn(S)     == [q \in Quotes |-> IF q \in S THEN Amount[q] ELSE 0]
OnesIn(S)        == [q \in Quotes |-> IF q \in S THEN 1 ELSE 0]
PaidBy(S)        == Total(AmountsIn(S), NumQuotes)
CountOf(S)       == Total(OnesIn(S), NumQuotes)
CountedOn(d)     == {q \in Quotes : countedAt[q] # 0 /\ Day(countedAt[q]) = d}
CountedWithin(m) == {q \in Quotes : countedAt[q] # 0 /\ Month(countedAt[q]) = m}

(* However often a quote's payment is sent, under whatever keys, and       *)
(* whatever was lost of the answers, it is paid once: a transfer exists    *)
(* exactly when its entry does, and the account has paid exactly the       *)
(* transfers (findByQuote, the unique quoteId and the entry's reference).  *)
TransferOnce ==
  /\ journal = {q \in Quotes : countedAt[q] # 0}
  /\ available = Funds - PaidBy(journal)

(* No day and no month sees more than its allowance, though a transfer is  *)
(* checked at one moment and counted at another, midnight may fall in      *)
(* between, and other transfers run at the same time; and the counters     *)
(* are exactly the transfers counted in their window.                      *)
LimitsHeld ==
  /\ \A d \in Days :
       /\ dayUsage[d] = [total |-> PaidBy(CountedOn(d)), count |-> CountOf(CountedOn(d))]
       /\ dayUsage[d].total <= DailyAmount /\ dayUsage[d].count <= DailyCount
  /\ \A m \in Months :
       /\ monthUsage[m] = [total |-> PaidBy(CountedWithin(m)),
                           count |-> CountOf(CountedWithin(m))]
       /\ monthUsage[m].total <= MonthlyAmount

(* A client told that its payment was made was told so of the payment it   *)
(* asked for, and it was made; so too the answers kept for replay.         *)
AnswersTrue ==
  /\ \A c \in Calls : call[c].answer # None =>
       call[c].answer = call[c].body /\ call[c].body \in journal
  /\ \A k \in Keys : key[k].status = "COMPLETED" =>
       key[k].response = key[k].body /\ key[k].body \in journal

(* One request at a time is served under a key: giving back a key never    *)
(* gives back somebody else's (IdempotencyKeyRepository.claim, release).   *)
OneHandler ==
  \A c, d \in Calls :
    c # d /\ call[c].key = call[d].key => At(c, "idle") \/ At(d, "idle")

-----------------------------------------------------------------------------
(* What clients see of all this: when each quote was paid, which requests  *)
(* are under way, and once one is not, its answer.                         *)
Waiting == {c \in Calls : ~At(c, "idle")}
Asked   == [c \in Calls |-> call[c].body]
Told    == [c \in Calls |-> IF At(c, "idle") THEN call[c].answer ELSE None]

(* The quotes whose commit nobody waits for any more.                      *)
InDoubt == IF \E c \in Calls : work[c] = "written" THEN {} ELSE {pending.quote} \ {None}

Promise == INSTANCE TransferPromise WITH
  Clients <- Calls, clock <- now, paidAt <- countedAt,
  waiting <- Waiting, asked <- Asked, told <- Told, doubt <- InDoubt

(* Transfers keep TransferPromise: whatever overlaps, is lost, lands late, *)
(* is retried or crashes, a quote is paid in one step, once, for a client  *)
(* that is waiting or was left in doubt about it, within the funds and the *)
(* limits of the moment it is counted at, and clients are told of payments *)
(* that were made.                                                         *)
KeepsPromise == Promise!Spec
=============================================================================
