----------------------------- MODULE BillPayments -----------------------------
(***************************************************************************)
(* Bill payments and top-ups (bill-pay/): the customer is debited first,   *)
(* the biller is asked by a scheduled task, and a refusal or a silence is  *)
(* refunded in two durable steps, with a sweep behind it.                  *)
(*                                                                         *)
(* One instance of the API runs two scheduled tasks, the submission pass   *)
(* and the refund sweep.  Each is sequential and never overlaps itself     *)
(* (BaseScheduledTask.runOnce); the two interleave with each other, with   *)
(* the tasks of other instances, with whatever else happens to the         *)
(* customer's account, and with crashes.                                   *)
(*                                                                         *)
(* Every read of several documents and every transaction is one action;    *)
(* what a task holds between two of them is in pass and sweep, and is      *)
(* what a crash loses.  Accounts are kept to what these entries read and   *)
(* write: AccountBook is the module about them.                            *)
(***************************************************************************)
EXTENDS Integers, FiniteSets, Totals

CONSTANTS
  NumPayments,   \* payments that can ever be made
  NumAccounts,   \* customer accounts
  Instances,     \* running instances of the API
  Source,        \* Source[p]: the account payment p is taken from
  Amount,        \* Amount[p]: what it pays
  Fee,           \* Fee[p]: the biller's charge, 0 for a top-up
  Funds,         \* bound: what each account starts with
  BatchSize,     \* REFUND_SWEEP_BATCH_SIZE
  MaxFaults,     \* bound: crashes and database errors, together
  ClockJumps     \* may business time pass the stranding threshold during a live call?

Payments == 1..NumPayments
Accounts == 1..NumAccounts

ASSUME PaymentAssumption ==
  /\ NumPayments \in Nat \ {0} /\ NumAccounts \in Nat
  /\ Source \in [Payments -> Accounts]
  /\ Amount \in [Payments -> Nat \ {0}]
  /\ Fee \in [Payments -> Nat]

ASSUME BillBoundsAssumption ==
  /\ Funds \in Nat /\ BatchSize \in Nat \ {0} /\ MaxFaults \in Nat /\ ClockJumps \in BOOLEAN

VARIABLES
  status,        \* BillPayment.status, "NONE" before the payment exists
  due,           \* scheduledFor has arrived
  submittedAt,   \* order in which payments were claimed; 0 is null
  stranded,      \* submittedAt is REFUND_STRANDED_AFTER_MS or more ago
  booked,        \* journal references derived from payment ids that are booked
  unsettled,     \* balance of GL UNSETTLED_OUTBOUND
  account,       \* status of each customer account
  balance,       \* its ledger balance
  calls,         \* how often the biller was asked to take each payment
  taken,         \* the biller answered that it took the payment
  pass,          \* what each instance's submission pass holds
  sweep,         \* what each instance's refund sweep holds
  faults         \* crashes and database errors so far

payments  == <<status, submittedAt>>
books     == <<booked, unsettled, balance>>
clock     == <<due, stranded>>
biller    == <<calls, taken>>
vars == <<status, due, submittedAt, stranded, booked, unsettled, account, balance,
          calls, taken, pass, sweep, faults>>

-----------------------------------------------------------------------------
(* Types.                                                                  *)

BillPaymentStatus == {"NONE", "PENDING", "SUBMITTED", "REJECTED", "REFUNDED", "COMPLETED"}
AccountStatus     == {"ACTIVE", "FROZEN", "CLOSED"}
EntryKind         == {"DEBIT", "SETTLEMENT", "FEE", "REVERSAL"}

(* The submission pass: the due set it read, and where it is with the      *)
(* payment it is on.                                                       *)
PassAt == {"idle", "next", "claimed", "accepted", "refused", "refunding"}
Pass   == [at : PassAt, queue : SUBSET Payments, payment : Payments]
NoPass == [at |-> "idle", queue |-> {}, payment |-> 1]

(* The refund sweep: the records it read, each with its status of then.    *)
SweepAt == {"idle", "next", "rejected", "refunding"}
Sweep   == [at : SweepAt, read : [Payments -> {"NONE", "SUBMITTED", "REJECTED"}],
            payment : Payments]
NoneRead == [p \in Payments |-> "NONE"]
NoSweep  == [at |-> "idle", read |-> NoneRead, payment |-> 1]

-----------------------------------------------------------------------------
(* Plausible mistakes, each named after the definition it would replace.   *)

SUBMITTABLE_Again == {"PENDING", "SUBMITTED"}
SETTLEABLE_Late   == {"SUBMITTED", "REFUNDED"}
REFUSABLE_Late    == {"SUBMITTED", "COMPLETED"}
Debits_Overdrawing(a, m) == account[a] = "ACTIVE"
Owing_RejectedOnly(p) == status[p] = "REJECTED"

-----------------------------------------------------------------------------
(* The books, as the entries of a bill payment use them.                   *)

(* assertPostable and assertWithinFloor, with no overdraft.                *)
Credits(a)   == account[a] = "ACTIVE"
Debits(a, m) == account[a] = "ACTIVE" /\ balance[a] >= m

(* PostingService.post under a reference derived from the payment's id:    *)
(* booked already, it moves nothing.                                       *)
Once(kind, p, m) == IF <<kind, p>> \in booked THEN 0 ELSE m

-----------------------------------------------------------------------------
(* Booking.                                                                *)

(* BillPayService.create, TopUpService.create and                          *)
(* BillPaymentBookingService.book: the row and the debit in one            *)
(* transaction.  Payments are numbered in the order they are made.         *)
Book(p, now) ==
  /\ status[p] = "NONE" /\ \A q \in 1..(p - 1) : status[q] # "NONE"
  /\ Debits(Source[p], Amount[p])
  /\ status' = [status EXCEPT ![p] = "PENDING"]
  /\ due' = [due EXCEPT ![p] = now]
  /\ booked' = booked \cup {<<"DEBIT", p>>}
  /\ unsettled' = unsettled + Amount[p]
  /\ balance' = [balance EXCEPT ![Source[p]] = @ - Amount[p]]
  /\ UNCHANGED <<submittedAt, stranded, account, biller, pass, sweep, faults>>

-----------------------------------------------------------------------------
(* The submission pass.                                                    *)

SUBMITTABLE == {"PENDING"}
SETTLEABLE  == {"SUBMITTED"}
REFUSABLE   == {"SUBMITTED"}
REFUNDABLE  == {"REJECTED"}

(* On to the next payment of the batch, or the end of the pass.            *)
Advance(w) ==
  pass' = [pass EXCEPT ![w] = IF @.queue = {} THEN NoPass
                              ELSE [@ EXCEPT !.at = "next", !.payment = 1]]

(* A throw ends the pass: the rest of the batch waits for the next tick.   *)
Abandon(w) == pass' = [pass EXCEPT ![w] = NoPass]

(* dueForSubmission, at a tick or a kick.                                  *)
StartPass(w) ==
  LET found == {p \in Payments : status[p] = "PENDING" /\ due[p]} IN
  /\ pass[w].at = "idle" /\ found # {}
  /\ pass' = [pass EXCEPT ![w] = [NoPass EXCEPT !.at = "next", !.queue = found]]
  /\ UNCHANGED <<payments, clock, books, account, biller, sweep, faults>>

(* claim: PENDING to SUBMITTED by a conditional write, then the biller is  *)
(* asked.                                                                  *)
Claim(w, p) ==
  /\ pass[w].at = "next" /\ p \in pass[w].queue
  /\ status[p] \in SUBMITTABLE
  /\ status' = [status EXCEPT ![p] = "SUBMITTED"]
  /\ submittedAt' = [submittedAt EXCEPT
                       ![p] = 1 + Cardinality({q \in Payments : submittedAt[q] > 0})]
  /\ stranded' = [stranded EXCEPT ![p] = FALSE]
  /\ calls' = [calls EXCEPT ![p] = @ + 1]
  /\ pass' = [pass EXCEPT ![w] = [at |-> "claimed", queue |-> @.queue \ {p}, payment |-> p]]
  /\ UNCHANGED <<due, books, account, taken, sweep, faults>>

(* resume: a payment this pass cannot claim is left alone, unless it is    *)
(* one whose reversal somebody did not finish.                             *)
Resume(w, p) ==
  /\ pass[w].at = "next" /\ p \in pass[w].queue
  /\ status[p] \notin SUBMITTABLE
  /\ pass' = [pass EXCEPT ![w] =
                IF status[p] = "REJECTED"
                THEN [at |-> "refunding", queue |-> @.queue \ {p}, payment |-> p]
                ELSE IF @.queue = {p} THEN NoPass
                ELSE [@ EXCEPT !.queue = pass[w].queue \ {p}]]
  /\ UNCHANGED <<payments, clock, books, account, biller, sweep, faults>>

(* The biller answers: it took the payment, or it refused, or it said      *)
(* nothing, which the rail reports as a refusal (NO_RESPONSE).             *)
Answer(w) ==
  LET p == pass[w].payment IN
  /\ pass[w].at = "claimed"
  /\ \/ /\ taken' = [taken EXCEPT ![p] = TRUE]
        /\ pass' = [pass EXCEPT ![w].at = "accepted"]
     \/ /\ pass' = [pass EXCEPT ![w].at = "refused"]
        /\ UNCHANGED taken
  /\ UNCHANGED <<payments, clock, books, account, calls, sweep, faults>>

(* complete: settlement and fee in one transaction, unless the refund      *)
(* already stands.                                                         *)
Complete(w) ==
  LET p == pass[w].payment
      a == Source[p]
      fee == Once("FEE", p, Fee[p])
  IN
  /\ pass[w].at = "accepted"
  /\ status[p] \in SETTLEABLE
  /\ fee > 0 => Debits(a, fee)
  /\ status' = [status EXCEPT ![p] = "COMPLETED"]
  /\ booked' = booked \cup {<<"SETTLEMENT", p>>}
                      \cup (IF Fee[p] > 0 THEN {<<"FEE", p>>} ELSE {})
  /\ unsettled' = unsettled - Once("SETTLEMENT", p, Amount[p])
  /\ balance' = [balance EXCEPT ![a] = @ - fee]
  /\ Advance(w)
  /\ UNCHANGED <<submittedAt, clock, account, biller, sweep, faults>>

(* The refund already stands: nothing is posted.                           *)
LateAcknowledgement(w) ==
  /\ pass[w].at = "accepted" /\ status[pass[w].payment] \notin SETTLEABLE
  /\ Advance(w)
  /\ UNCHANGED <<payments, clock, books, account, biller, sweep, faults>>

(* The fee is refused, and the settlement is rolled back with it.          *)
FeeRefused(w) ==
  LET p == pass[w].payment
      fee == Once("FEE", p, Fee[p])
  IN
  /\ pass[w].at = "accepted" /\ status[p] \in SETTLEABLE
  /\ fee > 0 /\ ~Debits(Source[p], fee)
  /\ Abandon(w)
  /\ UNCHANGED <<payments, clock, books, account, biller, sweep, faults>>

-----------------------------------------------------------------------------
(* Refunds, for a pass and for a sweep.                                    *)

(* reject: SUBMITTED to REJECTED, one conditional write.                   *)
Rejected(p) ==
  /\ status[p] \in REFUSABLE
  /\ status' = [status EXCEPT ![p] = "REJECTED"]

(* settle: the payment re-read, the reversal and REFUNDED in one           *)
(* transaction.                                                            *)
Refunded(p) ==
  LET a == Source[p] IN
  /\ status[p] \in REFUNDABLE
  /\ Credits(a)
  /\ status' = [status EXCEPT ![p] = "REFUNDED"]
  /\ booked' = booked \cup {<<"REVERSAL", p>>}
  /\ unsettled' = unsettled - Once("REVERSAL", p, Amount[p])
  /\ balance' = [balance EXCEPT ![a] = @ + Once("REVERSAL", p, Amount[p])]

(* The pass records the refusal, then returns the money.                   *)
Refuse(w) ==
  LET p == pass[w].payment IN
  /\ pass[w].at = "refused"
  /\ \/ /\ Rejected(p)
        /\ pass' = [pass EXCEPT ![w].at = "refunding"]
     \/ /\ status[p] \notin REFUSABLE
        /\ Advance(w)
        /\ UNCHANGED status
  /\ UNCHANGED <<submittedAt, clock, books, account, biller, sweep, faults>>

Refund(w) ==
  LET p == pass[w].payment IN
  /\ pass[w].at = "refunding"
  /\ \/ Refunded(p) /\ Advance(w)
     \/ /\ status[p] \notin REFUNDABLE
        /\ Advance(w)
        /\ UNCHANGED <<status, books>>
     \/ /\ status[p] \in REFUNDABLE /\ ~Credits(Source[p])
        /\ Abandon(w)
        /\ UNCHANGED <<status, books>>
  /\ UNCHANGED <<submittedAt, clock, account, biller, sweep, faults>>

-----------------------------------------------------------------------------
(* The refund sweep.                                                       *)

(* awaitingRefund: what owes the customer money and has sat that way too   *)
(* long, oldest first, a batch at most.                                    *)
Owing(p) == status[p] \in {"REJECTED", "SUBMITTED"}
Stranded == {p \in Payments : stranded[p] /\ Owing(p)}
Oldest   == {p \in Stranded :
               Cardinality({q \in Stranded : submittedAt[q] < submittedAt[p]}) < BatchSize}

StartSweep(w) ==
  /\ sweep[w].at = "idle" /\ Stranded # {}
  /\ sweep' = [sweep EXCEPT ![w] =
                 [at |-> "next", payment |-> 1,
                  read |-> [p \in Payments |-> IF p \in Oldest THEN status[p] ELSE "NONE"]]]
  /\ UNCHANGED <<payments, clock, books, account, biller, pass, faults>>

(* finish: a payment that fails is stepped over.                           *)
Onward(w) ==
  sweep' = [sweep EXCEPT ![w] = IF @.read = NoneRead THEN NoSweep
                                ELSE [@ EXCEPT !.at = "next", !.payment = 1]]

(* recover acts on the status the sweep read: a REJECTED payment goes on   *)
(* to settle, a SUBMITTED one is rejected first.                           *)
Recover(w, p) ==
  /\ sweep[w].at = "next" /\ sweep[w].read[p] # "NONE"
  /\ sweep' = [sweep EXCEPT ![w] =
                 [at |-> IF @.read[p] = "REJECTED" THEN "refunding" ELSE "rejected",
                  read |-> [@.read EXCEPT ![p] = "NONE"], payment |-> p]]
  /\ UNCHANGED <<payments, clock, books, account, biller, pass, faults>>

SweepRefuse(w) ==
  LET p == sweep[w].payment IN
  /\ sweep[w].at = "rejected"
  /\ \/ /\ Rejected(p)
        /\ sweep' = [sweep EXCEPT ![w].at = "refunding"]
     \/ /\ status[p] \notin REFUSABLE
        /\ Onward(w)
        /\ UNCHANGED status
  /\ UNCHANGED <<submittedAt, clock, books, account, biller, pass, faults>>

SweepRefund(w) ==
  LET p == sweep[w].payment IN
  /\ sweep[w].at = "refunding"
  /\ \/ Refunded(p)
     \/ /\ status[p] \notin REFUNDABLE \/ ~Credits(Source[p])
        /\ UNCHANGED <<status, books>>
  /\ Onward(w)
  /\ UNCHANGED <<submittedAt, clock, account, biller, pass, faults>>

-----------------------------------------------------------------------------
(* What happens around them.                                               *)

(* Business time: a scheduled payment falls due; a claimed payment passes  *)
(* the stranding threshold, the earlier claimed first.  Unless the clock   *)
(* is advanced by hand, a job that is still running is younger than that.  *)
FallsDue(p) ==
  /\ status[p] = "PENDING" /\ ~due[p]
  /\ due' = [due EXCEPT ![p] = TRUE]
  /\ UNCHANGED <<payments, stranded, books, account, biller, pass, sweep, faults>>

Strands(p) ==
  /\ Owing(p) /\ ~stranded[p]
  /\ \A q \in Payments : Owing(q) /\ submittedAt[q] < submittedAt[p] => stranded[q]
  /\ ClockJumps \/ \A w \in Instances : pass[w].at \in {"idle", "next"} \/ pass[w].payment # p
  /\ stranded' = [stranded EXCEPT ![p] = TRUE]
  /\ UNCHANGED <<payments, due, books, account, biller, pass, sweep, faults>>

(* The rest of the bank, as far as the account lets it: the customer       *)
(* spends the last of the balance, the bank freezes or unfreezes the       *)
(* account, the customer closes it once it is empty (AccountClosureService *)
(* does not look at bill payments).                                        *)
SpendAll(a) ==
  /\ balance[a] > 0 /\ Debits(a, balance[a])
  /\ balance' = [balance EXCEPT ![a] = 0]
  /\ UNCHANGED <<payments, clock, booked, unsettled, account, biller, pass, sweep, faults>>

SetAccount(a, from, to) ==
  /\ account[a] = from
  /\ account' = [account EXCEPT ![a] = to]
  /\ UNCHANGED <<payments, clock, books, biller, pass, sweep, faults>>

Freeze(a)   == SetAccount(a, "ACTIVE", "FROZEN")
Unfreeze(a) == SetAccount(a, "FROZEN", "ACTIVE")
Close(a)    == balance[a] = 0 /\ SetAccount(a, "ACTIVE", "CLOSED")

(* An instance dies and is restarted; both its tasks forget everything.    *)
Crash(w) ==
  /\ faults < MaxFaults
  /\ pass[w] # NoPass \/ sweep[w] # NoSweep
  /\ faults' = faults + 1
  /\ pass' = [pass EXCEPT ![w] = NoPass]
  /\ sweep' = [sweep EXCEPT ![w] = NoSweep]
  /\ UNCHANGED <<payments, clock, books, account, biller>>

(* The database refuses a write, or loses a commit after retries: a pass   *)
(* is abandoned, a sweep steps over the payment.                           *)
DatabaseError(w) ==
  /\ faults < MaxFaults
  /\ faults' = faults + 1
  /\ \/ pass[w].at # "idle" /\ Abandon(w) /\ UNCHANGED sweep
     \/ sweep[w].at \in {"rejected", "refunding"} /\ Onward(w) /\ UNCHANGED pass
  /\ UNCHANGED <<payments, clock, books, account, biller>>

-----------------------------------------------------------------------------
Init ==
  /\ status      = [p \in Payments |-> "NONE"]
  /\ due         = [p \in Payments |-> FALSE]
  /\ submittedAt = [p \in Payments |-> 0]
  /\ stranded    = [p \in Payments |-> FALSE]
  /\ booked      = {}
  /\ unsettled   = 0
  /\ account     = [a \in Accounts |-> "ACTIVE"]
  /\ balance     = [a \in Accounts |-> Funds]
  /\ calls       = [p \in Payments |-> 0]
  /\ taken       = [p \in Payments |-> FALSE]
  /\ pass        = [w \in Instances |-> NoPass]
  /\ sweep       = [w \in Instances |-> NoSweep]
  /\ faults      = 0

PassStep(w) ==
  \/ StartPass(w) \/ Answer(w) \/ Complete(w) \/ LateAcknowledgement(w) \/ FeeRefused(w)
  \/ Refuse(w) \/ Refund(w)
  \/ \E p \in Payments : Claim(w, p) \/ Resume(w, p)

SweepStep(w) ==
  \/ StartSweep(w) \/ SweepRefuse(w) \/ SweepRefund(w)
  \/ \E p \in Payments : Recover(w, p)

Next ==
  \/ \E p \in Payments, now \in BOOLEAN : Book(p, now)
  \/ \E w \in Instances : PassStep(w) \/ SweepStep(w) \/ Crash(w) \/ DatabaseError(w)
  \/ \E p \in Payments : FallsDue(p) \/ Strands(p)
  \/ \E a \in Accounts : SpendAll(a) \/ Freeze(a) \/ Unfreeze(a) \/ Close(a)

(* Both tasks are restarted by an interval timer for as long as the        *)
(* process lives, a step of theirs is never held up by another's, and the  *)
(* rail always answers (BillerRailPort.submit never throws); time passes.  *)
Fairness ==
  /\ \A w \in Instances : WF_vars(PassStep(w)) /\ WF_vars(SweepStep(w))
  /\ \A p \in Payments : WF_vars(FallsDue(p)) /\ WF_vars(Strands(p))

Spec == Init /\ [][Next]_vars /\ Fairness

-----------------------------------------------------------------------------
(* What must always hold.                                                  *)

TypeOK ==
  /\ status \in [Payments -> BillPaymentStatus]
  /\ due \in [Payments -> BOOLEAN]
  /\ submittedAt \in [Payments -> Nat]
  /\ stranded \in [Payments -> BOOLEAN]
  /\ booked \subseteq EntryKind \X Payments
  /\ unsettled \in Int
  /\ account \in [Accounts -> AccountStatus]
  /\ balance \in [Accounts -> Nat]
  /\ calls \in [Payments -> Nat]
  /\ taken \in [Payments -> BOOLEAN]
  /\ pass \in [Instances -> Pass]
  /\ sweep \in [Instances -> Sweep]
  /\ faults \in 0..MaxFaults

(* The journal tells the same story as the payment: debited from the       *)
(* moment it exists, settled and charged exactly when it is COMPLETED,     *)
(* reversed exactly when it is REFUNDED, so never both, however an answer, *)
(* a retry, a sweep and a crash are ordered (BillSubmissionService.complete*)
(* and BillRefundService.settle).                                          *)
EntriesMatchStatus ==
  \A p \in Payments :
    /\ <<"DEBIT", p>> \in booked <=> status[p] # "NONE"
    /\ <<"SETTLEMENT", p>> \in booked <=> status[p] = "COMPLETED"
    /\ <<"FEE", p>> \in booked <=> status[p] = "COMPLETED" /\ Fee[p] > 0
    /\ <<"REVERSAL", p>> \in booked <=> status[p] = "REFUNDED"

(* What UNSETTLED_OUTBOUND owes is exactly what was taken for payments     *)
(* that are neither settled nor refunded: no payment leaves it twice and   *)
(* none is forgotten in it (BillPaymentPoster's four entries).             *)
InFlight(p)   == status[p] \in {"PENDING", "SUBMITTED", "REJECTED"}
Owed          == [p \in Payments |-> IF InFlight(p) THEN Amount[p] ELSE 0]
InFlightExact == unsettled = Total(Owed, NumPayments)

(* The biller is never asked twice for one payment, although two instances *)
(* may read it as due and a crashed pass is run again: the claim is spent  *)
(* before the rail is called (BillSubmissionService.submit).               *)
SubmittedOnce == \A p \in Payments : calls[p] <= 1

(* Seen from outside: a payment's money is taken once, and once taken goes *)
(* to the biller or back to the customer, once.  Where it is, is read from *)
(* the journal alone.                                                      *)
Where(p) ==
  LET Has(kind) == <<kind, p>> \in booked IN
  IF Has("SETTLEMENT") THEN IF Has("REVERSAL") THEN "lost" ELSE "biller"
  ELSE IF Has("REVERSAL") THEN "returned"
  ELSE IF Has("DEBIT") THEN "bank" ELSE "customer"

Promise == INSTANCE BillPromise WITH money <- [p \in Payments |-> Where(p)], owed <- unsettled

(* A bill payment keeps BillPromise.                                       *)
KeepsPromise == Promise!Spec

-----------------------------------------------------------------------------
(* What must happen.                                                       *)

(* A refund that the books will not take, as the sweep sees it.            *)
Stuck(p) == status[p] \in {"REJECTED", "SUBMITTED"} /\ account[Source[p]] # "ACTIVE"

(* Money never stays in between.  A payment the customer was debited for   *)
(* ends settled or refunded, through crashes, failed transactions and      *)
(* silent billers, provided that from some point on its account takes      *)
(* credits and fewer than a whole batch of older payments cannot be        *)
(* refunded: the sweep reads the oldest REFUND_SWEEP_BATCH_SIZE and would  *)
(* read the same ones for ever (BillRefundSweeperService.sweep).           *)
Settles ==
  \A p \in Payments :
    <>[](/\ account[Source[p]] = "ACTIVE"
         /\ Cardinality({q \in Payments : Stuck(q)}) < BatchSize)
      => (status[p] = "PENDING" ~> status[p] \in {"COMPLETED", "REFUNDED"})

(* The test 'never touches a payment the biller accepted'.  Not so when    *)
(* the fee is refused: the settlement rolls back with it, the payment      *)
(* stays SUBMITTED, and the sweep refunds what the biller was paid.        *)
AcceptedStands == \A p \in Payments : ~(taken[p] /\ status[p] = "REFUNDED")
=============================================================================
