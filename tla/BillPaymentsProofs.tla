-------------------------- MODULE BillPaymentsProofs --------------------------
(***************************************************************************)
(* Theorems about BillPayments for every number of payments, accounts and  *)
(* instances of the API, every amount and fee, and any number of crashes   *)
(* and failed transactions.                                                *)
(*                                                                         *)
(* The argument is StepIsAMove: whatever a step does to the tasks, it      *)
(* either leaves the payments and the journal alone or moves one payment   *)
(* along one arrow of its life.  Every invariant is then a statement about *)
(* five arrows, and so is the refinement of BillPromise.                   *)
(***************************************************************************)
EXTENDS BillPayments, TotalsProofs, FiniteSetTheorems, TLAPS

USE DEF Payments, Accounts

-----------------------------------------------------------------------------
(* Types.                                                                  *)

(* What is posted under a reference is a natural.                          *)
LEMMA OnceType ==
  ASSUME NEW kind, NEW p, NEW m \in Nat
  PROVE  Once(kind, p, m) \in Nat
BY DEF Once

(* An idle pass and an idle sweep are of their types.                      *)
LEMMA IdleTypes == NoPass \in Pass /\ NoSweep \in Sweep
BY PaymentAssumption DEF NoPass, Pass, PassAt, NoSweep, Sweep, SweepAt, NoneRead

(* What a pass holds, and how it may change.                               *)
LEMMA PassFields ==
  ASSUME NEW s \in Pass
  PROVE  /\ s.payment \in Payments
         /\ \A at \in PassAt : [s EXCEPT !.at = at] \in Pass
         /\ \A at \in PassAt, p \in Payments : [s EXCEPT !.at = at, !.payment = p] \in Pass
         /\ \A at \in PassAt, p \in Payments :
              [at |-> at, queue |-> s.queue \ {p}, payment |-> p] \in Pass
         /\ \A p \in Payments : [s EXCEPT !.queue = s.queue \ {p}] \in Pass
BY DEF Pass

(* A pass is always a pass, on a payment.                                  *)
LEMMA PassIsPass ==
  ASSUME TypeOK, NEW w \in Instances
  PROVE  pass[w] \in Pass /\ pass[w].payment \in Payments
BY PassFields DEF TypeOK

(* What a sweep holds, and how it may change.                              *)
LEMMA SweepFields ==
  ASSUME NEW s \in Sweep
  PROVE  /\ s.payment \in Payments
         /\ \A at \in SweepAt : [s EXCEPT !.at = at] \in Sweep
         /\ \A at \in SweepAt, p \in Payments : [s EXCEPT !.at = at, !.payment = p] \in Sweep
         /\ \A at \in SweepAt, p \in Payments :
              [at |-> at, read |-> [s.read EXCEPT ![p] = "NONE"], payment |-> p] \in Sweep
BY DEF Sweep

(* A sweep is always a sweep, on a payment.                                *)
LEMMA SweepIsSweep ==
  ASSUME TypeOK, NEW w \in Instances
  PROVE  sweep[w] \in Sweep /\ sweep[w].payment \in Payments
BY SweepFields DEF TypeOK

(* The constants at a payment.                                             *)
LEMMA PaymentConstants ==
  ASSUME NEW p \in Payments
  PROVE  Source[p] \in Accounts /\ Amount[p] \in Nat /\ Fee[p] \in Nat
BY PaymentAssumption

(* Writing a payment's status keeps its type.                              *)
LEMMA StatusType ==
  ASSUME TypeOK, NEW p \in Payments, NEW s \in BillPaymentStatus
  PROVE  [status EXCEPT ![p] = s] \in [Payments -> BillPaymentStatus]
BY DEF TypeOK

(* Booking an entry keeps the journal in its type.                         *)
LEMMA BookedType ==
  ASSUME TypeOK, NEW p \in Payments, NEW kind \in EntryKind
  PROVE  booked \cup {<<kind, p>>} \subseteq EntryKind \X Payments
BY DEF TypeOK

(* Going on, and giving up, keep the types of both tasks.                  *)
LEMMA TaskTypes ==
  ASSUME TypeOK, NEW w \in Instances
  PROVE  /\ Advance(w) => pass' \in [Instances -> Pass]
         /\ Abandon(w) => pass' \in [Instances -> Pass]
         /\ Onward(w) => sweep' \in [Instances -> Sweep]
<1>1. 1 \in Payments /\ "next" \in PassAt /\ "next" \in SweepAt
  BY PaymentAssumption DEF PassAt, SweepAt
<1>2. pass[w] \in Pass /\ sweep[w] \in Sweep
  BY PassIsPass, SweepIsSweep
<1>3. [pass[w] EXCEPT !.at = "next", !.payment = 1] \in Pass
      /\ [sweep[w] EXCEPT !.at = "next", !.payment = 1] \in Sweep
  BY <1>1, <1>2, PassFields, SweepFields
<1> QED BY <1>3, IdleTypes DEF TypeOK, Advance, Abandon, Onward

(* A debit that the balance covers leaves a natural balance.               *)
LEMMA DebitedType ==
  ASSUME NEW bal \in [Accounts -> Nat], NEW a \in Accounts, NEW m \in Nat,
         m = 0 \/ bal[a] >= m
  PROVE  [bal EXCEPT ![a] = @ - m] \in [Accounts -> Nat]
<1>1. bal[a] \in Nat /\ bal[a] - m \in Nat
  OBVIOUS
<1> QED BY <1>1

(* A refund keeps the types of what it writes.                             *)
LEMMA RefundedTypes ==
  ASSUME TypeOK, NEW p \in Payments, Refunded(p)
  PROVE  /\ status' \in [Payments -> BillPaymentStatus]
         /\ booked' \subseteq EntryKind \X Payments
         /\ unsettled' \in Int
         /\ balance' \in [Accounts -> Nat]
<1>1. Source[p] \in Accounts /\ Once("REVERSAL", p, Amount[p]) \in Nat
  BY OnceType, PaymentConstants
<1>2. "REFUNDED" \in BillPaymentStatus /\ "REVERSAL" \in EntryKind
  BY DEF BillPaymentStatus, EntryKind
<1>3. status' \in [Payments -> BillPaymentStatus] /\ booked' \subseteq EntryKind \X Payments
  BY <1>2, StatusType, BookedType DEF Refunded
<1>4. balance' = [balance EXCEPT ![Source[p]] = @ + Once("REVERSAL", p, Amount[p])]
  BY DEF Refunded
<1>5. unsettled' = unsettled - Once("REVERSAL", p, Amount[p])
  BY DEF Refunded
<1>6. balance \in [Accounts -> Nat] /\ unsettled \in Int
  BY DEF TypeOK
<1>7. balance' \in [Accounts -> Nat]
  BY <1>1, <1>4, <1>6
<1>8. unsettled' \in Int
  BY <1>1, <1>5, <1>6
<1> QED BY <1>3, <1>7, <1>8

(* The steps of a submission pass keep every variable in its type.         *)
LEMMA PassStepTypes ==
  ASSUME TypeOK, NEW w \in Instances, PassStep(w)
  PROVE  TypeOK'
<1>a. pass[w] \in Pass /\ pass[w].payment \in Payments
  BY PassIsPass
<1>b. "accepted" \in PassAt /\ "refused" \in PassAt /\ "refunding" \in PassAt /\ "claimed" \in PassAt
  BY DEF PassAt
<1>1. CASE StartPass(w)
  <2>1. [NoPass EXCEPT !.at = "next", !.queue = {p \in Payments : status[p] = "PENDING" /\ due[p]}]
          \in Pass
    BY IdleTypes DEF Pass, PassAt
  <2> QED BY <1>1, <2>1 DEF StartPass, TypeOK, payments, clock, books, biller
<1>2. CASE Answer(w)
  <2>1. [pass[w] EXCEPT !.at = "accepted"] \in Pass /\ [pass[w] EXCEPT !.at = "refused"] \in Pass
    BY <1>a, <1>b, PassFields
  <2>2. pass' = [pass EXCEPT ![w] = [pass[w] EXCEPT !.at = "accepted"]]
        \/ pass' = [pass EXCEPT ![w] = [pass[w] EXCEPT !.at = "refused"]]
    BY <1>2 DEF Answer
  <2>3. pass' \in [Instances -> Pass]
    BY <2>1, <2>2 DEF TypeOK
  <2>4. taken' \in [Payments -> BOOLEAN]
    BY <1>2, <1>a DEF Answer, TypeOK
  <2> QED BY <1>2, <2>3, <2>4 DEF Answer, TypeOK, payments, clock, books
<1>3. CASE Complete(w)
  <2> DEFINE p == pass[w].payment
             fee == Once("FEE", p, Fee[p])
  <2>1. p \in Payments /\ Source[p] \in Accounts
    BY <1>a, PaymentConstants
  <2>2. fee \in Nat /\ Once("SETTLEMENT", p, Amount[p]) \in Nat
    BY <2>1, OnceType, PaymentConstants
  <2>3. fee = 0 \/ balance[Source[p]] >= fee
    BY <1>3, <2>2 DEF Complete, Debits
  <2>4. balance' \in [Accounts -> Nat] /\ unsettled' \in Int
    <3>1. balance' = [balance EXCEPT ![Source[p]] = @ - fee]
      BY <1>3 DEF Complete
    <3>4. unsettled' = unsettled - Once("SETTLEMENT", p, Amount[p])
      BY <1>3 DEF Complete
    <3>2. balance \in [Accounts -> Nat] /\ unsettled \in Int
      BY DEF TypeOK
    <3> HIDE DEF fee, p
    <3>3. balance' \in [Accounts -> Nat]
      BY <3>1, <3>2, <2>1, <2>2, <2>3, DebitedType
    <3> QED BY <3>2, <3>3, <3>4, <2>2
  <2>5. status' \in [Payments -> BillPaymentStatus]
    BY <1>3, <2>1, StatusType DEF Complete, BillPaymentStatus
  <2>6. booked' \subseteq EntryKind \X Payments
    <3>1. booked' \subseteq booked \cup {<<"SETTLEMENT", p>>, <<"FEE", p>>}
      BY <1>3 DEF Complete
    <3> QED BY <3>1, <2>1 DEF TypeOK, EntryKind
  <2> QED BY <1>3, <2>4, <2>5, <2>6, TaskTypes DEF Complete, TypeOK, clock, biller
<1>4. CASE LateAcknowledgement(w) \/ FeeRefused(w)
  BY <1>4, TaskTypes DEF LateAcknowledgement, FeeRefused, TypeOK, payments, clock, books, biller
<1>5. CASE Refuse(w)
  <2>1. [pass[w] EXCEPT !.at = "refunding"] \in Pass
    BY <1>a, <1>b, PassFields
  <2>2. status' \in [Payments -> BillPaymentStatus]
    BY <1>5, <1>a, StatusType DEF Refuse, Rejected, TypeOK, BillPaymentStatus
  <2> QED BY <1>5, <2>1, <2>2, TaskTypes DEF Refuse, TypeOK, clock, books, biller
<1>6. CASE Refund(w)
  <2>1. /\ status' \in [Payments -> BillPaymentStatus]
        /\ booked' \subseteq EntryKind \X Payments
        /\ unsettled' \in Int
        /\ balance' \in [Accounts -> Nat]
    BY <1>6, <1>a, RefundedTypes DEF Refund, TypeOK, books
  <2> QED BY <1>6, <2>1, TaskTypes DEF Refund, TypeOK, clock, biller
<1>7. ASSUME NEW p \in Payments, Claim(w, p)
      PROVE  TypeOK'
  <2>1. [at |-> "claimed", queue |-> pass[w].queue \ {p}, payment |-> p] \in Pass
    BY <1>a, <1>b, PassFields
  <2>2. 1 + Cardinality({q \in Payments : submittedAt[q] > 0}) \in Nat
    <3> DEFINE S == {q \in Payments : submittedAt[q] > 0}
    <3>1. IsFiniteSet(Payments) /\ S \subseteq Payments
      BY FS_Interval, PaymentAssumption
    <3>2. Cardinality(S) \in Nat
      BY <3>1, FS_Subset, FS_CardinalityType
    <3> QED BY <3>2
  <2>3. status' \in [Payments -> BillPaymentStatus] /\ submittedAt' \in [Payments -> Nat]
    BY <1>7, <2>2, StatusType DEF Claim, TypeOK, BillPaymentStatus
  <2>4. pass' = [pass EXCEPT ![w] = [at |-> "claimed", queue |-> pass[w].queue \ {p}, payment |-> p]]
    BY <1>7 DEF Claim
  <2>5. pass' \in [Instances -> Pass]
    BY <2>1, <2>4 DEF TypeOK
  <2>6. stranded' \in [Payments -> BOOLEAN]
    BY <1>7 DEF Claim, TypeOK
  <2>7. calls' \in [Payments -> Nat]
    <3>1. calls' = [calls EXCEPT ![p] = @ + 1] /\ calls \in [Payments -> Nat]
      BY <1>7 DEF Claim, TypeOK
    <3> QED BY <3>1
  <2> QED BY <1>7, <2>3, <2>5, <2>6, <2>7 DEF Claim, TypeOK, books
<1>8. ASSUME NEW p \in Payments, Resume(w, p)
      PROVE  TypeOK'
  <2>1. /\ [at |-> "refunding", queue |-> pass[w].queue \ {p}, payment |-> p] \in Pass
        /\ [pass[w] EXCEPT !.queue = pass[w].queue \ {p}] \in Pass
    BY <1>a, <1>b, PassFields
  <2>2. \/ pass' = [pass EXCEPT ![w] =
                       [at |-> "refunding", queue |-> pass[w].queue \ {p}, payment |-> p]]
        \/ pass' = [pass EXCEPT ![w] = NoPass]
        \/ pass' = [pass EXCEPT ![w] = [pass[w] EXCEPT !.queue = pass[w].queue \ {p}]]
    <3>1. CASE status[p] = "REJECTED"
      BY <1>8, <3>1 DEF Resume
    <3>2. CASE status[p] # "REJECTED" /\ pass[w].queue = {p}
      BY <1>8, <3>2 DEF Resume
    <3>3. CASE status[p] # "REJECTED" /\ pass[w].queue # {p}
      BY <1>8, <3>3 DEF Resume
    <3> QED BY <3>1, <3>2, <3>3
  <2>3. pass' \in [Instances -> Pass]
    BY <2>1, <2>2, IdleTypes DEF TypeOK
  <2> QED BY <1>8, <2>3 DEF Resume, TypeOK, payments, clock, books, biller
<1> QED BY <1>1, <1>2, <1>3, <1>4, <1>5, <1>6, <1>7, <1>8 DEF PassStep

(* The steps of a refund sweep keep every variable in its type.            *)
LEMMA SweepStepTypes ==
  ASSUME TypeOK, NEW w \in Instances, SweepStep(w)
  PROVE  TypeOK'
<1>a. sweep[w] \in Sweep /\ sweep[w].payment \in Payments
  BY SweepIsSweep
<1>b. "refunding" \in SweepAt /\ "rejected" \in SweepAt
  BY DEF SweepAt
<1>1. CASE StartSweep(w)
  <2>1. [at |-> "next", payment |-> 1,
         read |-> [p \in Payments |-> IF p \in Oldest THEN status[p] ELSE "NONE"]] \in Sweep
    BY PaymentAssumption DEF Sweep, SweepAt, Oldest, Stranded, Owing
  <2> QED BY <1>1, <2>1 DEF StartSweep, TypeOK, payments, clock, books, biller
<1>2. CASE SweepRefuse(w)
  <2>1. [sweep[w] EXCEPT !.at = "refunding"] \in Sweep
    BY <1>a, <1>b, SweepFields
  <2>2. status' \in [Payments -> BillPaymentStatus]
    BY <1>2, <1>a, StatusType DEF SweepRefuse, Rejected, TypeOK, BillPaymentStatus
  <2> QED BY <1>2, <2>1, <2>2, TaskTypes DEF SweepRefuse, TypeOK, clock, books, biller
<1>3. CASE SweepRefund(w)
  <2>1. /\ status' \in [Payments -> BillPaymentStatus]
        /\ booked' \subseteq EntryKind \X Payments
        /\ unsettled' \in Int
        /\ balance' \in [Accounts -> Nat]
    BY <1>3, <1>a, RefundedTypes DEF SweepRefund, TypeOK, books
  <2> QED BY <1>3, <2>1, TaskTypes DEF SweepRefund, TypeOK, clock, biller
<1>4. ASSUME NEW p \in Payments, Recover(w, p)
      PROVE  TypeOK'
  <2>1. \A at \in SweepAt :
          [at |-> at, read |-> [sweep[w].read EXCEPT ![p] = "NONE"], payment |-> p] \in Sweep
    BY <1>a, SweepFields
  <2>2. \E at \in SweepAt :
          sweep' = [sweep EXCEPT ![w] =
                      [at |-> at, read |-> [sweep[w].read EXCEPT ![p] = "NONE"], payment |-> p]]
    BY <1>4, <1>b DEF Recover
  <2>3. sweep' \in [Instances -> Sweep]
    BY <2>1, <2>2 DEF TypeOK
  <2> QED BY <1>4, <2>3 DEF Recover, TypeOK, payments, clock, books, biller
<1> QED BY <1>1, <1>2, <1>3, <1>4 DEF SweepStep

(* Every step keeps every variable in its type.                            *)
LEMMA TypeStep ==
  ASSUME TypeOK, [Next]_vars
  PROVE  TypeOK'
<1>1. ASSUME NEW p \in Payments, NEW now \in BOOLEAN, Book(p, now)
      PROVE  TypeOK'
  <2>1. balance' \in [Accounts -> Nat] /\ unsettled' \in Int
    <3>1. /\ balance[Source[p]] >= Amount[p]
          /\ balance' = [balance EXCEPT ![Source[p]] = @ - Amount[p]]
      BY <1>1 DEF Book, Debits
    <3>5. unsettled' = unsettled + Amount[p]
      BY <1>1 DEF Book
    <3>2. balance \in [Accounts -> Nat] /\ unsettled \in Int
      BY DEF TypeOK
    <3>3. Source[p] \in Accounts /\ Amount[p] \in Nat
      BY PaymentConstants
    <3>4. balance' \in [Accounts -> Nat]
      BY <3>1, <3>2, <3>3, DebitedType
    <3> QED BY <3>2, <3>3, <3>4, <3>5
  <2>2. status' \in [Payments -> BillPaymentStatus] /\ booked' \subseteq EntryKind \X Payments
    <3>1. status' = [status EXCEPT ![p] = "PENDING"] /\ booked' = booked \cup {<<"DEBIT", p>>}
      BY <1>1 DEF Book
    <3> QED BY <3>1, StatusType, BookedType DEF BillPaymentStatus, EntryKind
  <2>3. due' \in [Payments -> BOOLEAN]
    BY <1>1 DEF Book, TypeOK
  <2> QED BY <1>1, <2>1, <2>2, <2>3 DEF Book, TypeOK, biller
<1>2. ASSUME NEW w \in Instances, PassStep(w) \/ SweepStep(w)
      PROVE  TypeOK'
  BY <1>2, PassStepTypes, SweepStepTypes
<1>3. ASSUME NEW w \in Instances, Crash(w) \/ DatabaseError(w)
      PROVE  TypeOK'
  <2>1. pass' \in [Instances -> Pass] /\ sweep' \in [Instances -> Sweep]
    BY <1>3, IdleTypes, TaskTypes DEF Crash, DatabaseError, TypeOK
  <2>2. faults' \in 0..MaxFaults
    BY <1>3, BillBoundsAssumption DEF Crash, DatabaseError, TypeOK
  <2> QED BY <1>3, <2>1, <2>2 DEF Crash, DatabaseError, TypeOK, payments, clock, books, biller
<1>4. ASSUME NEW p \in Payments, FallsDue(p) \/ Strands(p)
      PROVE  TypeOK'
  BY <1>4 DEF FallsDue, Strands, TypeOK, payments, books, biller
<1>5. ASSUME NEW a \in Accounts, SpendAll(a)
      PROVE  TypeOK'
  BY <1>5 DEF SpendAll, TypeOK, payments, clock, biller
<1>6. ASSUME NEW a \in Accounts, Freeze(a) \/ Unfreeze(a) \/ Close(a)
      PROVE  TypeOK'
  BY <1>6 DEF Freeze, Unfreeze, Close, SetAccount, TypeOK, AccountStatus,
              payments, clock, books, biller
<1>7. CASE UNCHANGED vars
  BY <1>7 DEF vars, TypeOK
<1> QED BY <1>1, <1>2, <1>3, <1>4, <1>5, <1>6, <1>7 DEF Next

(* Every reachable state is of the right type: no balance goes below zero, *)
(* and what a task holds is always a payment.                              *)
THEOREM TypeCorrect == Spec => []TypeOK
<1>1. Init => TypeOK
  BY PaymentAssumption, BillBoundsAssumption, IdleTypes
     DEF Init, TypeOK, BillPaymentStatus, AccountStatus
<1>2. TypeOK /\ [Next]_vars => TypeOK'
  BY TypeStep
<1> QED BY <1>1, <1>2, PTL DEF Spec

-----------------------------------------------------------------------------
(* Every step is an arrow of one payment's life, or none.                  *)

Quiet == UNCHANGED <<status, booked, unsettled, calls>>

Arrow(p, from, to) == status[p] = from /\ status' = [status EXCEPT ![p] = to]

Charged(p) == IF Fee[p] > 0 THEN {<<"FEE", p>>} ELSE {}

Booking(p) ==
  /\ Arrow(p, "NONE", "PENDING")
  /\ booked' = booked \cup {<<"DEBIT", p>>}
  /\ unsettled' = unsettled + Amount[p]
  /\ calls' = calls

Asking(p) ==
  /\ Arrow(p, "PENDING", "SUBMITTED")
  /\ calls' = [calls EXCEPT ![p] = @ + 1]
  /\ booked' = booked /\ unsettled' = unsettled

Settling(p) ==
  /\ Arrow(p, "SUBMITTED", "COMPLETED")
  /\ booked' = booked \cup {<<"SETTLEMENT", p>>} \cup Charged(p)
  /\ unsettled' = unsettled - Amount[p]
  /\ calls' = calls

Rejecting(p) ==
  /\ Arrow(p, "SUBMITTED", "REJECTED")
  /\ booked' = booked /\ unsettled' = unsettled /\ calls' = calls

Refunding(p) ==
  /\ Arrow(p, "REJECTED", "REFUNDED")
  /\ booked' = booked \cup {<<"REVERSAL", p>>}
  /\ unsettled' = unsettled - Amount[p]
  /\ calls' = calls

PaymentMove(p) ==
  Booking(p) \/ Asking(p) \/ Settling(p) \/ Rejecting(p) \/ Refunding(p)

(* Nothing is booked yet under the reference a move books, so it posts the *)
(* whole amount.                                                           *)
LEMMA PostsInFull ==
  ASSUME EntriesMatchStatus, NEW p \in Payments, NEW m
  PROVE  /\ status[p] # "COMPLETED" => Once("SETTLEMENT", p, m) = m
         /\ status[p] # "REFUNDED" => Once("REVERSAL", p, m) = m
BY DEF EntriesMatchStatus, Once

(* A refund is the arrow from REJECTED to REFUNDED.                        *)
LEMMA RefundedIsAMove ==
  ASSUME EntriesMatchStatus, NEW p \in Payments, Refunded(p), calls' = calls
  PROVE  Refunding(p)
<1>1. status[p] = "REJECTED"
  BY DEF Refunded, REFUNDABLE
<1>2. Once("REVERSAL", p, Amount[p]) = Amount[p]
  BY <1>1, PostsInFull
<1> QED BY <1>1, <1>2 DEF Refunded, Refunding, Arrow

(* Every step of every task, and of everything around them, is one arrow.  *)
LEMMA StepIsAMove ==
  ASSUME TypeOK, EntriesMatchStatus, [Next]_vars
  PROVE  Quiet \/ \E p \in Payments : PaymentMove(p)
<1> DEFINE Goal == Quiet \/ \E p \in Payments : PaymentMove(p)
<1>1. ASSUME NEW p \in Payments, NEW now \in BOOLEAN, Book(p, now)
      PROVE  Goal
  BY <1>1 DEF Book, Booking, Arrow, PaymentMove, biller
<1>2. ASSUME NEW w \in Instances, PassStep(w)
      PROVE  Goal
  <2> DEFINE p == pass[w].payment
  <2>0. p \in Payments
    BY PassIsPass
  <2>1. CASE StartPass(w) \/ Answer(w) \/ LateAcknowledgement(w) \/ FeeRefused(w)
    BY <2>1 DEF StartPass, Answer, LateAcknowledgement, FeeRefused, Quiet, payments, books, biller
  <2>2. CASE Complete(w)
    <3>1. status[p] = "SUBMITTED"
      BY <2>2 DEF Complete, SETTLEABLE
    <3>2. Once("SETTLEMENT", p, Amount[p]) = Amount[p]
      BY <2>0, <3>1, PostsInFull
    <3>3. Settling(p)
      BY <2>2, <3>1, <3>2 DEF Complete, Settling, Arrow, Charged, biller
    <3> QED BY <2>0, <3>3 DEF PaymentMove
  <2>3. CASE Refuse(w)
    BY <2>0, <2>3 DEF Refuse, Rejected, REFUSABLE, Rejecting, Arrow, PaymentMove, Quiet, books, biller
  <2>4. CASE Refund(w)
    BY <2>0, <2>4, RefundedIsAMove DEF Refund, PaymentMove, Quiet, books, biller
  <2>5. ASSUME NEW q \in Payments, Claim(w, q)
        PROVE  Goal
    BY <2>5 DEF Claim, SUBMITTABLE, Asking, Arrow, PaymentMove, books
  <2>6. ASSUME NEW q \in Payments, Resume(w, q)
        PROVE  Goal
    BY <2>6 DEF Resume, Quiet, payments, books, biller
  <2> QED BY <1>2, <2>1, <2>2, <2>3, <2>4, <2>5, <2>6 DEF PassStep
<1>3. ASSUME NEW w \in Instances, SweepStep(w)
      PROVE  Goal
  <2>0. sweep[w].payment \in Payments
    BY SweepIsSweep
  <2>1. CASE StartSweep(w)
    BY <2>1 DEF StartSweep, Quiet, payments, books, biller
  <2>2. CASE SweepRefuse(w)
    BY <2>0, <2>2 DEF SweepRefuse, Rejected, REFUSABLE, Rejecting, Arrow, PaymentMove, Quiet, books, biller
  <2>3. CASE SweepRefund(w)
    BY <2>0, <2>3, RefundedIsAMove DEF SweepRefund, PaymentMove, Quiet, books, biller
  <2>4. ASSUME NEW q \in Payments, Recover(w, q)
        PROVE  Goal
    BY <2>4 DEF Recover, Quiet, payments, books, biller
  <2> QED BY <1>3, <2>1, <2>2, <2>3, <2>4 DEF SweepStep
<1>4. ASSUME NEW w \in Instances, Crash(w) \/ DatabaseError(w)
      PROVE  Goal
  BY <1>4 DEF Crash, DatabaseError, Quiet, payments, books, biller
<1>5. ASSUME NEW p \in Payments, FallsDue(p) \/ Strands(p)
      PROVE  Goal
  BY <1>5 DEF FallsDue, Strands, Quiet, payments, books, biller
<1>6. ASSUME NEW a \in Accounts, SpendAll(a) \/ Freeze(a) \/ Unfreeze(a) \/ Close(a)
      PROVE  Goal
  BY <1>6 DEF SpendAll, Freeze, Unfreeze, Close, SetAccount, Quiet, payments, books, biller
<1>7. CASE UNCHANGED vars
  BY <1>7 DEF vars, Quiet
<1> QED BY <1>1, <1>2, <1>3, <1>4, <1>5, <1>6, <1>7 DEF Next

-----------------------------------------------------------------------------
(* The journal and the payment.                                            *)

(* No arrow lets the journal and the status disagree.                      *)
LEMMA EntriesStep ==
  ASSUME TypeOK, EntriesMatchStatus, Quiet \/ \E p \in Payments : PaymentMove(p)
  PROVE  EntriesMatchStatus'
<1>1. CASE Quiet
  BY <1>1 DEF Quiet, EntriesMatchStatus
<1>2. ASSUME NEW p \in Payments, PaymentMove(p)
      PROVE  EntriesMatchStatus'
  <2>1. \A q \in Payments : q # p =>
          /\ status'[q] = status[q]
          /\ \A kind \in EntryKind : <<kind, q>> \in booked' <=> <<kind, q>> \in booked
    <3>1. status' \in {[status EXCEPT ![p] = s] : s \in BillPaymentStatus}
      BY <1>2 DEF PaymentMove, Booking, Asking, Settling, Rejecting, Refunding, Arrow,
                  BillPaymentStatus
    <3>2. ASSUME NEW q \in Payments, q # p, NEW kind \in EntryKind
          PROVE  <<kind, q>> \in booked' <=> <<kind, q>> \in booked
      <4>1. CASE Booking(p)
        BY <3>2, <4>1 DEF Booking
      <4>2. CASE Settling(p)
        BY <3>2, <4>2 DEF Settling, Charged
      <4>3. CASE Refunding(p)
        BY <3>2, <4>3 DEF Refunding
      <4>4. CASE Asking(p) \/ Rejecting(p)
        BY <4>4 DEF Asking, Rejecting
      <4> QED BY <1>2, <4>1, <4>2, <4>3, <4>4 DEF PaymentMove
    <3>3. ASSUME NEW q \in Payments, q # p
          PROVE  status'[q] = status[q]
      BY <3>1, <3>3 DEF TypeOK
    <3> QED BY <3>2, <3>3
  <2>2. /\ <<"DEBIT", p>> \in booked' <=> status'[p] # "NONE"
        /\ <<"SETTLEMENT", p>> \in booked' <=> status'[p] = "COMPLETED"
        /\ <<"FEE", p>> \in booked' <=> status'[p] = "COMPLETED" /\ Fee[p] > 0
        /\ <<"REVERSAL", p>> \in booked' <=> status'[p] = "REFUNDED"
    <3>1. CASE Booking(p)
      BY <3>1 DEF TypeOK, EntriesMatchStatus, Booking, Arrow
    <3>2. CASE Asking(p) \/ Rejecting(p)
      BY <3>2 DEF TypeOK, EntriesMatchStatus, Asking, Rejecting, Arrow
    <3>3. CASE Settling(p)
      BY <3>3 DEF TypeOK, EntriesMatchStatus, Settling, Arrow, Charged
    <3>4. CASE Refunding(p)
      BY <3>4 DEF TypeOK, EntriesMatchStatus, Refunding, Arrow
    <3> QED BY <1>2, <3>1, <3>2, <3>3, <3>4 DEF PaymentMove
  <2>3. ASSUME NEW q \in Payments
        PROVE  /\ <<"DEBIT", q>> \in booked' <=> status'[q] # "NONE"
               /\ <<"SETTLEMENT", q>> \in booked' <=> status'[q] = "COMPLETED"
               /\ <<"FEE", q>> \in booked' <=> status'[q] = "COMPLETED" /\ Fee[q] > 0
               /\ <<"REVERSAL", q>> \in booked' <=> status'[q] = "REFUNDED"
    BY <2>1, <2>2 DEF EntriesMatchStatus, EntryKind
  <2> QED BY <2>3 DEF EntriesMatchStatus
<1> QED BY <1>1, <1>2

(* The journal tells the payment's story: it is settled exactly when it is *)
(* COMPLETED and reversed exactly when it is REFUNDED, so never both.      *)
THEOREM JournalAgrees == Spec => []EntriesMatchStatus
<1>1. Init => EntriesMatchStatus
  BY DEF Init, EntriesMatchStatus
<1>2. TypeOK /\ EntriesMatchStatus /\ [Next]_vars => EntriesMatchStatus'
  BY StepIsAMove, EntriesStep
<1> QED BY <1>1, <1>2, TypeCorrect, PTL DEF Spec

-----------------------------------------------------------------------------
(* What the bank holds in between.                                         *)

(* Changing one payment's status changes what is owed by that payment.     *)
LEMMA OwedAfter ==
  ASSUME TypeOK, NEW p \in Payments, NEW s,
         status' = [status EXCEPT ![p] = s]
  PROVE  LET v == IF s \in {"PENDING", "SUBMITTED", "REJECTED"} THEN Amount[p] ELSE 0
         IN  /\ v \in Int
             /\ Owed' = [Owed EXCEPT ![p] = v]
             /\ Total(Owed', NumPayments) = Total(Owed, NumPayments) - Owed[p] + v
<1> DEFINE v == IF s \in {"PENDING", "SUBMITTED", "REJECTED"} THEN Amount[p] ELSE 0
<1>1. \A q \in Payments : Amount[q] \in Int
  BY PaymentConstants
<1>2. v \in Int /\ Owed \in [1..NumPayments -> Int]
  BY <1>1 DEF Owed, InFlight
<1>3. Owed' = [Owed EXCEPT ![p] = v]
  BY DEF Owed, InFlight, TypeOK
<1>4. NumPayments \in Nat
  BY PaymentAssumption
<1> HIDE DEF v
<1>5. Total([Owed EXCEPT ![p] = v], NumPayments) = Total(Owed, NumPayments) - Owed[p] + v
  BY <1>2, <1>4, TotalUpdate
<1> QED BY <1>2, <1>3, <1>5 DEF v

(* Every arrow moves UNSETTLED_OUTBOUND by what it changes in flight.      *)
LEMMA InFlightStep ==
  ASSUME TypeOK, InFlightExact, Quiet \/ \E p \in Payments : PaymentMove(p)
  PROVE  InFlightExact'
<1>1. CASE Quiet
  BY <1>1 DEF Quiet, InFlightExact, Owed, InFlight
<1>2. ASSUME NEW p \in Payments, PaymentMove(p)
      PROVE  InFlightExact'
  <2> DEFINE before == Total(Owed, NumPayments)
             after  == Total(Owed', NumPayments)
  <2>1. Amount[p] \in Int /\ unsettled \in Int /\ unsettled = before
    BY PaymentConstants DEF TypeOK, InFlightExact
  <2>2. Owed[p] = IF status[p] \in {"PENDING", "SUBMITTED", "REJECTED"} THEN Amount[p] ELSE 0
    BY DEF Owed, InFlight
  <2>3. CASE Booking(p)
    <3>1. Owed[p] = 0 /\ after = before - Owed[p] + Amount[p]
      BY <2>2, <2>3, OwedAfter DEF Booking, Arrow
    <3>2. unsettled' = unsettled + Amount[p]
      BY <2>3 DEF Booking
    <3> QED BY <2>1, <3>1, <3>2 DEF InFlightExact
  <2>4. CASE Asking(p) \/ Rejecting(p)
    <3>1. Owed[p] = Amount[p] /\ after = before - Owed[p] + Amount[p] /\ unsettled' = unsettled
      BY <2>2, <2>4, OwedAfter DEF Asking, Rejecting, Arrow
    <3> QED BY <2>1, <3>1 DEF InFlightExact
  <2>5. CASE Settling(p) \/ Refunding(p)
    <3>1. Owed[p] = Amount[p] /\ after = before - Owed[p] + 0
      BY <2>2, <2>5, OwedAfter DEF Settling, Refunding, Arrow
    <3>2. unsettled' = unsettled - Amount[p]
      BY <2>5 DEF Settling, Refunding
    <3> QED BY <2>1, <3>1, <3>2 DEF InFlightExact
  <2> QED BY <1>2, <2>3, <2>4, <2>5 DEF PaymentMove
<1> QED BY <1>1, <1>2

(* UNSETTLED_OUTBOUND is exactly what was taken for payments that are      *)
(* neither settled nor refunded, for any number of payments.               *)
THEOREM NothingLostInBetween == Spec => []InFlightExact
<1>1. Init => InFlightExact
  <2>1. ASSUME Init
        PROVE  Owed = [p \in 1..NumPayments |-> 0] /\ unsettled = 0
    BY <2>1 DEF Init, Owed, InFlight
  <2>2. NumPayments \in Nat
    BY PaymentAssumption
  <2> QED BY <2>1, <2>2, TotalZero DEF InFlightExact
<1>2. TypeOK /\ EntriesMatchStatus /\ InFlightExact /\ [Next]_vars => InFlightExact'
  BY StepIsAMove, InFlightStep
<1> QED BY <1>1, <1>2, TypeCorrect, JournalAgrees, PTL DEF Spec

-----------------------------------------------------------------------------
(* Asking the biller.                                                      *)

(* The strengthening: a payment was asked for exactly when it has left     *)
(* PENDING, to which nothing returns.                                      *)
CallsMatchStatus ==
  \A p \in Payments : calls[p] = IF status[p] \in {"NONE", "PENDING"} THEN 0 ELSE 1

(* Only the arrow out of PENDING asks the biller.                          *)
LEMMA CallsStep ==
  ASSUME TypeOK, CallsMatchStatus, Quiet \/ \E p \in Payments : PaymentMove(p)
  PROVE  CallsMatchStatus'
<1>1. CASE Quiet
  BY <1>1 DEF Quiet, CallsMatchStatus
<1>2. ASSUME NEW p \in Payments, PaymentMove(p)
      PROVE  CallsMatchStatus'
  <2>1. CASE Asking(p)
    BY <2>1 DEF TypeOK, CallsMatchStatus, Asking, Arrow
  <2>2. CASE Booking(p) \/ Settling(p) \/ Rejecting(p) \/ Refunding(p)
    BY <2>2 DEF TypeOK, CallsMatchStatus, Booking, Settling, Rejecting, Refunding, Arrow
  <2> QED BY <1>2, <2>1, <2>2 DEF PaymentMove
<1> QED BY <1>1, <1>2

(* However many instances run and crash, the biller is asked at most once  *)
(* for a payment.                                                          *)
THEOREM NeverAskedTwice == Spec => []SubmittedOnce
<1>1. Init => CallsMatchStatus
  BY DEF Init, CallsMatchStatus
<1>2. TypeOK /\ EntriesMatchStatus /\ CallsMatchStatus /\ [Next]_vars => CallsMatchStatus'
  BY StepIsAMove, CallsStep
<1>3. CallsMatchStatus => SubmittedOnce
  BY DEF CallsMatchStatus, SubmittedOnce
<1> QED BY <1>1, <1>2, <1>3, TypeCorrect, JournalAgrees, PTL DEF Spec

-----------------------------------------------------------------------------
(* The refinement of BillPromise.                                          *)

(* Where the money is, read off the journal, is where the status says.     *)
PlaceOf(s) ==
  IF s = "NONE" THEN "customer" ELSE IF s = "COMPLETED" THEN "biller"
  ELSE IF s = "REFUNDED" THEN "returned" ELSE "bank"

(* As the journal and the status agree, so do the two places.              *)
LEMMA WhereByStatus ==
  ASSUME EntriesMatchStatus, EntriesMatchStatus', NEW p \in Payments
  PROVE  Where(p) = PlaceOf(status[p]) /\ Where(p)' = PlaceOf(status'[p])
BY DEF EntriesMatchStatus, Where, PlaceOf

(* Every arrow is a step of BillPromise, or changes nothing it can see.    *)
LEMMA PromiseStep ==
  ASSUME TypeOK, EntriesMatchStatus, EntriesMatchStatus',
         Quiet \/ \E p \in Payments : PaymentMove(p)
  PROVE  [Promise!Next]_<<[p \in Payments |-> Where(p)], unsettled>>
<1> DEFINE money == [p \in Payments |-> Where(p)]
<1>1. CASE Quiet
  BY <1>1 DEF Quiet, Where
<1>2. ASSUME NEW p \in Payments, PaymentMove(p)
      PROVE  [Promise!Next]_<<money, unsettled>>
  <2>1. ASSUME NEW to, Where(p)' = to,
               \A q \in Payments : q # p => status'[q] = status[q]
        PROVE  money' = [money EXCEPT ![p] = to]
    <3>1. \A q \in Payments : q # p => Where(q)' = Where(q)
      BY <2>1, WhereByStatus
    <3> QED BY <2>1, <3>1
  <2>2. \A q \in Payments : q # p => status'[q] = status[q]
    BY <1>2 DEF TypeOK, PaymentMove, Booking, Asking, Settling, Rejecting, Refunding, Arrow
  <2>3. CASE Booking(p)
    <3>1. Where(p) = "customer" /\ Where(p)' = "bank"
      BY <2>3, WhereByStatus DEF TypeOK, Booking, Arrow, PlaceOf
    <3>2. Promise!Take(p)
      BY <2>1, <2>2, <2>3, <3>1 DEF Promise!Take, Promise!Moves, Booking
    <3> QED BY <3>2 DEF Promise!Next, Promise!Payments
  <2>4. CASE Asking(p) \/ Rejecting(p)
    <3>1. Where(p)' = Where(p)
      BY <2>4, WhereByStatus DEF TypeOK, Asking, Rejecting, Arrow, PlaceOf
    <3>2. unsettled' = unsettled
      BY <2>4 DEF Asking, Rejecting
    <3> QED BY <2>1, <2>2, <3>1, <3>2
  <2>5. CASE Settling(p)
    <3>1. Where(p) = "bank" /\ Where(p)' = "biller"
      BY <2>5, WhereByStatus DEF TypeOK, Settling, Arrow, PlaceOf
    <3>2. Promise!PayOver(p)
      BY <2>1, <2>2, <2>5, <3>1 DEF Promise!PayOver, Promise!Moves, Settling
    <3> QED BY <3>2 DEF Promise!Next, Promise!Payments
  <2>6. CASE Refunding(p)
    <3>1. Where(p) = "bank" /\ Where(p)' = "returned"
      BY <2>6, WhereByStatus DEF TypeOK, Refunding, Arrow, PlaceOf
    <3>2. Promise!GiveBack(p)
      BY <2>1, <2>2, <2>6, <3>1 DEF Promise!GiveBack, Promise!Moves, Refunding
    <3> QED BY <3>2 DEF Promise!Next, Promise!Payments
  <2> QED BY <1>2, <2>3, <2>4, <2>5, <2>6 DEF PaymentMove
<1> QED BY <1>1, <1>2

(* Bill payments implement BillPromise: seen through the journal, money is *)
(* taken once and then paid over or given back once.                       *)
THEOREM PromiseKept == Spec => KeepsPromise
<1>1. Init => Promise!Init
  BY DEF Init, Promise!Init, Promise!Payments, Where
<1>2. TypeOK /\ EntriesMatchStatus /\ EntriesMatchStatus' /\ [Next]_vars
        => [Promise!Next]_<<[p \in Payments |-> Where(p)], unsettled>>
  BY StepIsAMove, PromiseStep
<1> QED BY <1>1, <1>2, TypeCorrect, JournalAgrees, PTL DEF Spec, KeepsPromise, Promise!Spec
=============================================================================
