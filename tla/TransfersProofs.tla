--------------------------- MODULE TransfersProofs ---------------------------
(***************************************************************************)
(* Proofs about transfers behind idempotency keys: for any number of       *)
(* calls, keys and quotes, any amounts, limits and length of day, and any  *)
(* crash, lost answer and expiry.                                          *)
(*                                                                         *)
(* Three things carry the argument.  A transaction that has cleared its    *)
(* checks and has not been overtaken still finds them true, also on the    *)
(* next day, in whose window nothing has been counted (Clearance).  What   *)
(* is written and not yet resolved would still pass them as of the moment  *)
(* it was written at, since nothing else is booked before it is resolved,  *)
(* whoever is left to wait for it (PendingHolds).  And a request that is   *)
(* served has its key, with its own body under it, for itself (KeysServe). *)
(***************************************************************************)
EXTENDS Transfers, TotalsProofs

USE DEF Quotes, Times

-----------------------------------------------------------------------------
(* The invariant.                                                          *)

(* A transaction belongs to a request being executed; and if nobody has    *)
(* overtaken it, the checks it cleared would still pass.                   *)
Clearance ==
  \A c \in Calls : work[c] # "none" =>
    /\ At(c, "executing")
    /\ work[c] = "cleared" => ~Refused(call[c].body)

(* What is pending has no transfer yet, and the account and the limits of  *)
(* its moment bear it; at most one request waits for it, and it is that    *)
(* request's.  A request whose commit took effect has a transfer.          *)
PendingHolds ==
  /\ ~Unwritten =>
       /\ pending.quote \in Quotes /\ pending.at \in Times /\ pending.at <= now
       /\ ~AlreadyBooked(pending.quote)
       /\ Covered(pending.quote) /\ ~Breach(pending.quote, pending.at)
  /\ \A c \in Calls :
       /\ work[c] = "written" => ~Unwritten /\ pending.quote = call[c].body
       /\ work[c] = "committed" => AlreadyBooked(call[c].body)
       /\ \A d \in Calls : work[c] = "written" /\ work[d] = "written" => c = d

(* A request being served has its key, with its body, and an answer when   *)
(* its handler has returned.                                               *)
KeysServe ==
  \A c \in Calls : ~At(c, "idle") =>
    /\ call[c].body \in Quotes
    /\ key[call[c].key].status # "ABSENT" /\ key[call[c].key].body = call[c].body
    /\ At(c, "executed") => call[c].answer # None

(* Windows that are yet to begin have counted nothing.                     *)
NothingAhead ==
  /\ \A d \in Days : d > Day(now) => dayUsage[d] = [total |-> 0, count |-> 0]
  /\ \A m \in Months : m > Month(now) => monthUsage[m] = [total |-> 0, count |-> 0]

-----------------------------------------------------------------------------
(* Sums and windows.                                                       *)

(* One more transfer adds its amount to what was paid.                     *)
LEMMA PaidByOneMore ==
  ASSUME NEW S \in SUBSET Quotes, NEW q \in Quotes, q \notin S
  PROVE  PaidBy(S \cup {q}) = PaidBy(S) + Amount[q]
<1>1. NumQuotes \in Nat /\ Amount[q] \in Int /\ AmountsIn(S) \in [1..NumQuotes -> Int]
  BY TransferAssumption DEF AmountsIn
<1>2. AmountsIn(S \cup {q}) = [AmountsIn(S) EXCEPT ![q] = Amount[q]] /\ AmountsIn(S)[q] = 0
  BY DEF AmountsIn
<1>3. Total(AmountsIn(S), NumQuotes) \in Int
  BY <1>1, TotalType
<1>4. Total([AmountsIn(S) EXCEPT ![q] = Amount[q]], NumQuotes)
        = Total(AmountsIn(S), NumQuotes) - AmountsIn(S)[q] + Amount[q]
  BY <1>1, TotalUpdate
<1>5. PaidBy(S \cup {q}) = Total(AmountsIn(S \cup {q}), NumQuotes)
      /\ PaidBy(S) = Total(AmountsIn(S), NumQuotes)
  BY DEF PaidBy
<1> QED BY <1>1, <1>2, <1>3, <1>4, <1>5

(* And one to their number.                                                *)
LEMMA CountOfOneMore ==
  ASSUME NEW S \in SUBSET Quotes, NEW q \in Quotes, q \notin S
  PROVE  CountOf(S \cup {q}) = CountOf(S) + 1
<1>1. NumQuotes \in Nat /\ OnesIn(S) \in [1..NumQuotes -> Int]
  BY TransferAssumption DEF OnesIn
<1>2. OnesIn(S \cup {q}) = [OnesIn(S) EXCEPT ![q] = 1] /\ OnesIn(S)[q] = 0
  BY DEF OnesIn
<1>3. Total(OnesIn(S), NumQuotes) \in Int
  BY <1>1, TotalType
<1>4. Total([OnesIn(S) EXCEPT ![q] = 1], NumQuotes)
        = Total(OnesIn(S), NumQuotes) - OnesIn(S)[q] + 1
  <2>1. ASSUME NEW v \in Int
        PROVE  Total([OnesIn(S) EXCEPT ![q] = v], NumQuotes)
                 = Total(OnesIn(S), NumQuotes) - OnesIn(S)[q] + v
    BY <1>1, TotalUpdate
  <2> QED BY <2>1
<1>5. CountOf(S \cup {q}) = Total(OnesIn(S \cup {q}), NumQuotes)
      /\ CountOf(S) = Total(OnesIn(S), NumQuotes)
  BY DEF CountOf
<1> QED BY <1>2, <1>3, <1>4, <1>5

(* No transfers, nothing paid.                                             *)
LEMMA NothingPaid == PaidBy({}) = 0 /\ CountOf({}) = 0
<1>1. NumQuotes \in Nat /\ AmountsIn({}) \in [1..NumQuotes -> Int]
      /\ OnesIn({}) \in [1..NumQuotes -> Int]
  BY TransferAssumption DEF AmountsIn, OnesIn
<1>2. (\A i \in 1..NumQuotes : AmountsIn({})[i] = 0) /\ (\A i \in 1..NumQuotes : OnesIn({})[i] = 0)
  BY DEF AmountsIn, OnesIn
<1>3. Total(AmountsIn({}), NumQuotes) = 0 /\ Total(OnesIn({}), NumQuotes) = 0
  BY <1>1, <1>2, TotalZero
<1> QED BY <1>3 DEF PaidBy, CountOf

(* Division keeps order.                                                   *)
LEMMA Division ==
  ASSUME NEW n \in Nat \ {0}, NEW a \in Nat, NEW b \in Nat, a <= b
  PROVE  a \div n \in Nat /\ a \div n <= b \div n
OBVIOUS

(* Every moment falls into a day and a month, and the days go forward.     *)
LEMMA Windows ==
  ASSUME NEW t \in Times
  PROVE  /\ Day(t) \in Days /\ Month(t) \in Months
         /\ \A u \in Times : u <= t => Day(u) <= Day(t) /\ Month(u) <= Month(t)
<1>1. MaxTime \in Nat /\ DayLength \in Nat \ {0} /\ MonthLength \in Nat \ {0}
      /\ t \in Nat /\ t <= MaxTime
  BY TransferAssumption, TransferBoundsAssumption
<1>2. /\ t \div DayLength \in Nat /\ t \div DayLength <= MaxTime \div DayLength
      /\ t \div MonthLength \in Nat /\ t \div MonthLength <= MaxTime \div MonthLength
  BY <1>1, Division
<1>3. MaxTime \div DayLength \in Nat /\ MaxTime \div MonthLength \in Nat
  BY <1>1, Division
<1>4. Day(t) \in Days /\ Month(t) \in Months
  BY <1>2, <1>3 DEF Day, Month, Days, Months
<1>5. ASSUME NEW u \in Times, u <= t PROVE Day(u) <= Day(t) /\ Month(u) <= Month(t)
  BY <1>1, <1>5, Division DEF Day, Month
<1> QED BY <1>4, <1>5

-----------------------------------------------------------------------------
(* What a step does to the ledger, and to time.                            *)

(* Only a commit that lands changes the ledger.                            *)
LEMMA LedgerStep ==
  ASSUME [Next]_vars
  PROVE  UNCHANGED ledger \/ Land
<1>1. ASSUME NEW q \in Quotes, Quote(q) PROVE UNCHANGED ledger
  BY <1>1 DEF Quote
<1>2. ASSUME NEW c \in Calls, NEW k \in Keys, NEW q \in Quotes, Request(c, k, q)
      PROVE  UNCHANGED ledger
  BY <1>2 DEF Request, transfersUnchanged
<1>3. ASSUME NEW c \in Calls,
             \/ FindWinner(c) \/ Clear(c) \/ Refuse(c) \/ Write(c) \/ Restart(c)
             \/ Duplicate(c) \/ Book(c) \/ BookUnsure(c)
      PROVE  UNCHANGED ledger
  BY <1>3 DEF FindWinner, Clear, Refuse, Write, Restart, Duplicate, Book, BookUnsure
<1>4. ASSUME NEW c \in Calls, Respond(c) \/ Crash(c) PROVE UNCHANGED ledger
  BY <1>4 DEF Respond, Crash, transfersUnchanged
<1>5. CASE GiveUp
  BY <1>5 DEF GiveUp
<1>6. ASSUME NEW k \in Keys, Forget(k) PROVE UNCHANGED ledger
  BY <1>6 DEF Forget, transfersUnchanged
<1>7. CASE Tick
  BY <1>7 DEF Tick
<1>8. CASE UNCHANGED vars
  BY <1>8 DEF vars, ledger
<1> QED BY <1>1, <1>2, <1>3, <1>4, <1>5, <1>6, <1>7, <1>8 DEF Next

(* Time stands still but for a tick.                                       *)
LEMMA TimeStep ==
  ASSUME [Next]_vars
  PROVE  now' = now \/ Tick
<1>1. ASSUME NEW q \in Quotes, Quote(q) PROVE now' = now
  BY <1>1 DEF Quote
<1>2. ASSUME NEW c \in Calls, NEW k \in Keys, NEW q \in Quotes, Request(c, k, q)
      PROVE  now' = now
  BY <1>2 DEF Request, transfersUnchanged
<1>3. ASSUME NEW c \in Calls,
             \/ FindWinner(c) \/ Clear(c) \/ Refuse(c) \/ Write(c) \/ Restart(c)
             \/ Duplicate(c) \/ Book(c) \/ BookUnsure(c)
      PROVE  now' = now
  BY <1>3 DEF FindWinner, Clear, Refuse, Write, Restart, Duplicate, Book, BookUnsure
<1>4. ASSUME NEW c \in Calls, Respond(c) \/ Crash(c) PROVE now' = now
  BY <1>4 DEF Respond, Crash, transfersUnchanged
<1>5. CASE Land \/ GiveUp
  BY <1>5 DEF Land, GiveUp
<1>6. ASSUME NEW k \in Keys, Forget(k) PROVE now' = now
  BY <1>6 DEF Forget, transfersUnchanged
<1>7. CASE UNCHANGED vars
  BY <1>7 DEF vars
<1> QED BY <1>1, <1>2, <1>3, <1>4, <1>5, <1>6, <1>7 DEF Next

(* What lands is a quote that has no transfer, that the account covers,    *)
(* and that the limits of its moment let through.                          *)
LEMMA LandedQuote ==
  ASSUME PendingHolds, Land
  PROVE  /\ pending.quote \in Quotes /\ countedAt[pending.quote] = 0
         /\ pending.at \in Times /\ pending.at <= now
         /\ Covered(pending.quote) /\ ~Breach(pending.quote, pending.at)
BY DEF Land, PendingHolds, AlreadyBooked

-----------------------------------------------------------------------------
(* Types.                                                                  *)

(* Types of the ledger after a commit has landed.                          *)
LEMMA LandedType ==
  ASSUME TypeOK, PendingHolds, Land
  PROVE  /\ journal' \subseteq Quotes /\ countedAt' \in [Quotes -> {0} \cup Times]
         /\ available' \in Nat
         /\ dayUsage' \in [Days -> UsageCounter] /\ monthUsage' \in [Months -> UsageCounter]
         /\ work' \in [Calls -> Work]
<1> DEFINE q == pending.quote
           t == pending.at
<1>1. q \in Quotes /\ t \in Times /\ Covered(q) /\ Amount[q] \in Nat
  BY LandedQuote, TransferAssumption
<1>2. available' \in Nat
  <2>1. available' = available - Once(q) /\ Once(q) \in {0, Amount[q]} /\ available \in Nat
    BY DEF Land, Once, TypeOK
  <2> HIDE DEF q
  <2> QED BY <1>1, <2>1 DEF Covered
<1>3. journal' \subseteq Quotes /\ countedAt' \in [Quotes -> {0} \cup Times]
  BY <1>1 DEF Land, TypeOK
<1>4. dayUsage' \in [Days -> UsageCounter] /\ monthUsage' \in [Months -> UsageCounter]
  <2>1. \A u \in UsageCounter : Accumulate(u, Amount[q]) \in UsageCounter
    BY <1>1 DEF Accumulate, UsageCounter
  <2>2. /\ dayUsage' = [dayUsage EXCEPT ![Day(t)] = Accumulate(@, Amount[q])]
        /\ monthUsage' = [monthUsage EXCEPT ![Month(t)] = Accumulate(@, Amount[q])]
    BY DEF Land
  <2> QED BY <2>1, <2>2 DEF TypeOK
<1>5. work' \in [Calls -> Work]
  BY DEF Land, Overtaken, Work, TypeOK
<1> QED BY <1>2, <1>3, <1>4, <1>5

(* Types of the keys and the calls after a step of the interceptor.        *)
LEMMA InterceptorType ==
  ASSUME TypeOK, NEW c \in Calls,
         \/ \E k \in Keys, q \in Quotes : Claim(c, k, q) \/ TurnedAway(c, k, q) \/ Replay(c, k, q)
         \/ Complete(c) \/ CompleteFails(c) \/ Release(c)
  PROVE  key' \in [Keys -> KeyDocument] /\ call' \in [Calls -> Call]
<1>0. Bodies = Quotes /\ None \notin Bodies
  BY TransferAssumption, BodiesAssumption
<1>a. key \in [Keys -> KeyDocument] /\ call \in [Calls -> Call]
  BY DEF TypeOK
<1>b. call[c].key \in Keys /\ call[c].answer \in Bodies \cup {None}
  BY <1>a DEF Call
<1>1. ASSUME NEW k \in Keys, NEW q \in Quotes, Claim(c, k, q)
      PROVE  key' \in [Keys -> KeyDocument] /\ call' \in [Calls -> Call]
  BY <1>0, <1>a, <1>1 DEF Claim, KeyDocument, Call, IdempotencyStatus
<1>2. ASSUME NEW k \in Keys, NEW q \in Quotes, TurnedAway(c, k, q)
      PROVE  key' \in [Keys -> KeyDocument] /\ call' \in [Calls -> Call]
  BY <1>0, <1>a, <1>2 DEF TurnedAway, Call
<1>3. ASSUME NEW k \in Keys, NEW q \in Quotes, Replay(c, k, q)
      PROVE  key' \in [Keys -> KeyDocument] /\ call' \in [Calls -> Call]
  <2>1. key[k].response \in Bodies \cup {None}
    BY <1>a DEF KeyDocument
  <2> QED BY <1>0, <1>a, <1>3, <2>1 DEF Replay, Call
<1>4. Stored(c) => key' \in [Keys -> KeyDocument]
  <2>1. \A doc \in KeyDocument, b \in Bodies \cup {None} :
          [doc EXCEPT !.status = "COMPLETED", !.response = b] \in KeyDocument
    BY DEF KeyDocument, IdempotencyStatus
  <2>2. key[call[c].key] \in KeyDocument
    BY <1>a, <1>b
  <2> QED BY <1>a, <1>b, <2>1, <2>2 DEF Stored
<1>5. ASSUME Complete(c) \/ CompleteFails(c)
      PROVE  key' \in [Keys -> KeyDocument] /\ call' \in [Calls -> Call]
  <2>1. key' \in [Keys -> KeyDocument]
    BY <1>a, <1>4, <1>5 DEF Complete, CompleteFails
  <2>2. CASE Complete(c)
    BY <1>a, <2>1, <2>2 DEF Complete, Call
  <2>3. CASE CompleteFails(c)
    <3>1. call' = [[call EXCEPT ![c].at = "failed"] EXCEPT ![c].answer = None]
      BY <2>3 DEF CompleteFails
    <3>2. [call EXCEPT ![c].at = "failed"] \in [Calls -> Call]
      BY <1>a DEF Call
    <3>3. \A f \in [Calls -> Call] : [f EXCEPT ![c].answer = None] \in [Calls -> Call]
      BY DEF Call
    <3> QED BY <2>1, <3>1, <3>2, <3>3
  <2> QED BY <1>5, <2>2, <2>3
<1>6. ASSUME Release(c) PROVE key' \in [Keys -> KeyDocument] /\ call' \in [Calls -> Call]
  <2>1. Absent \in KeyDocument
    BY DEF Absent, KeyDocument, IdempotencyStatus
  <2>2. key' \in [Keys -> KeyDocument]
    BY <1>a, <1>6, <2>1 DEF Release
  <2>3. call' \in [Calls -> Call]
    BY <1>a, <1>6 DEF Release, Call
  <2> QED BY <2>2, <2>3
<1> QED BY <1>1, <1>2, <1>3, <1>5, <1>6

(* Every step keeps the types.                                             *)
LEMMA TypeNext ==
  ASSUME TypeOK, PendingHolds, KeysServe, [Next]_vars
  PROVE  TypeOK'
<1> DEFINE Served == key' \in [Keys -> KeyDocument] /\ call' \in [Calls -> Call]
           Booking == /\ journal' \subseteq Quotes /\ countedAt' \in [Quotes -> {0} \cup Times]
                      /\ available' \in Nat
                      /\ dayUsage' \in [Days -> UsageCounter]
                      /\ monthUsage' \in [Months -> UsageCounter]
           Clock == now' \in Times /\ expiresAt' \in [Quotes -> Nat]
           Working == work' \in [Calls -> Work] /\ pending' \in Pending
<1>0. /\ key \in [Keys -> KeyDocument] /\ call \in [Calls -> Call]
      /\ now \in Times /\ expiresAt \in [Quotes -> Nat] /\ work \in [Calls -> Work]
      /\ pending \in Pending
  BY DEF TypeOK
<1>1. Booking
  <2>1. CASE UNCHANGED ledger
    BY <2>1 DEF ledger, TypeOK
  <2>2. CASE Land
    BY <2>2, LandedType
  <2> QED BY <2>1, <2>2, LedgerStep
<1>a. \A f \in [Calls -> Work], c \in Calls, w \in Work : [f EXCEPT ![c] = w] \in [Calls -> Work]
  OBVIOUS
<1>b. "none" \in Work /\ "cleared" \in Work /\ "written" \in Work /\ NoPending \in Pending
  BY DEF Work, NoPending, Pending
<1>c. ASSUME NEW c \in Calls, NEW b \in Bodies, Returns(c, b)
      PROVE  call' \in [Calls -> Call]
  BY <1>0, <1>c DEF Returns, Call
<1>d. ASSUME NEW c \in Calls, Throws(c) PROVE call' \in [Calls -> Call]
  BY <1>0, <1>d DEF Throws, Call
<1>e. ASSUME NEW c \in Calls, At(c, "executing") PROVE call[c].body \in Bodies
  BY <1>e, TransferAssumption DEF At, KeysServe
<1>2. ASSUME NEW q \in Quotes, Quote(q) PROVE Served /\ Clock /\ Working
  <2>1. now + Ttl \in Nat
    BY <1>0, TransferAssumption, TransferBoundsAssumption
  <2> QED BY <1>0, <1>2, <2>1 DEF Quote, interceptor
<1>3. ASSUME NEW c \in Calls, NEW k \in Keys, NEW q \in Quotes, Request(c, k, q)
      PROVE  Served /\ Clock /\ Working
  BY <1>0, <1>3, InterceptorType DEF Request, transfersUnchanged
<1>4. ASSUME NEW c \in Calls, Respond(c) PROVE Served /\ Clock /\ Working
  BY <1>0, <1>4, InterceptorType DEF Respond, transfersUnchanged
<1>5. ASSUME NEW c \in Calls, FindWinner(c) \/ Duplicate(c) \/ Book(c)
      PROVE  Served /\ Clock /\ Working
  BY <1>0, <1>5, <1>a, <1>b, <1>c, <1>e DEF FindWinner, Duplicate, Book
<1>6. ASSUME NEW c \in Calls, Clear(c) \/ Restart(c) PROVE Served /\ Clock /\ Working
  BY <1>0, <1>6, <1>a, <1>b DEF Clear, Restart, interceptor
<1>7. ASSUME NEW c \in Calls, Refuse(c) \/ BookUnsure(c) PROVE Served /\ Clock /\ Working
  BY <1>0, <1>7, <1>a, <1>b, <1>d DEF Refuse, BookUnsure
<1>8. ASSUME NEW c \in Calls, Write(c) PROVE Served /\ Clock /\ Working
  <2>1. [quote |-> call[c].body, at |-> now] \in Pending
    BY <1>0, <1>8, <1>e, TransferAssumption DEF Write, Pending
  <2> QED BY <1>0, <1>8, <1>a, <1>b, <2>1 DEF Write, interceptor
<1>9. ASSUME NEW c \in Calls, Crash(c) PROVE Served /\ Clock /\ Working
  <2>1. [call EXCEPT ![c].at = "idle"] \in [Calls -> Call]
    BY <1>0 DEF Call
  <2>2. \A f \in [Calls -> Call] : [f EXCEPT ![c].answer = None] \in [Calls -> Call]
    BY DEF Call
  <2>3. call' = [[call EXCEPT ![c].at = "idle"] EXCEPT ![c].answer = None]
    BY <1>9 DEF Crash, Dropped
  <2> QED BY <1>0, <1>9, <1>a, <1>b, <2>1, <2>2, <2>3 DEF Crash
<1>10. ASSUME NEW k \in Keys, Forget(k) PROVE Served /\ Clock /\ Working
  <2>1. Absent \in KeyDocument
    BY DEF Absent, KeyDocument, IdempotencyStatus
  <2> QED BY <1>0, <1>10, <2>1 DEF Forget, Expire, transfersUnchanged
<1>11. ASSUME Tick PROVE Served /\ Clock /\ Working
  <2>1. now' \in Times
    BY <1>0, <1>11, TransferBoundsAssumption DEF Tick
  <2> QED BY <1>0, <1>11, <2>1 DEF Tick, interceptor
<1>12. ASSUME UNCHANGED vars PROVE Served /\ Clock /\ Working
  BY <1>0, <1>12 DEF vars
<1>13. ASSUME Land \/ GiveUp PROVE Served /\ Clock /\ Working
  <2>1. UNCHANGED <<key, call, now, expiresAt>> /\ pending' = NoPending
    BY <1>13 DEF Land, GiveUp, interceptor
  <2>2. work' \in [Calls -> Work]
    <3>1. CASE Land
      BY <3>1, LandedType
    <3>2. CASE GiveUp
      BY <1>0, <3>2 DEF GiveUp, Work
    <3> QED BY <1>13, <3>1, <3>2
  <2> QED BY <1>0, <1>b, <2>1, <2>2
<1>14. Served /\ Clock /\ Working
  BY <1>2, <1>3, <1>4, <1>5, <1>6, <1>7, <1>8, <1>9, <1>10, <1>11, <1>12, <1>13 DEF Next
<1> QED BY <1>1, <1>14 DEF TypeOK

-----------------------------------------------------------------------------
(* Limits.                                                                 *)

(* The transfers counted in a window, after a commit has landed.           *)
LEMMA CountedThen ==
  ASSUME TypeOK, PendingHolds, Land
  PROVE  LET q == pending.quote
             t == pending.at
         IN
         /\ \A d \in Days : CountedOn(d)' =
              IF d = Day(t) THEN CountedOn(d) \cup {q} ELSE CountedOn(d)
         /\ \A m \in Months : CountedWithin(m)' =
              IF m = Month(t) THEN CountedWithin(m) \cup {q} ELSE CountedWithin(m)
         /\ \A d \in Days : CountedOn(d) \subseteq Quotes \ {q}
         /\ \A m \in Months : CountedWithin(m) \subseteq Quotes \ {q}
<1> DEFINE q == pending.quote
           t == pending.at
<1>1. q \in Quotes /\ countedAt[q] = 0
  BY LandedQuote
<1>2. t \in Nat /\ t # 0
  BY LandedQuote, TransferBoundsAssumption
<1>3. countedAt' = [countedAt EXCEPT ![q] = t] /\ countedAt \in [Quotes -> {0} \cup Times]
  BY DEF Land, TypeOK
<1> HIDE DEF q, t
<1>4. \A p \in Quotes : countedAt'[p] = IF p = q THEN t ELSE countedAt[p]
  BY <1>1, <1>3
<1>5. ASSUME NEW d \in Days
      PROVE  CountedOn(d)' = IF d = Day(t) THEN CountedOn(d) \cup {q} ELSE CountedOn(d)
  <2>1. CountedOn(d)' = {p \in Quotes : countedAt'[p] # 0 /\ Day(countedAt'[p]) = d}
    BY DEF CountedOn
  <2> QED BY <1>1, <1>2, <1>4, <2>1 DEF CountedOn
<1>6. ASSUME NEW m \in Months
      PROVE  CountedWithin(m)' =
               IF m = Month(t) THEN CountedWithin(m) \cup {q} ELSE CountedWithin(m)
  <2>1. CountedWithin(m)' = {p \in Quotes : countedAt'[p] # 0 /\ Month(countedAt'[p]) = m}
    BY DEF CountedWithin
  <2> QED BY <1>1, <1>2, <1>4, <2>1 DEF CountedWithin
<1>7. /\ \A d \in Days : CountedOn(d) \subseteq Quotes \ {q}
      /\ \A m \in Months : CountedWithin(m) \subseteq Quotes \ {q}
  BY <1>1 DEF CountedOn, CountedWithin
<1> QED BY <1>5, <1>6, <1>7 DEF q, t

(* It keeps every window within its limits and its counter exact.          *)
LEMMA LandedWithinLimits ==
  ASSUME TypeOK, PendingHolds, LimitsHeld, Land
  PROVE  LimitsHeld'
<1> DEFINE q == pending.quote
           t == pending.at
<1>1. q \in Quotes /\ ~Breach(q, t) /\ Amount[q] \in Nat
  BY LandedQuote, TransferAssumption
<1>2. Day(t) \in Days /\ Month(t) \in Months
  BY LandedQuote, Windows
<1>3. dayUsage' = [dayUsage EXCEPT ![Day(t)] = Accumulate(@, Amount[q])]
      /\ monthUsage' = [monthUsage EXCEPT ![Month(t)] = Accumulate(@, Amount[q])]
  BY DEF Land
<1>4. /\ \A d \in Days : CountedOn(d)' =
           IF d = Day(t) THEN CountedOn(d) \cup {q} ELSE CountedOn(d)
      /\ \A m \in Months : CountedWithin(m)' =
           IF m = Month(t) THEN CountedWithin(m) \cup {q} ELSE CountedWithin(m)
      /\ \A d \in Days : CountedOn(d) \subseteq Quotes \ {q}
      /\ \A m \in Months : CountedWithin(m) \subseteq Quotes \ {q}
  BY CountedThen
<1> HIDE DEF q, t
<1>5. /\ dayUsage \in [Days -> UsageCounter] /\ monthUsage \in [Months -> UsageCounter]
  BY DEF TypeOK
<1>6. ASSUME NEW d \in Days
      PROVE  /\ dayUsage'[d] = [total |-> PaidBy(CountedOn(d)'), count |-> CountOf(CountedOn(d)')]
             /\ dayUsage'[d].total <= DailyAmount /\ dayUsage'[d].count <= DailyCount
  <2>1. CASE d = Day(t)
    <3>1. dayUsage[d] = [total |-> PaidBy(CountedOn(d)), count |-> CountOf(CountedOn(d))]
      BY DEF LimitsHeld
    <3>2. dayUsage'[d] = [total |-> dayUsage[d].total + Amount[q], count |-> dayUsage[d].count + 1]
      BY <1>3, <1>5, <2>1 DEF Accumulate
    <3>3. /\ PaidBy(CountedOn(d)') = PaidBy(CountedOn(d)) + Amount[q]
          /\ CountOf(CountedOn(d)') = CountOf(CountedOn(d)) + 1
      BY <1>1, <1>4, <2>1, PaidByOneMore, CountOfOneMore
    <3>4. ~(dayUsage[d].total + Amount[q] > DailyAmount) /\ ~(dayUsage[d].count + 1 > DailyCount)
      BY <1>1, <2>1 DEF Breach
    <3>5. dayUsage[d].total \in Nat /\ dayUsage[d].count \in Nat /\ DailyAmount \in Nat
          /\ DailyCount \in Nat
      BY <1>5, TransferAssumption DEF UsageCounter
    <3> QED BY <1>1, <3>1, <3>2, <3>3, <3>4, <3>5
  <2>2. CASE d # Day(t)
    <3>1. dayUsage'[d] = dayUsage[d] /\ CountedOn(d)' = CountedOn(d)
      BY <1>3, <1>4, <1>5, <2>2
    <3> QED BY <3>1 DEF LimitsHeld
  <2> QED BY <2>1, <2>2
<1>7. ASSUME NEW m \in Months
      PROVE  /\ monthUsage'[m] = [total |-> PaidBy(CountedWithin(m)'),
                                  count |-> CountOf(CountedWithin(m)')]
             /\ monthUsage'[m].total <= MonthlyAmount
  <2>1. CASE m = Month(t)
    <3>1. monthUsage[m] = [total |-> PaidBy(CountedWithin(m)), count |-> CountOf(CountedWithin(m))]
      BY DEF LimitsHeld
    <3>2. monthUsage'[m] = [total |-> monthUsage[m].total + Amount[q],
                            count |-> monthUsage[m].count + 1]
      BY <1>3, <1>5, <2>1 DEF Accumulate
    <3>3. /\ PaidBy(CountedWithin(m)') = PaidBy(CountedWithin(m)) + Amount[q]
          /\ CountOf(CountedWithin(m)') = CountOf(CountedWithin(m)) + 1
      BY <1>1, <1>4, <2>1, PaidByOneMore, CountOfOneMore
    <3>4. ~(monthUsage[m].total + Amount[q] > MonthlyAmount)
      BY <1>1, <2>1 DEF Breach
    <3>5. monthUsage[m].total \in Nat /\ MonthlyAmount \in Nat
      BY <1>5, TransferAssumption DEF UsageCounter
    <3> QED BY <1>1, <3>1, <3>2, <3>3, <3>4, <3>5
  <2>2. CASE m # Month(t)
    <3>1. monthUsage'[m] = monthUsage[m] /\ CountedWithin(m)' = CountedWithin(m)
      BY <1>3, <1>4, <1>5, <2>2
    <3> QED BY <3>1 DEF LimitsHeld
  <2> QED BY <2>1, <2>2
<1>8. /\ \A d \in Days : PaidBy(CountedOn(d))' = PaidBy(CountedOn(d)')
                         /\ CountOf(CountedOn(d))' = CountOf(CountedOn(d)')
      /\ \A m \in Months : PaidBy(CountedWithin(m))' = PaidBy(CountedWithin(m)')
                           /\ CountOf(CountedWithin(m))' = CountOf(CountedWithin(m)')
  BY DEF PaidBy, CountOf, AmountsIn, OnesIn
<1> QED BY <1>6, <1>7, <1>8 DEF LimitsHeld

(* So does every step.                                                     *)
LEMMA LimitsNext ==
  ASSUME TypeOK, PendingHolds, LimitsHeld, [Next]_vars
  PROVE  LimitsHeld'
<1>1. CASE UNCHANGED ledger
  BY <1>1 DEF ledger, LimitsHeld, CountedOn, CountedWithin, PaidBy, CountOf, AmountsIn, OnesIn
<1>2. CASE Land
  BY <1>2, LandedWithinLimits
<1> QED BY <1>1, <1>2, LedgerStep

(* No window after now's is counted in, and now never goes back.           *)
LEMMA AheadNext ==
  ASSUME TypeOK, PendingHolds, NothingAhead, [Next]_vars, TypeOK'
  PROVE  NothingAhead'
<1>1. now \in Times /\ now' \in Times /\ MaxTime \in Nat
  BY TransferBoundsAssumption DEF TypeOK
<1>2. /\ Day(now) \in Days /\ Month(now) \in Months
      /\ Day(now') \in Days /\ Month(now') \in Months
      /\ Day(now) <= Day(now') /\ Month(now) <= Month(now')
  <2>1. now <= now'
    BY <1>1, TimeStep DEF Tick
  <2> QED BY <1>1, <2>1, Windows
<1>3. /\ (\A d \in Days : d \in Nat) /\ (\A m \in Months : m \in Nat)
      /\ Day(now) \in Nat /\ Month(now) \in Nat /\ Day(now') \in Nat /\ Month(now') \in Nat
  <2>1. (\A d \in Days : d \in Nat) /\ (\A m \in Months : m \in Nat)
    BY DEF Days, Months
  <2> QED BY <1>2, <2>1
<1>4. /\ \A d \in Days : d > Day(now) => dayUsage'[d] = dayUsage[d]
      /\ \A m \in Months : m > Month(now) => monthUsage'[m] = monthUsage[m]
  <2>1. CASE UNCHANGED ledger
    BY <2>1 DEF ledger
  <2>2. CASE Land
    <3>1. /\ Day(pending.at) \in Days /\ Month(pending.at) \in Months
          /\ Day(pending.at) <= Day(now) /\ Month(pending.at) <= Month(now)
      BY <1>1, <2>2, LandedQuote, Windows
    <3>2. Day(pending.at) \in Nat /\ Month(pending.at) \in Nat
      BY <1>3, <3>1
    <3>3. \A a, b \in Nat : a <= b => ~(a > b)
      OBVIOUS
    <3>4. ~(Day(pending.at) > Day(now)) /\ ~(Month(pending.at) > Month(now))
      BY <1>3, <3>1, <3>2, <3>3
    <3> QED BY <2>2, <3>4 DEF Land, TypeOK
  <2> QED BY <2>1, <2>2, LedgerStep
<1>5. ASSUME NEW d \in Days, d > Day(now') PROVE dayUsage'[d] = [total |-> 0, count |-> 0]
  <2>1. \A a, b, e \in Nat : a <= b /\ e > b => e > a
    OBVIOUS
  <2>2. d > Day(now)
    BY <1>2, <1>3, <1>5, <2>1
  <2> QED BY <1>4, <2>2 DEF NothingAhead
<1>6. ASSUME NEW m \in Months, m > Month(now')
      PROVE  monthUsage'[m] = [total |-> 0, count |-> 0]
  <2>1. \A a, b, e \in Nat : a <= b /\ e > b => e > a
    OBVIOUS
  <2>2. m > Month(now)
    BY <1>2, <1>3, <1>6, <2>1
  <2> QED BY <1>4, <2>2 DEF NothingAhead
<1>7. Day(now)' = Day(now') /\ Month(now)' = Month(now')
  BY DEF Day, Month
<1> QED BY <1>5, <1>6, <1>7 DEF NothingAhead

-----------------------------------------------------------------------------
(* Checks that were cleared.                                               *)

(* What was within its limits still is after a tick: in the same window    *)
(* nothing was counted, and in the next nothing yet.                       *)
LEMMA TickKeepsCleared ==
  ASSUME TypeOK, NothingAhead, Tick, NEW q \in Quotes, ~Refused(q)
  PROVE  ~Refused(q)'
<1>1. /\ now \in Times /\ now' \in Times /\ now <= now'
      /\ Amount[q] \in Nat /\ DailyAmount \in Nat /\ DailyCount \in Nat /\ MonthlyAmount \in Nat
      /\ PerTransaction \in Nat
  BY TransferAssumption, TransferBoundsAssumption DEF TypeOK, Tick
<1>2. /\ Day(now) \in Days /\ Month(now) \in Months
      /\ Day(now') \in Days /\ Month(now') \in Months
      /\ Day(now) <= Day(now') /\ Month(now) <= Month(now')
  BY <1>1, Windows
<1>3. /\ (\A d \in Days : d \in Nat) /\ (\A m \in Months : m \in Nat)
      /\ Day(now) \in Nat /\ Month(now) \in Nat /\ Day(now') \in Nat /\ Month(now') \in Nat
  <2>1. (\A d \in Days : d \in Nat) /\ (\A m \in Months : m \in Nat)
    BY DEF Days, Months
  <2> QED BY <1>2, <2>1
<1>4. /\ dayUsage' = dayUsage /\ monthUsage' = monthUsage /\ available' = available
  BY DEF Tick, ledger
<1>5. /\ available >= Amount[q] /\ ~(Amount[q] > PerTransaction)
      /\ ~(dayUsage[Day(now)].count + 1 > DailyCount)
      /\ ~(dayUsage[Day(now)].total + Amount[q] > DailyAmount)
      /\ ~(monthUsage[Month(now)].total + Amount[q] > MonthlyAmount)
  BY DEF Refused, Covered, Breach
<1>6. /\ dayUsage[Day(now)].total \in Nat /\ dayUsage[Day(now)].count \in Nat
      /\ monthUsage[Month(now)].total \in Nat
  BY <1>2 DEF TypeOK, UsageCounter
<1>10. \A a, b \in Nat : a <= b /\ a # b => b > a
  OBVIOUS
<1>7. /\ ~(dayUsage[Day(now')].count + 1 > DailyCount)
      /\ ~(dayUsage[Day(now')].total + Amount[q] > DailyAmount)
  <2>1. CASE Day(now') = Day(now)
    BY <1>5, <2>1
  <2>2. CASE Day(now') # Day(now)
    <3>0. Day(now') > Day(now)
      BY <1>2, <1>3, <2>2, <1>10
    <3>1. dayUsage[Day(now')] = [total |-> 0, count |-> 0]
      BY <1>2, <3>0 DEF NothingAhead
    <3> QED BY <1>1, <1>5, <1>6, <3>1
  <2> QED BY <2>1, <2>2
<1>8. ~(monthUsage[Month(now')].total + Amount[q] > MonthlyAmount)
  <2>1. CASE Month(now') = Month(now)
    BY <1>5, <2>1
  <2>2. CASE Month(now') # Month(now)
    <3>0. Month(now') > Month(now)
      BY <1>2, <1>3, <2>2, <1>10
    <3>1. monthUsage[Month(now')] = [total |-> 0, count |-> 0]
      BY <1>2, <3>0 DEF NothingAhead
    <3> QED BY <1>1, <1>5, <1>6, <3>1
  <2> QED BY <2>1, <2>2
<1>9. Day(now)' = Day(now') /\ Month(now)' = Month(now')
  BY DEF Day, Month
<1> QED BY <1>4, <1>5, <1>7, <1>8, <1>9 DEF Refused, Covered, Breach

(* A step that touches neither ledger nor time, and leaves all but one     *)
(* request without a transaction alone, keeps the clearances.              *)
LEMMA ClearanceElsewhere ==
  ASSUME TypeOK, Clearance, UNCHANGED <<ledger, now>>, NEW c \in Calls, work'[c] = "none",
         \A d \in Calls : d # c => work'[d] = work[d] /\ call'[d] = call[d]
  PROVE  Clearance'
BY DEF Clearance, ledger, At, Refused, Covered, Breach, Day, Month

(* Every step keeps the clearances.                                        *)
LEMMA ClearanceNext ==
  ASSUME TypeOK, Clearance, KeysServe, NothingAhead, [Next]_vars
  PROVE  Clearance'
<1>0. call \in [Calls -> Call] /\ work \in [Calls -> Work]
  BY DEF TypeOK
<1>1. ASSUME UNCHANGED <<call, work, ledger, now>> PROVE Clearance'
  BY <1>1 DEF Clearance, ledger, At, Refused, Covered, Breach, Day, Month
<1>2. ASSUME NEW q \in Quotes, Quote(q) PROVE Clearance'
  BY <1>1, <1>2 DEF Quote, interceptor
<1>3. ASSUME NEW c \in Calls, NEW k \in Keys, NEW q \in Quotes, Request(c, k, q)
      PROVE  Clearance'
  <2>1. At(c, "idle") /\ work'[c] = work[c] /\ UNCHANGED <<ledger, now, work>>
    BY <1>3 DEF Request, Claim, TurnedAway, Replay, transfersUnchanged
  <2>2. work[c] = "none"
    BY <2>1 DEF Clearance, At
  <2>3. \A d \in Calls : d # c => call'[d] = call[d]
    BY <1>0, <1>3 DEF Request, Claim, TurnedAway, Replay
  <2> QED BY <2>1, <2>2, <2>3, ClearanceElsewhere
<1>4. ASSUME NEW c \in Calls,
             \/ FindWinner(c) \/ Refuse(c) \/ Duplicate(c) \/ Book(c) \/ BookUnsure(c) \/ Crash(c)
      PROVE  Clearance'
  <2>1. work'[c] = "none" /\ UNCHANGED <<ledger, now>>
    BY <1>0, <1>4 DEF FindWinner, Refuse, Duplicate, Book, BookUnsure, Crash
  <2>2. \A d \in Calls : d # c => work'[d] = work[d] /\ call'[d] = call[d]
    BY <1>0, <1>4 DEF FindWinner, Refuse, Duplicate, Book, BookUnsure, Crash, Returns, Throws,
                      Dropped
  <2> QED BY <2>1, <2>2, ClearanceElsewhere
<1>5. ASSUME NEW c \in Calls, Respond(c) PROVE Clearance'
  <2>1. ~At(c, "executing") /\ UNCHANGED <<ledger, now, work>>
    BY <1>5 DEF Respond, Complete, CompleteFails, Release, transfersUnchanged, At
  <2>2. work[c] = "none"
    BY <2>1 DEF Clearance
  <2>3. \A d \in Calls : d # c => call'[d] = call[d]
    BY <1>0, <1>5 DEF Respond, Complete, CompleteFails, Release
  <2> QED BY <2>1, <2>2, <2>3, ClearanceElsewhere
<1>6. ASSUME NEW c \in Calls, Clear(c) PROVE Clearance'
  <2>1. /\ At(c, "executing") /\ ~Refused(call[c].body) /\ work' = [work EXCEPT ![c] = "cleared"]
        /\ UNCHANGED <<call, now, ledger>>
    BY <1>6 DEF Clear, interceptor
  <2> QED BY <1>0, <2>1
       DEF Clearance, ledger, At, Refused, Covered, Breach, Day, Month
<1>7. ASSUME NEW c \in Calls, Restart(c) PROVE Clearance'
  BY <1>0, <1>7, ClearanceElsewhere DEF Restart, interceptor
<1>8. ASSUME NEW c \in Calls, Write(c) PROVE Clearance'
  <2>1. At(c, "executing") /\ work' = [work EXCEPT ![c] = "written"] /\ UNCHANGED <<call, now, ledger>>
    BY <1>8 DEF Write, interceptor
  <2> QED BY <1>0, <2>1 DEF Clearance, ledger, At, Refused, Covered, Breach, Day, Month
<1>12. CASE Land
  <2>1. work' = [d \in Calls |-> IF work[d] = "written" THEN "committed" ELSE Overtaken(d)]
        /\ UNCHANGED call
    BY <1>12 DEF Land, interceptor
  <2>2. \A d \in Calls : work'[d] # "cleared" /\ (work'[d] # "none" => work[d] # "none")
    BY <1>0, <2>1 DEF Overtaken, Work
  <2> QED BY <2>1, <2>2 DEF Clearance, At
<1>13. CASE GiveUp
  <2>1. work' = [d \in Calls |-> IF work[d] = "written" THEN "stale" ELSE work[d]]
        /\ UNCHANGED <<call, now, ledger>>
    BY <1>13 DEF GiveUp, interceptor
  <2> QED BY <1>0, <2>1 DEF Clearance, ledger, At, Refused, Covered, Breach, Day, Month
<1>9. ASSUME NEW k \in Keys, Forget(k) PROVE Clearance'
  BY <1>1, <1>9 DEF Forget, Expire, transfersUnchanged
<1>10. ASSUME Tick PROVE Clearance'
  <2>1. UNCHANGED <<call, work, ledger>>
    BY <1>10 DEF Tick, interceptor
  <2>2. ASSUME NEW c \in Calls, work[c] # "none"
        PROVE  At(c, "executing")' /\ (work'[c] = "cleared" => ~Refused(call[c].body)')
    <3>1. At(c, "executing") /\ call[c].body \in Quotes
      BY <2>2 DEF Clearance, KeysServe, At
    <3>2. call' = call /\ work' = work
      BY <2>1
    <3>3. PICK q \in Quotes : q = call[c].body
      BY <3>1
    <3>4. work[c] = "cleared" => ~Refused(q)
      BY <2>2, <3>3 DEF Clearance
    <3>5. ~Refused(q) => ~Refused(q)'
      BY <1>10, TickKeepsCleared
    <3>6. call'[c].body = q
      BY <3>2, <3>3
    <3>7. Refused(call[c].body)' = Refused(q)'
      BY <3>6 DEF Refused, Covered, Breach, Day, Month
    <3> QED BY <3>1, <3>2, <3>4, <3>5, <3>7 DEF At
  <2> QED BY <2>1, <2>2 DEF Clearance
<1>11. ASSUME UNCHANGED vars PROVE Clearance'
  BY <1>1, <1>11 DEF vars, ledger
<1> QED BY <1>2, <1>3, <1>4, <1>5, <1>6, <1>7, <1>8, <1>9, <1>10, <1>11, <1>12, <1>13 DEF Next

-----------------------------------------------------------------------------
(* What is pending.                                                        *)

(* A step that touches neither ledger nor what is pending, and after which *)
(* no more requests wait for it or were answered about it, keeps it.       *)
LEMMA PendingElsewhere ==
  ASSUME TypeOK, PendingHolds, UNCHANGED <<ledger, pending>>, now' \in Times, now <= now',
         \A c \in Calls : work'[c] \in {"written", "committed"} =>
           work'[c] = work[c] /\ call'[c].body = call[c].body
  PROVE  PendingHolds'
<1>1. ~Unwritten' =>
        /\ pending'.quote \in Quotes /\ pending'.at \in Times /\ pending'.at <= now'
        /\ ~AlreadyBooked(pending.quote)'
        /\ Covered(pending.quote)' /\ ~Breach(pending.quote, pending.at)'
  <2>1. now \in Int /\ now' \in Int /\ \A a, b, e \in Int : a <= b /\ b <= e => a <= e
    BY TransferBoundsAssumption DEF TypeOK
  <2>2. \A a \in Times : a \in Int
    BY TransferBoundsAssumption
  <2> QED BY <2>1, <2>2 DEF PendingHolds, Unwritten, ledger, AlreadyBooked, Covered, Breach, Day, Month
<1> QED BY <1>1 DEF PendingHolds, Unwritten, ledger, AlreadyBooked

(* Every step keeps it.                                                    *)
LEMMA PendingNext ==
  ASSUME TypeOK, Clearance, KeysServe, PendingHolds, [Next]_vars
  PROVE  PendingHolds'
<1>0. /\ call \in [Calls -> Call] /\ work \in [Calls -> Work] /\ now \in Times
      /\ now <= now
  BY TransferBoundsAssumption DEF TypeOK
<1>1. ASSUME UNCHANGED <<call, work, ledger, now, pending>> PROVE PendingHolds'
  BY <1>0, <1>1, PendingElsewhere
<1>2. ASSUME NEW c \in Calls, UNCHANGED <<ledger, now, pending>>,
             work'[c] \notin {"written", "committed"},
             \A d \in Calls : d # c => work'[d] = work[d] /\ call'[d] = call[d]
      PROVE  PendingHolds'
  BY <1>0, <1>2, PendingElsewhere
<1>3. ASSUME NEW q \in Quotes, Quote(q) PROVE PendingHolds'
  BY <1>1, <1>3 DEF Quote, interceptor
<1>4. ASSUME NEW c \in Calls, NEW k \in Keys, NEW q \in Quotes, Request(c, k, q)
      PROVE  PendingHolds'
  <2>1. At(c, "idle") /\ UNCHANGED <<ledger, now, work, pending>>
    BY <1>4 DEF Request, Claim, TurnedAway, Replay, transfersUnchanged
  <2>2. work'[c] = "none"
    BY <2>1 DEF Clearance, At
  <2>3. \A d \in Calls : d # c => call'[d] = call[d]
    BY <1>0, <1>4 DEF Request, Claim, TurnedAway, Replay
  <2> QED BY <1>2, <2>1, <2>2, <2>3
<1>5. ASSUME NEW c \in Calls,
             \/ FindWinner(c) \/ Duplicate(c) \/ Book(c) \/ BookUnsure(c) \/ Crash(c)
             \/ Refuse(c) /\ work[c] # "written"
      PROVE  PendingHolds'
  <2>1. work'[c] = "none" /\ UNCHANGED <<ledger, now, pending>>
    BY <1>0, <1>5 DEF FindWinner, Refuse, Duplicate, Book, BookUnsure, Crash
  <2>2. \A d \in Calls : d # c => work'[d] = work[d] /\ call'[d] = call[d]
    BY <1>0, <1>5 DEF FindWinner, Refuse, Duplicate, Book, BookUnsure, Crash, Returns, Throws,
                      Dropped
  <2> QED BY <1>2, <2>1, <2>2
<1>6. ASSUME NEW c \in Calls, Refuse(c), work[c] = "written" PROVE PendingHolds'
  <2>1. pending' = NoPending /\ work' = [work EXCEPT ![c] = "none"] /\ UNCHANGED <<ledger, now>>
    BY <1>6 DEF Refuse
  <2>2. \A d \in Calls : d # c => call'[d] = call[d]
    BY <1>0, <1>6 DEF Refuse, Throws
  <2>3. \A d \in Calls : work'[d] # "written"
    BY <1>0, <1>6, <2>1 DEF PendingHolds
  <2>4. \A d \in Calls : work'[d] = "committed" => AlreadyBooked(call[d].body)'
    BY <1>0, <2>1, <2>2 DEF PendingHolds, AlreadyBooked, ledger
  <2> QED BY <2>1, <2>3, <2>4 DEF PendingHolds, Unwritten
<1>7. ASSUME NEW c \in Calls, Respond(c) PROVE PendingHolds'
  <2>1. ~At(c, "executing") /\ UNCHANGED <<ledger, now, work, pending>>
    BY <1>7 DEF Respond, Complete, CompleteFails, Release, transfersUnchanged, At
  <2>2. work'[c] = "none"
    BY <2>1 DEF Clearance
  <2>3. \A d \in Calls : d # c => call'[d] = call[d]
    BY <1>0, <1>7 DEF Respond, Complete, CompleteFails, Release
  <2> QED BY <1>2, <2>1, <2>2, <2>3
<1>8. ASSUME NEW c \in Calls, Clear(c) \/ Restart(c) PROVE PendingHolds'
  <2>1. /\ UNCHANGED <<ledger, now, pending, call>>
        /\ work'[c] \in {"none", "cleared"} /\ \A d \in Calls : d # c => work'[d] = work[d]
    BY <1>0, <1>8 DEF Clear, Restart, interceptor
  <2> QED BY <1>2, <2>1
<1>9. ASSUME NEW c \in Calls, Write(c) PROVE PendingHolds'
  <2>1. /\ At(c, "executing") /\ work[c] = "cleared" /\ Unwritten
        /\ ~AlreadyBooked(call[c].body) /\ pending' = [quote |-> call[c].body, at |-> now]
        /\ work' = [work EXCEPT ![c] = "written"] /\ UNCHANGED <<call, now, ledger>>
    BY <1>9 DEF Write, interceptor
  <2>2. call[c].body \in Quotes /\ Covered(call[c].body) /\ ~Breach(call[c].body, now)
    BY <2>1 DEF Clearance, KeysServe, At, Refused
  <2>3. pending'.quote = call[c].body /\ pending'.at = now
    BY <2>1
  <2>4. /\ ~AlreadyBooked(pending.quote)' /\ Covered(pending.quote)'
        /\ ~Breach(pending.quote, pending.at)'
    BY <2>1, <2>2, <2>3 DEF AlreadyBooked, Covered, Breach, Day, Month, ledger
  <2>5. \A d \in Calls : work[d] # "written"
    BY <2>1 DEF PendingHolds
  <2>6. /\ \A d \in Calls : work'[d] = "written" => d = c
        /\ \A d \in Calls : work'[d] = "committed" => work[d] = "committed"
    BY <1>0, <2>1, <2>5
  <2>7. pending' # NoPending
    <3>1. pending'.at # NoPending.at
      BY <1>0, <2>3, TransferBoundsAssumption DEF NoPending
    <3> QED BY <3>1
  <2> QED BY <1>0, <2>1, <2>2, <2>3, <2>4, <2>6, <2>7
       DEF PendingHolds, Unwritten, AlreadyBooked, ledger
<1>10. CASE Land
  <2>1. /\ pending' = NoPending /\ UNCHANGED call
        /\ work' = [d \in Calls |-> IF work[d] = "written" THEN "committed" ELSE Overtaken(d)]
        /\ countedAt' = [countedAt EXCEPT ![pending.quote] = pending.at]
    BY <1>10 DEF Land, interceptor
  <2>2. \A d \in Calls : /\ work'[d] # "written"
                         /\ work'[d] = "committed" => work[d] \in {"written", "committed"}
    BY <1>0, <2>1 DEF Overtaken, Work
  <2>3. pending.quote \in Quotes /\ pending.at # 0 /\ countedAt \in [Quotes -> {0} \cup Times]
    BY <1>10, LandedQuote, TransferBoundsAssumption DEF TypeOK
  <2>4. ASSUME NEW d \in Calls, work'[d] = "committed" PROVE AlreadyBooked(call[d].body)'
    <3>1. PICK q \in Quotes : q = call[d].body
      BY <2>2, <2>4 DEF Clearance, KeysServe, At
    <3>2. q = pending.quote \/ countedAt[q] # 0
      BY <2>2, <2>4, <3>1 DEF PendingHolds, AlreadyBooked
    <3>3. countedAt'[q] # 0
      BY <2>1, <2>3, <3>2
    <3> QED BY <2>1, <3>1, <3>3 DEF AlreadyBooked
  <2>5. Unwritten'
    BY <2>1 DEF Unwritten, NoPending
  <2>6. \A d \in Calls : work'[d] = "committed" => AlreadyBooked(call[d].body)'
    BY <2>4
  <2> QED BY <2>2, <2>5, <2>6 DEF PendingHolds, AlreadyBooked
<1>11. CASE GiveUp
  <2>1. /\ pending' = NoPending /\ UNCHANGED <<call, now, ledger>>
        /\ work' = [d \in Calls |-> IF work[d] = "written" THEN "stale" ELSE work[d]]
    BY <1>11 DEF GiveUp, interceptor
  <2>2. \A d \in Calls : /\ work'[d] # "written"
                         /\ work'[d] = "committed" => work[d] = "committed"
    BY <1>0, <2>1
  <2> QED BY <2>1, <2>2 DEF PendingHolds, Unwritten, AlreadyBooked, ledger
<1>12. ASSUME NEW k \in Keys, Forget(k) PROVE PendingHolds'
  BY <1>1, <1>12 DEF Forget, Expire, transfersUnchanged
<1>13. CASE Tick
  <2>1. /\ UNCHANGED <<call, work, ledger, pending>> /\ now' = now + 1 /\ now < MaxTime
    BY <1>13 DEF Tick, interceptor
  <2>2. now' \in Times /\ now <= now'
    BY <1>0, <2>1, TransferBoundsAssumption
  <2> QED BY <2>1, <2>2, PendingElsewhere
<1>14. CASE UNCHANGED vars
  BY <1>1, <1>14 DEF vars, ledger
<1> QED BY <1>3, <1>4, <1>5, <1>6, <1>7, <1>8, <1>9, <1>10, <1>11, <1>12, <1>13, <1>14 DEF Next

-----------------------------------------------------------------------------
(* Once, and what clients are told.                                        *)

(* The account pays for a transfer when its commit lands, and only then.   *)
LEMMA OnceNext ==
  ASSUME TypeOK, PendingHolds, TransferOnce, [Next]_vars
  PROVE  TransferOnce'
<1>1. CASE UNCHANGED ledger
  BY <1>1 DEF ledger, TransferOnce, PaidBy, AmountsIn
<1>2. CASE Land
  <2>1. PICK q \in Quotes : q = pending.quote
    BY <1>2, LandedQuote
  <2>2. /\ countedAt[q] = 0 /\ countedAt \in [Quotes -> {0} \cup Times]
        /\ pending.at \in Nat /\ pending.at # 0
    BY <1>2, <2>1, LandedQuote, TransferBoundsAssumption DEF TypeOK
  <2>3. /\ journal' = journal \cup {q} /\ countedAt' = [countedAt EXCEPT ![q] = pending.at]
        /\ available' = available - Once(q)
    BY <1>2, <2>1 DEF Land
  <2>4. q \notin journal /\ journal \in SUBSET Quotes
    BY <2>2 DEF TransferOnce
  <2>5. Once(q) = Amount[q]
    BY <2>4 DEF Once
  <2>6. journal' = {p \in Quotes : countedAt'[p] # 0}
    BY <2>2, <2>3 DEF TransferOnce
  <2>7. PaidBy(journal') = PaidBy(journal) + Amount[q]
    BY <2>3, <2>4, PaidByOneMore
  <2>8. available = Funds - PaidBy(journal) /\ Amount[q] \in Int /\ Funds \in Int
    BY TransferAssumption, TransferBoundsAssumption DEF TransferOnce
  <2>9. PaidBy(journal) \in Int
    <3>1. AmountsIn(journal) \in [1..NumQuotes -> Int]
      BY TransferAssumption DEF AmountsIn
    <3> QED BY <3>1, TransferAssumption, TotalType DEF PaidBy
  <2>10. available' = Funds - PaidBy(journal')
    BY <2>3, <2>5, <2>7, <2>8, <2>9
  <2>11. PaidBy(journal)' = PaidBy(journal')
    BY DEF PaidBy, AmountsIn
  <2> QED BY <2>6, <2>10, <2>11 DEF TransferOnce
<1> QED BY <1>1, <1>2, LedgerStep

(* What the requests are at, while a handler runs.                         *)
LEMMA HandlerStep ==
  ASSUME TypeOK, NEW c \in Calls,
         \/ FindWinner(c) \/ Clear(c) \/ Refuse(c) \/ Write(c) \/ Restart(c)
         \/ Duplicate(c) \/ Book(c) \/ BookUnsure(c)
  PROVE  /\ At(c, "executing") /\ UNCHANGED key
         /\ \A d \in Calls : d # c => call'[d] = call[d]
         /\ call'[c].key = call[c].key /\ call'[c].body = call[c].body
         /\ \/ call'[c].at = "executed" /\ call'[c].answer = call[c].body
            \/ call'[c].at \in {"executing", "failed"} /\ call'[c].answer = call[c].answer
<1>0. call \in [Calls -> Call]
  BY DEF TypeOK
<1>1. ASSUME Returns(c, call[c].body)
      PROVE  /\ \A d \in Calls : d # c => call'[d] = call[d]
             /\ call'[c].key = call[c].key /\ call'[c].body = call[c].body
             /\ call'[c].at = "executed" /\ call'[c].answer = call[c].body
  <2>1. call' = [[call EXCEPT ![c].at = "executed"] EXCEPT ![c].answer = call[c].body]
    BY <1>1 DEF Returns
  <2>2. [call EXCEPT ![c].at = "executed"] \in [Calls -> Call]
    BY <1>0 DEF Call
  <2> QED BY <1>0, <2>1, <2>2 DEF Call
<1>2. ASSUME Throws(c)
      PROVE  /\ \A d \in Calls : d # c => call'[d] = call[d]
             /\ call'[c].key = call[c].key /\ call'[c].body = call[c].body
             /\ call'[c].at = "failed" /\ call'[c].answer = call[c].answer
  BY <1>0, <1>2 DEF Throws, Call
<1>3. CASE FindWinner(c) \/ Book(c) \/ Duplicate(c)
  <2>1. Returns(c, call[c].body) /\ At(c, "executing") /\ UNCHANGED key
    BY <1>3 DEF FindWinner, Book, Duplicate
  <2> QED BY <1>1, <2>1
<1>4. CASE Refuse(c) \/ BookUnsure(c)
  <2>1. Throws(c) /\ At(c, "executing") /\ UNCHANGED key
    BY <1>4 DEF Refuse, BookUnsure
  <2> QED BY <1>2, <2>1
<1>5. CASE Clear(c) \/ Write(c) \/ Restart(c)
  BY <1>0, <1>5 DEF Clear, Write, Restart, interceptor, At
<1> QED BY <1>3, <1>4, <1>5

(* And once it has ended.                                                  *)
LEMMA FinishStep ==
  ASSUME TypeOK, NEW c \in Calls,
         Complete(c) \/ CompleteFails(c) \/ Release(c) \/ Dropped(c)
  PROVE  /\ ~At(c, "idle")
         /\ \A d \in Calls : d # c => call'[d] = call[d]
         /\ call'[c].key = call[c].key /\ call'[c].body = call[c].body
         /\ call'[c].at \in {"idle", "failed"}
         /\ Complete(c) \/ Release(c) \/ Dropped(c) => call'[c].at = "idle"
         /\ call'[c].answer \in {call[c].answer, None}
<1>0. call \in [Calls -> Call]
  BY DEF TypeOK
<1>1. CASE Complete(c) \/ Release(c)
  BY <1>0, <1>1 DEF Complete, Release, Call, At
<1>2. ASSUME NEW where \in {"idle", "failed"},
             call' = [call EXCEPT ![c].at = where, ![c].answer = None]
      PROVE  /\ \A d \in Calls : d # c => call'[d] = call[d]
             /\ call'[c].key = call[c].key /\ call'[c].body = call[c].body
             /\ call'[c].at = where /\ call'[c].answer = None
  <2>1. call' = [[call EXCEPT ![c].at = where] EXCEPT ![c].answer = None]
    BY <1>2
  <2>2. [call EXCEPT ![c].at = where] \in [Calls -> Call]
    BY <1>0 DEF Call
  <2> QED BY <1>0, <2>1, <2>2 DEF Call
<1>3. CASE CompleteFails(c)
  <2>1. At(c, "executed") /\ call' = [call EXCEPT ![c].at = "failed", ![c].answer = None]
    BY <1>3 DEF CompleteFails
  <2>2. ~(Complete(c) \/ Release(c) \/ Dropped(c))
    <3>1. call'[c].at = "failed"
      BY <1>2, <2>1
    <3>2. ASSUME Dropped(c) PROVE call'[c].at = "idle"
      BY <1>2, <3>2 DEF Dropped
    <3>3. ASSUME Complete(c) \/ Release(c) PROVE call'[c].at = "idle"
      BY <1>0, <3>3 DEF Complete, Release, Call
    <3> QED BY <3>1, <3>2, <3>3
  <2> QED BY <1>2, <2>1, <2>2 DEF At
<1>4. CASE Dropped(c)
  BY <1>2, <1>4 DEF Dropped, At
<1> QED BY <1>1, <1>3, <1>4

(* A step of Next, by who makes it.                                        *)
LEMMA StepCases ==
  ASSUME [Next]_vars
  PROVE  \/ UNCHANGED <<key, call>>
         \/ \E c \in Calls : \E k \in Keys, q \in Quotes :
              Claim(c, k, q) \/ TurnedAway(c, k, q) \/ Replay(c, k, q)
         \/ \E c \in Calls :
              \/ FindWinner(c) \/ Clear(c) \/ Refuse(c) \/ Write(c) \/ Restart(c)
              \/ Duplicate(c) \/ Book(c) \/ BookUnsure(c)
         \/ \E c \in Calls : Complete(c) \/ CompleteFails(c) \/ Release(c)
         \/ \E c \in Calls : Dropped(c) /\ UNCHANGED key
         \/ \E k \in Keys : Expire(k)
<1>1. ASSUME NEW q \in Quotes, Quote(q) PROVE UNCHANGED <<key, call>>
  BY <1>1 DEF Quote, interceptor
<1>2. CASE Land \/ GiveUp \/ Tick \/ UNCHANGED vars
  BY <1>2 DEF Land, GiveUp, Tick, vars, interceptor
<1> QED BY <1>1, <1>2 DEF Next, Request, Respond, Crash, Forget

(* Served requests keep their keys.                                        *)
LEMMA KeysNext ==
  ASSUME TypeOK, KeysServe, OneHandler, [Next]_vars
  PROVE  KeysServe'
<1>0. /\ key \in [Keys -> KeyDocument] /\ call \in [Calls -> Call]
      /\ None \notin Quotes /\ Bodies = Quotes
  BY TransferAssumption DEF TypeOK, None
<1>1. CASE UNCHANGED <<key, call>>
  BY <1>1 DEF KeysServe, At
<1>2. ASSUME NEW c \in Calls, NEW k \in Keys, NEW q \in Quotes, Claim(c, k, q)
      PROVE  KeysServe'
  <2>1. key[k].status = "ABSENT"
    BY <1>2 DEF Claim, Claimable
  <2>2. /\ key' = [key EXCEPT ![k] = [status |-> "IN_FLIGHT", body |-> q, response |-> None]]
        /\ call' = [call EXCEPT ![c] = [at |-> "executing", key |-> k, body |-> q, answer |-> None]]
    BY <1>2 DEF Claim
  <2>3. ASSUME NEW d \in Calls, ~At(d, "idle")'
        PROVE  /\ call'[d].body \in Quotes
               /\ key'[call'[d].key].status # "ABSENT"
               /\ key'[call'[d].key].body = call'[d].body
               /\ At(d, "executed")' => call'[d].answer # None
    <3>1. CASE d = c
      BY <1>0, <2>2, <3>1 DEF At
    <3>2. CASE d # c
      <4>1. call'[d] = call[d] /\ ~At(d, "idle")
        BY <1>0, <2>2, <2>3, <3>2 DEF At
      <4>2. call[d].key # k /\ call[d].key \in Keys
        BY <1>0, <2>1, <4>1 DEF KeysServe, Call
      <4>3. key'[call[d].key] = key[call[d].key]
        BY <1>0, <2>2, <4>2
      <4> QED BY <4>1, <4>3 DEF KeysServe, At
    <3> QED BY <3>1, <3>2
  <2> QED BY <2>3 DEF KeysServe
<1>3. ASSUME NEW c \in Calls, NEW k \in Keys, NEW q \in Quotes,
             TurnedAway(c, k, q) \/ Replay(c, k, q)
      PROVE  KeysServe'
  <2>1. /\ UNCHANGED key /\ call'[c].at = "idle"
        /\ \A d \in Calls : d # c => call'[d] = call[d]
    BY <1>0, <1>3 DEF TurnedAway, Replay
  <2> QED BY <2>1 DEF KeysServe, At
<1>4. ASSUME NEW c \in Calls,
             \/ FindWinner(c) \/ Clear(c) \/ Refuse(c) \/ Write(c) \/ Restart(c)
             \/ Duplicate(c) \/ Book(c) \/ BookUnsure(c)
      PROVE  KeysServe'
  BY <1>0, <1>4, HandlerStep DEF KeysServe, At
<1>5. ASSUME NEW c \in Calls, Complete(c) \/ CompleteFails(c)
      PROVE  KeysServe'
  <2>1. /\ \A d \in Calls : d # c => call'[d] = call[d]
        /\ call'[c].key = call[c].key /\ call'[c].body = call[c].body
        /\ call'[c].at \in {"idle", "failed"} /\ ~At(c, "idle")
    BY <1>5, FinishStep
  <2>2. \A k \in Keys : key'[k].body = key[k].body
                        /\ (key[k].status # "ABSENT" => key'[k].status # "ABSENT")
    <3>1. CASE Stored(c)
      BY <1>0, <3>1 DEF Stored, KeyDocument
    <3>2. CASE UNCHANGED key
      BY <3>2
    <3> QED BY <1>5, <3>1, <3>2 DEF Complete, CompleteFails
  <2>3. \A d \in Calls : call[d].key \in Keys
    BY <1>0 DEF Call
  <2> QED BY <2>1, <2>2, <2>3 DEF KeysServe, At
<1>6. ASSUME NEW c \in Calls, Release(c) PROVE KeysServe'
  <2>1. /\ \A d \in Calls : d # c => call'[d] = call[d]
        /\ call'[c].at = "idle" /\ ~At(c, "idle")
    BY <1>6, FinishStep
  <2>2. \A k \in Keys : k # call[c].key => key'[k] = key[k]
    BY <1>0, <1>6 DEF Release
  <2>3. ASSUME NEW d \in Calls, ~At(d, "idle")'
        PROVE  d # c /\ call'[d] = call[d] /\ ~At(d, "idle") /\ key'[call[d].key] = key[call[d].key]
    <3>1. d # c /\ call'[d] = call[d] /\ ~At(d, "idle")
      BY <2>1, <2>3 DEF At
    <3>2. call[d].key # call[c].key /\ call[d].key \in Keys
      BY <1>0, <2>1, <3>1 DEF OneHandler, Call
    <3> QED BY <2>2, <3>1, <3>2
  <2> QED BY <2>3 DEF KeysServe, At
<1>7. ASSUME NEW c \in Calls, Dropped(c), UNCHANGED key PROVE KeysServe'
  <2>1. /\ \A d \in Calls : d # c => call'[d] = call[d]
        /\ call'[c].at = "idle"
    BY <1>7, FinishStep
  <2> QED BY <1>7, <2>1 DEF KeysServe, At
<1>8. ASSUME NEW k \in Keys, Expire(k) PROVE KeysServe'
  <2>1. \A d \in Calls : ~At(d, "idle") => call[d].key # k /\ call[d].key \in Keys
    BY <1>0, <1>8 DEF Expire, Held, Call
  <2>2. call' = call /\ \A j \in Keys : j # k => key'[j] = key[j]
    BY <1>0, <1>8 DEF Expire
  <2> QED BY <2>1, <2>2 DEF KeysServe, At
<1> QED BY <1>1, <1>2, <1>3, <1>4, <1>5, <1>6, <1>7, <1>8, StepCases

(* A key is claimed by one request at a time.                              *)
LEMMA OneHandlerNext ==
  ASSUME TypeOK, KeysServe, OneHandler, [Next]_vars
  PROVE  OneHandler'
<1>0. key \in [Keys -> KeyDocument] /\ call \in [Calls -> Call]
  BY DEF TypeOK
<1>1. ASSUME NEW c \in Calls,
             /\ \A d \in Calls : d # c => call'[d] = call[d]
             /\ At(c, "idle")' \/ (call'[c].key = call[c].key /\ ~At(c, "idle"))
      PROVE  OneHandler'
  BY <1>1 DEF OneHandler, At
<1>2. CASE UNCHANGED <<key, call>> \/ \E k \in Keys : Expire(k)
  BY <1>2 DEF OneHandler, At, Expire
<1>3. ASSUME NEW c \in Calls, NEW k \in Keys, NEW q \in Quotes, Claim(c, k, q)
      PROVE  OneHandler'
  <2>1. key[k].status = "ABSENT"
        /\ call' = [call EXCEPT ![c] = [at |-> "executing", key |-> k, body |-> q, answer |-> None]]
    BY <1>3 DEF Claim, Claimable
  <2>2. \A d \in Calls : ~At(d, "idle") => call[d].key # k
    BY <2>1 DEF KeysServe
  <2>3. /\ \A d \in Calls : d # c => call'[d] = call[d]
        /\ call'[c].key = k
    BY <1>0, <2>1
  <2> QED BY <2>2, <2>3 DEF OneHandler, At
<1>4. ASSUME NEW c \in Calls, NEW k \in Keys, NEW q \in Quotes,
             TurnedAway(c, k, q) \/ Replay(c, k, q)
      PROVE  OneHandler'
  <2>1. call'[c].at = "idle" /\ \A d \in Calls : d # c => call'[d] = call[d]
    BY <1>0, <1>4 DEF TurnedAway, Replay
  <2> QED BY <1>1, <2>1 DEF At
<1>5. ASSUME NEW c \in Calls,
             \/ FindWinner(c) \/ Clear(c) \/ Refuse(c) \/ Write(c) \/ Restart(c)
             \/ Duplicate(c) \/ Book(c) \/ BookUnsure(c)
      PROVE  OneHandler'
  BY <1>1, <1>5, HandlerStep DEF At
<1>6. ASSUME NEW c \in Calls,
             Complete(c) \/ CompleteFails(c) \/ Release(c) \/ Dropped(c)
      PROVE  OneHandler'
  BY <1>1, <1>6, FinishStep
<1> QED BY <1>2, <1>3, <1>4, <1>5, <1>6, StepCases

(* The journal only grows.                                                 *)
LEMMA JournalGrows ==
  ASSUME [Next]_vars
  PROVE  journal \subseteq journal'
<1>1. CASE UNCHANGED ledger
  BY <1>1 DEF ledger
<1>2. CASE Land
  BY <1>2 DEF Land
<1> QED BY <1>1, <1>2, LedgerStep

(* A handler answers with a transfer that is made.                         *)
LEMMA AnswerIsMade ==
  ASSUME TypeOK, TransferOnce, KeysServe, PendingHolds, NEW c \in Calls,
         FindWinner(c) \/ Book(c) \/ Duplicate(c)
  PROVE  call[c].body \in journal'
<1>1. At(c, "executing") /\ AlreadyBooked(call[c].body) /\ journal' = journal
  BY DEF FindWinner, Duplicate, Book, PendingHolds, ledger
<1> QED BY <1>1 DEF TransferOnce, KeysServe, At, AlreadyBooked

(* Answers stay true, sent or kept.                                        *)
LEMMA AnswersNext ==
  ASSUME TypeOK, KeysServe, PendingHolds, TransferOnce, AnswersTrue, [Next]_vars
  PROVE  AnswersTrue'
<1> DEFINE Sent(c) == call[c].answer # None =>
                        call[c].answer = call[c].body /\ call[c].body \in journal
           Kept(k) == key[k].status = "COMPLETED" =>
                        key[k].response = key[k].body /\ key[k].body \in journal
<1>0. key \in [Keys -> KeyDocument] /\ call \in [Calls -> Call] /\ journal \subseteq journal'
  BY JournalGrows DEF TypeOK
<1>a. (\A c \in Calls : Sent(c)) /\ (\A k \in Keys : Kept(k))
  BY DEF AnswersTrue
<1>1. ASSUME NEW c \in Calls, call'[c] = call[c] PROVE Sent(c)'
  BY <1>0, <1>a, <1>1
<1>2. ASSUME NEW k \in Keys, key'[k] = key[k] PROVE Kept(k)'
  BY <1>0, <1>a, <1>2
<1>3. CASE UNCHANGED <<key, call>>
  BY <1>1, <1>2, <1>3 DEF AnswersTrue
<1>4. ASSUME NEW c \in Calls, NEW k \in Keys, NEW q \in Quotes,
             Claim(c, k, q) \/ TurnedAway(c, k, q) \/ Replay(c, k, q)
      PROVE  AnswersTrue'
  <2>1. \A d \in Calls : d # c => call'[d] = call[d]
    BY <1>0, <1>4 DEF Claim, TurnedAway, Replay
  <2>2. call'[c].body = q
        /\ call'[c].answer = IF Replay(c, k, q) THEN key[k].response ELSE None
    BY <1>0, <1>4 DEF Claim, TurnedAway, Replay, Reused
  <2>3. Replay(c, k, q) => key[k].response = q /\ q \in journal
    BY <1>a DEF Replay, Reused
  <2>4. Sent(c)'
    BY <1>0, <2>2, <2>3
  <2>5. \A j \in Keys : key'[j] = key[j] \/ key'[j].status = "IN_FLIGHT"
    BY <1>0, <1>4 DEF Claim, TurnedAway, Replay
  <2>6. \A j \in Keys : Kept(j)'
    BY <1>2, <2>5
  <2> QED BY <1>1, <2>1, <2>4, <2>6 DEF AnswersTrue
<1>5. ASSUME NEW c \in Calls,
             \/ FindWinner(c) \/ Clear(c) \/ Refuse(c) \/ Write(c) \/ Restart(c)
             \/ Duplicate(c) \/ Book(c) \/ BookUnsure(c)
      PROVE  AnswersTrue'
  <2>1. /\ UNCHANGED key /\ \A d \in Calls : d # c => call'[d] = call[d]
        /\ call'[c].body = call[c].body
        /\ \/ call'[c].at = "executed" /\ call'[c].answer = call[c].body
           \/ call'[c].at \in {"executing", "failed"} /\ call'[c].answer = call[c].answer
    BY <1>5, HandlerStep
  <2>2. CASE call'[c].answer = call[c].answer
    <3>1. Sent(c)'
      BY <1>0, <1>a, <2>1, <2>2
    <3> QED BY <1>1, <1>2, <2>1, <3>1 DEF AnswersTrue
  <2>3. CASE call'[c].at = "executed" /\ call'[c].answer = call[c].body
    <3>1. FindWinner(c) \/ Book(c) \/ Duplicate(c)
      <4>1. ASSUME Clear(c) \/ Write(c) \/ Restart(c) PROVE FALSE
        BY <2>3, <4>1 DEF Clear, Write, Restart, interceptor, At
      <4>2. ASSUME Refuse(c) \/ BookUnsure(c) PROVE FALSE
        BY <1>0, <2>3, <4>2 DEF Refuse, BookUnsure, Throws, Call
      <4> QED BY <1>5, <4>1, <4>2
    <3>2. Sent(c)'
      BY <2>1, <2>3, <3>1, AnswerIsMade
    <3> QED BY <1>1, <1>2, <2>1, <3>2 DEF AnswersTrue
  <2> QED BY <2>1, <2>2, <2>3
<1>6. ASSUME NEW c \in Calls,
             Complete(c) \/ CompleteFails(c) \/ Release(c) \/ (Dropped(c) /\ UNCHANGED key)
      PROVE  AnswersTrue'
  <2>1. /\ \A d \in Calls : d # c => call'[d] = call[d]
        /\ call'[c].body = call[c].body /\ call'[c].answer \in {call[c].answer, None}
    BY <1>6, FinishStep
  <2>2. Sent(c)'
    BY <1>0, <1>a, <2>1
  <2>3. ASSUME NEW k \in Keys PROVE Kept(k)'
    <3>1. CASE UNCHANGED key
      BY <1>2, <3>1
    <3>2. ASSUME Stored(c), At(c, "executed") PROVE Kept(k)'
      <4>1. CASE k # call[c].key \/ key[k].status = "ABSENT"
        BY <1>0, <1>2, <3>2, <4>1 DEF Stored
      <4>2. CASE k = call[c].key /\ key[k].status # "ABSENT"
        <5>1. key'[k].body = key[k].body /\ key'[k].response = call[c].answer
          BY <1>0, <3>2, <4>2 DEF Stored, KeyDocument
        <5>2. key[k].body = call[c].body /\ call[c].answer # None
          BY <3>2, <4>2 DEF KeysServe, At
        <5> QED BY <1>0, <1>a, <5>1, <5>2
      <4> QED BY <4>1, <4>2
    <3>3. CASE Release(c)
      <4>1. key'[k] = key[k] \/ key'[k] = Absent
        BY <1>0, <3>3 DEF Release
      <4> QED BY <1>2, <4>1 DEF Absent
    <3> QED BY <1>6, <3>1, <3>2, <3>3 DEF Complete, CompleteFails
  <2> QED BY <1>1, <2>1, <2>2, <2>3 DEF AnswersTrue
<1>7. ASSUME NEW k \in Keys, Expire(k) PROVE AnswersTrue'
  <2>1. call' = call /\ \A j \in Keys : key'[j] = key[j] \/ key'[j] = Absent
    BY <1>0, <1>7 DEF Expire
  <2>2. \A j \in Keys : Kept(j)'
    BY <1>2, <2>1 DEF Absent
  <2> QED BY <1>1, <2>1, <2>2 DEF AnswersTrue
<1> QED BY <1>3, <1>4, <1>5, <1>6, <1>7, StepCases

-----------------------------------------------------------------------------
(* The theorems.                                                           *)

IInv ==
  /\ TypeOK /\ Clearance /\ PendingHolds /\ KeysServe /\ NothingAhead
  /\ LimitsHeld /\ TransferOnce /\ OneHandler /\ AnswersTrue

LEMMA InvInit == Init => IInv
<1> SUFFICES ASSUME Init PROVE IInv
  OBVIOUS
<1>0. /\ key = [k \in Keys |-> Absent] /\ call \in [Calls -> Call]
      /\ \A c \in Calls : call[c].at = "idle" /\ call[c].answer = None
  BY DEF Init, InterceptorInit, Call
<1>1. TypeOK
  <2>1. key \in [Keys -> KeyDocument]
    BY <1>0 DEF Absent, KeyDocument, IdempotencyStatus
  <2>2. now \in Times /\ work \in [Calls -> Work] /\ pending \in Pending
    BY TransferBoundsAssumption DEF Init, Work, NoPending, Pending
  <2>3. expiresAt \in [Quotes -> Nat] /\ journal \subseteq Quotes
        /\ countedAt \in [Quotes -> {0} \cup Times] /\ available \in Nat
    BY TransferBoundsAssumption DEF Init
  <2>4. dayUsage \in [Days -> UsageCounter] /\ monthUsage \in [Months -> UsageCounter]
    BY DEF Init, UsageCounter
  <2> QED BY <1>0, <2>1, <2>2, <2>3, <2>4 DEF TypeOK
<1>2. Clearance /\ PendingHolds /\ KeysServe /\ NothingAhead
  BY <1>0 DEF Init, Clearance, PendingHolds, Unwritten, KeysServe, NothingAhead, At
<1>3. (\A d \in Days : CountedOn(d) = {}) /\ (\A m \in Months : CountedWithin(m) = {})
  BY DEF Init, CountedOn, CountedWithin
<1>4. LimitsHeld
  <2>1. DailyAmount >= 0 /\ DailyCount >= 0 /\ MonthlyAmount >= 0
    BY TransferAssumption
  <2> QED BY <1>3, <2>1, NothingPaid DEF Init, LimitsHeld
<1>5. TransferOnce
  BY NothingPaid, TransferBoundsAssumption DEF Init, TransferOnce
<1>6. OneHandler /\ AnswersTrue
  BY <1>0 DEF OneHandler, AnswersTrue, At, Absent
<1> QED BY <1>1, <1>2, <1>4, <1>5, <1>6 DEF IInv

LEMMA InvNext == IInv /\ [Next]_vars => IInv'
<1> SUFFICES ASSUME IInv, [Next]_vars PROVE IInv'
  OBVIOUS
<1>1. TypeOK'
  BY TypeNext DEF IInv
<1>2. Clearance' /\ PendingHolds' /\ KeysServe'
  BY ClearanceNext, PendingNext, KeysNext DEF IInv
<1>3. NothingAhead'
  BY <1>1, AheadNext DEF IInv
<1>4. LimitsHeld' /\ TransferOnce'
  BY LimitsNext, OnceNext DEF IInv
<1>5. OneHandler' /\ AnswersTrue'
  BY OneHandlerNext, AnswersNext DEF IInv
<1> QED BY <1>1, <1>2, <1>3, <1>4, <1>5 DEF IInv

LEMMA Invariance == Spec => []IInv
BY InvInit, InvNext, PTL DEF Spec

(* The source account is never spent below zero, however requests overlap. *)
THEOREM TypeCorrect == Spec => []TypeOK
<1>1. IInv => TypeOK
  BY DEF IInv
<1> QED BY <1>1, Invariance, PTL

(* A quote is paid once, under whatever keys and however often it is sent. *)
THEOREM PaidOnce == Spec => []TransferOnce
<1>1. IInv => TransferOnce
  BY DEF IInv
<1> QED BY <1>1, Invariance, PTL

(* No day and no month sees more than its allowance, though transfers are  *)
(* checked at one moment and counted at another.                           *)
THEOREM LimitsNeverPassed == Spec => []LimitsHeld
<1>1. IInv => LimitsHeld
  BY DEF IInv
<1> QED BY <1>1, Invariance, PTL

(* A client that was told of a payment asked for it, and it was made.      *)
THEOREM AnswersAreTrue == Spec => []AnswersTrue
<1>1. IInv => AnswersTrue
  BY DEF IInv
<1> QED BY <1>1, Invariance, PTL

(* One request at a time is served under a key.                            *)
THEOREM OneAtATime == Spec => []OneHandler
<1>1. IInv => OneHandler
  BY DEF IInv
<1> QED BY <1>1, Invariance, PTL

-----------------------------------------------------------------------------
(* The refinement of TransferPromise.                                      *)

(* The sums of the promise are those of the properties.                    *)
LEMMA SameSums ==
  ASSUME NEW S
  PROVE  Promise!Sum(S) = PaidBy(S) /\ Promise!Count(S) = CountOf(S)
BY DEF Promise!Sum, Promise!Count, PaidBy, CountOf, AmountsIn, OnesIn, Promise!Total, Promise!Running,
   Total, Running, Promise!Quotes

(* What lands is borne by the funds and by the limits of its moment, which *)
(* the promise reads off the payments and the code off its balance and its *)
(* counters: TransferOnce and LimitsHeld say that they are the same.       *)
LEMMA LandingIsBorne ==
  ASSUME IInv, Land
  PROVE  Promise!Borne(pending.quote, pending.at)
<1> DEFINE q == pending.quote
           t == pending.at
           d == Day(t)
           m == Month(t)
<1>1. TypeOK /\ PendingHolds /\ LimitsHeld /\ TransferOnce
  BY DEF IInv
<1>2. q \in Quotes /\ t \in Times /\ Covered(q) /\ ~Breach(q, t) /\ Amount[q] \in Nat
  BY <1>1, LandedQuote, TransferAssumption
<1>3. d \in Days /\ m \in Months
  BY <1>2, Windows
<1>4. /\ Promise!AllPaid = journal /\ Promise!PaidOn(t) = CountedOn(d)
      /\ Promise!PaidInMonth(t) = CountedWithin(m)
  BY <1>1 DEF Promise!AllPaid, Promise!Paid, Promise!Quotes, Promise!PaidOn,
    Promise!PaidInMonth, TransferOnce, CountedOn, CountedWithin, Day, Month
<1>5. /\ PaidBy(journal) \in Int /\ available = Funds - PaidBy(journal) /\ available >= Amount[q]
      /\ Funds \in Nat /\ available \in Nat
  <2>1. AmountsIn(journal) \in [1..NumQuotes -> Int] /\ NumQuotes \in Nat
    BY TransferAssumption DEF AmountsIn
  <2> QED BY <1>1, <1>2, <2>1, TotalType, TransferBoundsAssumption
       DEF PaidBy, TransferOnce, Covered, TypeOK
<1>6. PaidBy(journal) + Amount[q] <= Funds
  <2> HIDE DEF q
  <2> QED BY <1>2, <1>5
<1>7. /\ dayUsage[d].total = PaidBy(CountedOn(d)) /\ dayUsage[d].count = CountOf(CountedOn(d))
      /\ monthUsage[m].total = PaidBy(CountedWithin(m))
  <2>1. /\ dayUsage[d] = [total |-> PaidBy(CountedOn(d)), count |-> CountOf(CountedOn(d))]
        /\ monthUsage[m] = [total |-> PaidBy(CountedWithin(m)), count |-> CountOf(CountedWithin(m))]
    BY <1>1, <1>3 DEF LimitsHeld
  <2> HIDE DEF d, m
  <2> QED BY <2>1
<1>8. /\ dayUsage[d].total \in Nat /\ dayUsage[d].count \in Nat /\ monthUsage[m].total \in Nat
      /\ PerTransaction \in Nat /\ DailyAmount \in Nat /\ DailyCount \in Nat
      /\ MonthlyAmount \in Nat
  BY <1>1, <1>3, TransferAssumption DEF TypeOK, UsageCounter
<1>9. /\ Amount[q] <= PerTransaction /\ dayUsage[d].total + Amount[q] <= DailyAmount
      /\ dayUsage[d].count + 1 <= DailyCount /\ monthUsage[m].total + Amount[q] <= MonthlyAmount
  <2>1. /\ ~(Amount[q] > PerTransaction) /\ ~(dayUsage[d].total + Amount[q] > DailyAmount)
        /\ ~(dayUsage[d].count + 1 > DailyCount)
        /\ ~(monthUsage[m].total + Amount[q] > MonthlyAmount)
    BY <1>2 DEF Breach
  <2> HIDE DEF q, d, m
  <2> QED BY <1>2, <1>8, <2>1
<1> HIDE DEF d, m
<1> QED BY <1>4, <1>6, <1>7, <1>9, SameSums DEF Promise!Borne

(* A step as the promise allows it.                                        *)
PromiseStep == [Promise!Next]_<<now, countedAt, Waiting, Asked, Told, InDoubt>>

(* What is in doubt depends on what is pending, and on whether somebody    *)
(* waits for it.                                                           *)
LEMMA DoubtAlike ==
  ASSUME UNCHANGED pending,
         \A c \in Calls : work[c] = "written" <=> work'[c] = "written"
  PROVE  UNCHANGED InDoubt
BY DEF InDoubt

(* While a request is under way, a client sees nothing of what it does.    *)
LEMMA SeenAlike ==
  ASSUME TypeOK, NEW c \in Calls, ~At(c, "idle"), \A d \in Calls : d # c => call'[d] = call[d],
         call'[c].at # "idle", call'[c].body = call[c].body
  PROVE  UNCHANGED <<Waiting, Asked, Told>>
BY DEF Waiting, Asked, Told, At

(* A client asks: it waits, or has an answer at once.                      *)
LEMMA AskSeen ==
  ASSUME TypeOK, NEW c \in Calls, NEW q \in Quotes, At(c, "idle"),
         UNCHANGED <<now, countedAt, InDoubt>>,
         \A d \in Calls : d # c => call'[d] = call[d], call'[c].body = q,
         \/ call'[c].at # "idle"
         \/ call'[c].at = "idle" /\ call'[c].answer = None
         \/ call'[c].at = "idle" /\ call'[c].answer = q /\ countedAt[q] # 0
  PROVE  PromiseStep
<1>1. /\ c \notin Waiting /\ q \in Promise!Quotes
      /\ Asked' = [Asked EXCEPT ![c] = q]
  BY DEF Waiting, At, Asked, Promise!Quotes
<1>2. CASE call'[c].at # "idle"
  <2>1. Waiting' = Waiting \cup {c} /\ Told' = [Told EXCEPT ![c] = Promise!Nothing]
    BY <1>2 DEF Waiting, Told, At, Promise!Nothing, None
  <2>2. Promise!Ask(c, q)
    BY <1>1, <2>1 DEF Promise!Ask
  <2> QED BY <1>1, <2>2 DEF PromiseStep, Promise!Next
<1>3. CASE call'[c].at = "idle"
  <2>1. Waiting' = Waiting /\ Told' = [Told EXCEPT ![c] = call'[c].answer]
    BY <1>3 DEF Waiting, Told, At
  <2>2. Promise!Tells(c, q)
    BY <1>3, <2>1 DEF Promise!Tells, Promise!Paid, Promise!Nothing, None
  <2>3. Promise!AskAnswered(c, q)
    BY <1>1, <2>1, <2>2 DEF Promise!AskAnswered
  <2> QED BY <1>1, <2>3 DEF PromiseStep, Promise!Next
<1> QED BY <1>2, <1>3

(* A request ends: its client has an answer, which may leave in doubt what *)
(* it asked for.                                                           *)
LEMMA AnswerSeen ==
  ASSUME TypeOK, NEW c \in Calls, ~At(c, "idle"), UNCHANGED <<now, countedAt>>,
         \A d \in Calls : d # c => call'[d] = call[d], call'[c].body = call[c].body,
         call'[c].at = "idle",
         \/ call'[c].answer = None
         \/ call'[c].answer = call[c].body /\ countedAt[call[c].body] # 0,
         \/ UNCHANGED InDoubt
         \/ InDoubt' = InDoubt \cup {call[c].body} /\ countedAt[call[c].body] = 0
  PROVE  PromiseStep
<1>1. c \in Waiting /\ Waiting' = Waiting \ {c} /\ Asked' = Asked
      /\ Told' = [Told EXCEPT ![c] = call'[c].answer] /\ Asked[c] = call[c].body
  BY DEF Waiting, At, Asked, Told
<1>2. Promise!Tells(c, Asked[c])
  BY <1>1 DEF Promise!Tells, Promise!Paid, Promise!Nothing, None
<1>3. UNCHANGED InDoubt \/ Promise!Doubtful(Asked[c])
  BY <1>1 DEF Promise!Doubtful, Promise!Paid
<1>4. Promise!Answer(c)
  BY <1>1, <1>2, <1>3 DEF Promise!Answer
<1> QED BY <1>4 DEF PromiseStep, Promise!Next

(* The one request that waits for what is pending gives up on it: it is in *)
(* doubt from then on.                                                     *)
LEMMA OwnerLeaves ==
  ASSUME TypeOK, PendingHolds, NEW c \in Calls, work[c] = "written",
         work' = [work EXCEPT ![c] = "none"], UNCHANGED pending
  PROVE  InDoubt = {} /\ InDoubt' = {call[c].body} /\ countedAt[call[c].body] = 0
<1>1. /\ pending.quote = call[c].body /\ pending.quote \in Quotes /\ ~AlreadyBooked(pending.quote)
      /\ \A d \in Calls : work[d] = "written" => d = c
  BY DEF PendingHolds
<1>2. \A d \in Calls : work'[d] # "written"
  BY <1>1 DEF TypeOK
<1>3. pending.quote # None
  BY <1>1, TransferAssumption, BodiesAssumption
<1>4. InDoubt = {}
  BY DEF InDoubt
<1>5. InDoubt' = {pending'.quote} \ {None}
  BY <1>2 DEF InDoubt
<1> QED BY <1>1, <1>3, <1>4, <1>5 DEF AlreadyBooked

(* A commit lands: a payment, for the request that waits for it, or for    *)
(* one that was left in doubt.                                             *)
LEMMA LandKeepsPromise ==
  ASSUME IInv, Land
  PROVE  PromiseStep
<1>0. TypeOK /\ PendingHolds /\ Clearance
  BY DEF IInv
<1>1. /\ pending.quote \in Quotes /\ countedAt[pending.quote] = 0
      /\ pending.at \in Times /\ pending.at <= now
      /\ Promise!Borne(pending.quote, pending.at)
  BY <1>0, LandedQuote, LandingIsBorne
<1>2. /\ countedAt' = [countedAt EXCEPT ![pending.quote] = pending.at]
      /\ UNCHANGED <<call, now>> /\ pending' = NoPending
  BY DEF Land, interceptor
<1>3. UNCHANGED <<Waiting, Asked, Told>>
  BY <1>2 DEF Waiting, Asked, Told, At
<1>4. pending.at \in 1..now
  BY <1>0, <1>1, TransferBoundsAssumption DEF TypeOK
<1>5. \E t \in 1..now : countedAt' = [countedAt EXCEPT ![pending.quote] = t]
                        /\ Promise!Borne(pending.quote, t)
  BY <1>1, <1>2, <1>4
<1>6. pending.quote # None
  BY <1>1, TransferAssumption, BodiesAssumption
<1>7. /\ pending.quote \in InDoubt \/ \E c \in Waiting : Asked[c] = pending.quote
      /\ InDoubt \subseteq {pending.quote}
  <2>1. CASE \E c \in Calls : work[c] = "written"
    <3>1. PICK c \in Calls : work[c] = "written"
      BY <2>1
    <3>2. At(c, "executing") /\ pending.quote = call[c].body
      BY <1>0, <3>1 DEF Clearance, PendingHolds
    <3>3. c \in Waiting /\ Asked[c] = pending.quote
      BY <3>2 DEF Waiting, Asked, At
    <3> QED BY <2>1, <3>3 DEF InDoubt
  <2>2. CASE ~\E c \in Calls : work[c] = "written"
    BY <1>6, <2>2 DEF InDoubt
  <2> QED BY <2>1, <2>2
<1>8. InDoubt' = {}
  <2>1. pending'.quote = None
    BY <1>2 DEF NoPending
  <2> QED BY <2>1 DEF InDoubt
<1>9. Promise!Pay(pending.quote)
  BY <1>1, <1>2, <1>3, <1>5, <1>7, <1>8 DEF Promise!Pay, Promise!Paid
<1> QED BY <1>1, <1>9 DEF PromiseStep, Promise!Next, Promise!Quotes

(* The database drops what is pending: nothing, or the end of a doubt.     *)
LEMMA GiveUpKeepsPromise ==
  ASSUME IInv, GiveUp
  PROVE  PromiseStep
<1>0. PendingHolds
  BY DEF IInv
<1>1. /\ UNCHANGED <<call, now, countedAt>> /\ pending' = NoPending /\ ~Unwritten
  BY DEF GiveUp, interceptor, ledger
<1>2. UNCHANGED <<Waiting, Asked, Told>>
  BY <1>1 DEF Waiting, Asked, Told, At
<1>3. InDoubt' = {}
  <2>1. pending'.quote = None
    BY <1>1 DEF NoPending
  <2> QED BY <2>1 DEF InDoubt
<1>4. pending.quote \in Quotes /\ pending.quote # None
  BY <1>0, <1>1, TransferAssumption, BodiesAssumption DEF PendingHolds
<1>5. CASE \E c \in Calls : work[c] = "written"
  <2>1. UNCHANGED InDoubt
    BY <1>3, <1>5 DEF InDoubt
  <2> QED BY <1>1, <1>2, <2>1 DEF PromiseStep
<1>6. CASE ~\E c \in Calls : work[c] = "written"
  <2>1. InDoubt = {pending.quote}
    BY <1>4, <1>6 DEF InDoubt
  <2>2. Promise!ComesToNothing(pending.quote)
    BY <1>1, <1>2, <1>3, <2>1 DEF Promise!ComesToNothing
  <2> QED BY <1>4, <2>2 DEF PromiseStep, Promise!Next, Promise!Quotes
<1> QED BY <1>5, <1>6

(* A handler does nothing a client sees, but that it may leave its payment *)
(* in doubt.                                                               *)
LEMMA HandlerKeepsPromise ==
  ASSUME IInv, NEW c \in Calls,
         \/ FindWinner(c) \/ Clear(c) \/ Refuse(c) \/ Write(c) \/ Restart(c)
         \/ Duplicate(c) \/ Book(c) \/ BookUnsure(c)
  PROVE  PromiseStep
<1>0. TypeOK /\ PendingHolds /\ Clearance /\ work \in [Calls -> Work]
  BY DEF IInv, TypeOK
<1>1. UNCHANGED <<now, countedAt>>
  BY DEF FindWinner, Clear, Refuse, Write, Restart, Duplicate, Book, BookUnsure, ledger
<1>2. UNCHANGED <<Waiting, Asked, Told>>
  <2>1. /\ ~At(c, "idle") /\ \A d \in Calls : d # c => call'[d] = call[d]
        /\ call'[c].at # "idle" /\ call'[c].body = call[c].body
    BY <1>0, HandlerStep DEF At
  <2> QED BY <1>0, <2>1, SeenAlike
<1>3. ASSUME UNCHANGED InDoubt PROVE PromiseStep
  BY <1>1, <1>2, <1>3 DEF PromiseStep
<1>4. ASSUME UNCHANGED pending, work[c] # "written",
             \A d \in Calls : d # c => work'[d] = work[d], work'[c] # "written"
      PROVE  PromiseStep
  BY <1>3, <1>4, DoubtAlike
<1>5. CASE FindWinner(c) \/ Clear(c) \/ Restart(c) \/ Duplicate(c) \/ Book(c)
  <2>1. /\ UNCHANGED pending /\ work[c] # "written"
        /\ \A d \in Calls : d # c => work'[d] = work[d]
        /\ work'[c] # "written"
    BY <1>0, <1>5 DEF FindWinner, Clear, Restart, Duplicate, Book
  <2> QED BY <1>4, <2>1
<1>6. CASE Refuse(c) /\ work[c] # "written"
  BY <1>0, <1>4, <1>6 DEF Refuse
<1>7. CASE Refuse(c) /\ work[c] = "written"
  <2>1. pending' = NoPending
    BY <1>7 DEF Refuse
  <2>2. InDoubt = {}
    BY <1>7 DEF InDoubt
  <2>3. InDoubt' = {}
    <3>1. pending'.quote = None
      BY <2>1 DEF NoPending
    <3> QED BY <3>1 DEF InDoubt
  <2> QED BY <1>3, <2>2, <2>3
<1>8. CASE Write(c)
  <2>1. Unwritten /\ work' = [work EXCEPT ![c] = "written"]
    BY <1>8 DEF Write
  <2>2. InDoubt = {}
    <3>1. pending.quote = None
      BY <2>1 DEF Unwritten, NoPending
    <3> QED BY <3>1 DEF InDoubt
  <2>3. work'[c] = "written"
    BY <1>0, <2>1
  <2>4. InDoubt' = {}
    BY <2>3 DEF InDoubt
  <2> QED BY <1>3, <2>2, <2>4
<1>9. CASE BookUnsure(c) /\ work[c] # "written"
  BY <1>0, <1>4, <1>9 DEF BookUnsure
<1>10. CASE BookUnsure(c) /\ work[c] = "written"
  <2>1. UNCHANGED pending /\ work' = [work EXCEPT ![c] = "none"] /\ At(c, "executing")
    BY <1>10 DEF BookUnsure
  <2>2. InDoubt' = InDoubt \cup {call[c].body} /\ countedAt[call[c].body] = 0
    BY <1>0, <1>10, <2>1, OwnerLeaves
  <2>3. c \in Waiting /\ Asked[c] = call[c].body
    BY <2>1 DEF Waiting, Asked, At
  <2>4. Promise!LeaveInDoubt(c)
    BY <1>1, <1>2, <2>2, <2>3 DEF Promise!LeaveInDoubt, Promise!Doubtful, Promise!Paid
  <2> QED BY <2>4 DEF PromiseStep, Promise!Next
<1> QED BY <1>5, <1>6, <1>7, <1>8, <1>9, <1>10

(* Every step is one of the promise, or one that clients do not see.       *)
LEMMA StepKeepsPromise ==
  ASSUME IInv, [Next]_vars
  PROVE  PromiseStep
<1>0. TypeOK /\ KeysServe /\ PendingHolds /\ Clearance /\ TransferOnce /\ AnswersTrue
  BY DEF IInv
<1>1. CASE UNCHANGED <<call, now, countedAt, work, pending>>
  BY <1>1, DoubtAlike DEF PromiseStep, Waiting, Asked, Told, At
<1>2. \A q \in journal : q \in Quotes /\ countedAt[q] # 0
  BY <1>0 DEF TransferOnce
<1>3. ASSUME NEW c \in Calls, NEW k \in Keys, NEW q \in Quotes, Request(c, k, q)
      PROVE  PromiseStep
  <2>1. UNCHANGED <<now, countedAt, work, pending>> /\ At(c, "idle")
    BY <1>3 DEF Request, transfersUnchanged, ledger, Claim, TurnedAway, Replay
  <2>2. /\ \A d \in Calls : d # c => call'[d] = call[d]
        /\ call'[c].body = q
    BY <1>0, <1>3 DEF Request, Claim, TurnedAway, Replay, TypeOK
  <2>3. \/ call'[c].at # "idle"
        \/ call'[c].at = "idle" /\ call'[c].answer = None
        \/ call'[c].at = "idle" /\ call'[c].answer = q /\ countedAt[q] # 0
    <3>1. CASE Claim(c, k, q) \/ TurnedAway(c, k, q)
      BY <1>0, <3>1 DEF Claim, TurnedAway, TypeOK
    <3>2. CASE Replay(c, k, q)
      <4>1. key[k].response = q /\ q \in journal
        BY <1>0, <3>2 DEF Replay, Reused, AnswersTrue
      <4> QED BY <1>0, <1>2, <3>2, <4>1 DEF Replay, TypeOK
    <3> QED BY <1>3, <3>1, <3>2 DEF Request
  <2>4. UNCHANGED InDoubt
    BY <2>1, DoubtAlike
  <2> QED BY <1>0, <2>1, <2>2, <2>3, <2>4, AskSeen
<1>4. ASSUME NEW c \in Calls, \/ FindWinner(c) \/ Clear(c) \/ Refuse(c) \/ Write(c) \/ Restart(c)
                              \/ Duplicate(c) \/ Book(c) \/ BookUnsure(c)
      PROVE  PromiseStep
  BY <1>4, HandlerKeepsPromise
<1>5. ASSUME NEW c \in Calls, Respond(c) \/ Crash(c) PROVE PromiseStep
  <2>1. UNCHANGED <<now, countedAt, pending>>
    BY <1>5 DEF Respond, Crash, transfersUnchanged, ledger
  <2>2. Complete(c) \/ CompleteFails(c) \/ Release(c) \/ Dropped(c)
    BY <1>5 DEF Respond, Crash
  <2>3. /\ ~At(c, "idle") /\ \A d \in Calls : d # c => call'[d] = call[d]
        /\ call'[c].body = call[c].body /\ call'[c].at \in {"idle", "failed"}
        /\ call'[c].answer \in {call[c].answer, None}
    BY <1>0, <2>2, FinishStep
  <2>4. ASSUME work[c] # "written" PROVE UNCHANGED InDoubt
    <3>1. \A d \in Calls : work[d] = "written" <=> work'[d] = "written"
      <4>1. CASE Respond(c)
        BY <4>1 DEF Respond, transfersUnchanged
      <4>2. CASE Crash(c)
        BY <1>0, <2>4, <4>2 DEF Crash, TypeOK
      <4> QED BY <1>5, <4>1, <4>2
    <3> QED BY <2>1, <3>1, DoubtAlike
  <2>5. CASE call'[c].at = "failed"
    <3>1. work[c] # "written"
      <4>1. ~Dropped(c)
        BY <1>0, <2>5, FinishStep
      <4>2. ~At(c, "executing")
        BY <2>2, <4>1, <2>5 DEF Complete, CompleteFails, Release, At
      <4> QED BY <1>0, <4>2 DEF Clearance
    <3> QED BY <1>0, <2>1, <2>3, <2>4, <2>5, <3>1, SeenAlike DEF PromiseStep
  <2>6. CASE call'[c].at = "idle"
    <3>1. call[c].answer # None => call[c].answer = call[c].body /\ countedAt[call[c].body] # 0
      BY <1>0, <1>2 DEF AnswersTrue
    <3>2. \/ UNCHANGED InDoubt
          \/ InDoubt' = InDoubt \cup {call[c].body} /\ countedAt[call[c].body] = 0
      <4>1. CASE work[c] = "written"
        <5>1. Crash(c)
          BY <1>0, <1>5, <4>1 DEF Respond, Complete, CompleteFails, Release, Clearance, At
        <5> QED BY <1>0, <2>1, <4>1, <5>1, OwnerLeaves DEF Crash
      <4> QED BY <2>4, <4>1
    <3> QED BY <1>0, <2>1, <2>3, <2>6, <3>1, <3>2, AnswerSeen
  <2> QED BY <2>3, <2>5, <2>6
<1>6. CASE Tick
  <2>1. now' = now + 1 /\ UNCHANGED <<call, countedAt, work, pending>>
    BY <1>6 DEF Tick, interceptor, ledger
  <2>2. UNCHANGED <<Waiting, Asked, Told>>
    BY <2>1 DEF Waiting, Asked, Told, At
  <2>3. Promise!Pass
    BY <2>1, <2>2, DoubtAlike DEF Promise!Pass
  <2> QED BY <2>3 DEF PromiseStep, Promise!Next
<1>7. ASSUME NEW q \in Quotes, Quote(q) PROVE UNCHANGED <<call, now, countedAt, work, pending>>
  BY <1>7 DEF Quote, interceptor, ledger
<1>8. ASSUME NEW k \in Keys, Forget(k) PROVE UNCHANGED <<call, now, countedAt, work, pending>>
  BY <1>8 DEF Forget, Expire, transfersUnchanged, ledger
<1>9. CASE UNCHANGED vars
  BY <1>1, <1>9 DEF vars
<1>10. CASE Land \/ GiveUp
  BY <1>10, LandKeepsPromise, GiveUpKeepsPromise
<1> QED BY <1>1, <1>3, <1>4, <1>5, <1>6, <1>7, <1>8, <1>9, <1>10 DEF Next

(* Transfers implement TransferPromise: as clients see them, payments      *)
(* happen one at a time, each in one step, once, for somebody who waits    *)
(* for it or was left in doubt about it, within the funds and limits that  *)
(* all payments before it leave, and nobody is told of one that was not    *)
(* made.                                                                   *)
THEOREM PromiseKept == Spec => KeepsPromise
<1>1. Init => Promise!Init
  <2> SUFFICES ASSUME Init PROVE Promise!Init
    OBVIOUS
  <2>1. \A c \in Calls : call[c].at = "idle" /\ call[c].body = None /\ call[c].answer = None
    <3>1. \A c \in Calls : \E k \in Keys :
            call[c] = [at |-> "idle", key |-> k, body |-> None, answer |-> None]
      BY DEF Init, InterceptorInit
    <3>2. ASSUME NEW c \in Calls
          PROVE  call[c].at = "idle" /\ call[c].body = None /\ call[c].answer = None
      <4>1. PICK k \in Keys : call[c] = [at |-> "idle", key |-> k, body |-> None, answer |-> None]
        BY <3>1
      <4> QED BY <4>1
    <3> QED BY <3>2
  <2>2. InDoubt = {}
    <3>1. pending.quote = None
      BY DEF Init, NoPending
    <3> QED BY <3>1 DEF InDoubt
  <2> QED BY <2>1, <2>2 DEF Init, Promise!Init, Promise!Quotes, Promise!Nothing, Waiting, Asked,
    Told, At, None
<1>2. IInv /\ [Next]_vars => [Promise!Next]_<<now, countedAt, Waiting, Asked, Told, InDoubt>>
  BY StepKeepsPromise DEF PromiseStep
<1> QED BY <1>1, <1>2, Invariance, PTL DEF Spec, KeepsPromise, Promise!Spec
=============================================================================
