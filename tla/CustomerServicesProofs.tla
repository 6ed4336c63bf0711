---------------------- MODULE CustomerServicesProofs ----------------------
(***************************************************************************)
(* Proofs about the services of one customer, each in the company of all   *)
(* the others: for any number of mandates, requests, goals, disputes and   *)
(* charges, any workers, any amounts and any length of the calendar.       *)
(*                                                                         *)
(* The services share the clock and the account's funds, nothing else.  So *)
(* each of them has an invariant of its own, over its own variables and    *)
(* the clock: a step of another service leaves its variables as they are   *)
(* (the ...Alone lemmas), and the clock only goes on (ClockTurns).         *)
(***************************************************************************)
EXTENDS CustomerServices, TotalsProofs, FiniteSetTheorems

(* Whatever is done, the clock stays in the calendar and does not go back. *)
LEMMA ClockTurns ==
  ASSUME today \in Days, [Next]_vars
  PROVE  today' \in Days /\ today' \in Nat /\ today \in Nat /\ today <= today'
<1>1. today \in Nat /\ Days \subseteq Nat
  BY AccountAssumption DEF Days
<1>2. UNCHANGED today \/ NextDay
  <2>1. CASE MandateStep
    BY <2>1 DEF MandateStep, MandatesNext, SetUp, SetStatus, List, Ask, Collect, Taken, Dispute,
      Refund, GiveUp, account
  <2>2. CASE RequestStep
    BY <2>2 DEF RequestStep, RequestsNext, Raise, Pay, Expire, Close, Nudge, CheckNudge, account
  <2>3. CASE GoalStep
    BY <2>3 DEF GoalStep, GoalsNext, Create, CloseGoal, SetAutoSave, Withdraw, Contribute,
      DebitVault, CreditVault, Settled, Reschedule, AbandonSaving, SaveOne, StartSaving, account
  <2>4. CASE DisputeStep
    BY <2>4 DEF DisputeStep, DisputesNext, OpenCase, Represent, Attach, WriteStatus, Settle,
      Win, Lose, Decided, PutDown, Handle, account
  <2>5. CASE DepositStep
    <3>1. ASSUME NEW k \in Clerks, NEW d \in Deposits, CloseDeposit(k, d)
          PROVE  UNCHANGED today
      BY <3>1 DEF CloseDeposit, account
    <3>2. ASSUME NEW k \in Clerks, CommitClosing(k)
          PROVE  UNCHANGED today
      BY <3>2 DEF CommitClosing
    <3>3. ASSUME NEW d \in Deposits, NEW k \in Clerks, Place(k, d)
          PROVE  UNCHANGED today
      BY <3>3 DEF Place, account
    <3> QED BY <2>5, <3>1, <3>2, <3>3 DEF DepositStep, DepositsNext, Forget, SetAutoRollover,
          CommitPlacement, Abort, ReadToClose, account
  <2>6. CASE FeeStep
    BY <2>6 DEF FeeStep, FeesNext, Assess, OpenWindow, Price, Count, Charge, Restart,
      EndAssessment, NothingBooked, account
  <2>7. CASE InterestStep
    BY <2>7 DEF InterestStep, InterestNext, Accrue, PostInterest, Stamp, EndRun, StartAccrual,
      StartCapitalisation, account
  <2>8. CASE AuditStep \/ OtherStep \/ UNCHANGED vars
    BY <2>8 DEF AuditStep, OtherStep, ForAll, Elsewhere, vars, account
  <2> QED BY <2>1, <2>2, <2>3, <2>4, <2>5, <2>6, <2>7, <2>8 DEF Next
<1>3. CASE NextDay
  BY <1>1, <1>3, AccountAssumption DEF NextDay, Days
<1> QED BY <1>1, <1>2, <1>3

-----------------------------------------------------------------------------
(* Payment requests.                                                       *)

(* Only the payment requests' own actions write their variables.           *)
LEMMA RequestsAlone ==
  ASSUME [Next]_vars
  PROVE  RequestsNext \/ UNCHANGED requests
BY DEF Next, vars, MandateStep, RequestStep, GoalStep, DisputeStep, DepositStep, AuditStep, FeeStep,
   InterestStep, OtherStep, ForAll

(* Every action on requests keeps what has been paid for each exact: a     *)
(* payment and the status it writes are one step, and a request is paid    *)
(* from PENDING only.                                                      *)
LEMMA RequestsKept ==
  ASSUME today \in Nat, today \in Days, RequestsTypeOK, PaidExactly, RequestsNext
  PROVE  RequestsTypeOK' /\ PaidExactly'
<1> USE RequestAssumption, NotSentAssumption
<1>0. \A r \in Requests : /\ request[r].status \in PaymentRequestStatus /\ request[r].expiresAt \in Nat
                          /\ request[r].nudgeCount \in Nat /\ RequestAmount[r] \in Nat \ {0}
  BY DEF RequestsTypeOK
<1>1. ASSUME NEW r \in Requests, Raise(r) PROVE RequestsTypeOK' /\ PaidExactly'
  <2>1. today + RequestLife \in Nat
    OBVIOUS
  <2>2. RequestsTypeOK'
    BY <1>1, <2>1 DEF Raise, RequestsTypeOK, PaymentRequestStatus
  <2>3. PaidExactly'
    BY <1>1 DEF Raise, RequestsTypeOK, PaidExactly
  <2> QED BY <2>2, <2>3
<1>2. ASSUME NEW r \in Requests, Pay(r) PROVE RequestsTypeOK' /\ PaidExactly'
  <2>1. paid[r] = Unposted
    BY <1>2 DEF Pay, Transition, LIVE_STATUSES, PaidExactly
  <2>2. paid' = [paid EXCEPT ![r] = RequestAmount[r]]
    BY <1>2, <2>1 DEF Pay, Posting
  <2>3. RequestsTypeOK'
    BY <1>0, <1>2, <2>2 DEF Pay, RequestsTypeOK, PaymentRequestStatus
  <2>4. PaidExactly'
    BY <1>2, <2>2 DEF Pay, RequestsTypeOK, PaidExactly
  <2> QED BY <2>3, <2>4
<1>3. ASSUME NEW r \in Requests, Expire(r) \/ \E s \in PaymentRequestStatus : Close(r, s)
      PROVE  RequestsTypeOK' /\ PaidExactly'
  <2>1. PICK s \in {"EXPIRED", "CANCELLED", "DECLINED"} :
          request' = [request EXCEPT ![r].status = s]
    BY <1>3 DEF Expire, Close
  <2>2. request[r].status = "OPEN" /\ UNCHANGED <<paid, reminder>>
    BY <1>3 DEF Expire, Close, Transition, LIVE_STATUSES
  <2>3. RequestsTypeOK'
    BY <2>1, <2>2 DEF RequestsTypeOK, PaymentRequestStatus
  <2>4. PaidExactly'
    BY <2>1, <2>2 DEF RequestsTypeOK, PaidExactly
  <2> QED BY <2>3, <2>4
<1>4. ASSUME NEW n \in Reminders, NEW r \in Requests, CheckNudge(n, r)
      PROVE  RequestsTypeOK' /\ PaidExactly'
  BY <1>4 DEF CheckNudge, RequestsTypeOK, PaidExactly
<1>5. ASSUME NEW n \in Reminders, Nudge(n) PROVE RequestsTypeOK' /\ PaidExactly'
  <2>1. CASE UNCHANGED request
    BY <1>5, <2>1 DEF Nudge, RequestsTypeOK, PaidExactly
  <2>2. CASE ~UNCHANGED request
    <3> DEFINE r == reminder[n]
    <3>1. r \in Requests
      BY <1>5 DEF Nudge, RequestsTypeOK
    <3>2. request' = [request EXCEPT ![r].nudgeCount = @ + 1, ![r].lastNudgedAt = today]
      BY <1>5, <2>2 DEF Nudge
    <3> DEFINE nudged == [status |-> request[r].status, expiresAt |-> request[r].expiresAt,
                          nudgeCount |-> request[r].nudgeCount + 1, lastNudgedAt |-> today]
    <3>3. nudged \in [status : PaymentRequestStatus, expiresAt : Nat, nudgeCount : Nat,
                      lastNudgedAt : {NoDay} \cup Days]
      BY <1>0, <3>1
    <3>4. /\ request'[r] = nudged
          /\ request' = [q \in Requests |-> IF q = r THEN request'[r] ELSE request[q]]
      BY <3>1, <3>2 DEF RequestsTypeOK
    <3>5. RequestsTypeOK'
      <4> HIDE DEF nudged
      <4> QED BY <1>5, <3>1, <3>3, <3>4 DEF Nudge, RequestsTypeOK
    <3>6. PaidExactly'
      BY <1>5, <3>1, <3>2 DEF Nudge, RequestsTypeOK, PaidExactly
    <3> QED BY <3>5, <3>6
  <2> QED BY <2>1, <2>2
<1> QED BY <1>1, <1>2, <1>3, <1>4, <1>5 DEF RequestsNext

(* The invariant: the property is inductive with the type and the clock.   *)
RequestsInv == today \in Days /\ RequestsTypeOK /\ PaidExactly

(* The invariant of the payment requests holds of every behaviour.         *)
LEMMA RequestsInvariant == Spec => []RequestsInv
<1>1. Init => RequestsInv
  <2> SUFFICES ASSUME Init PROVE RequestsInv
    OBVIOUS
  <2>1. today \in Days
    BY AccountAssumption DEF Init, AccountInit, Days
  <2> QED BY <2>1 DEF Init, RequestsInit, RequestsInv, RequestsTypeOK, PaidExactly, NoRequest,
            PaymentRequestStatus, NoDay, Unposted
<1>2. RequestsInv /\ [Next]_vars => RequestsInv'
  <2> SUFFICES ASSUME RequestsInv, [Next]_vars PROVE RequestsInv'
    OBVIOUS
  <2>1. today \in Nat /\ today' \in Days
    BY ClockTurns DEF RequestsInv
  <2>2. CASE RequestsNext
    BY <2>1, <2>2, RequestsKept DEF RequestsInv
  <2>3. CASE UNCHANGED requests
    BY <2>1, <2>3 DEF RequestsInv, requests, RequestsTypeOK, PaidExactly
  <2> QED BY <2>2, <2>3, RequestsAlone
<1> QED BY <1>1, <1>2, PTL DEF Spec

(* A request is paid once, for its amount, exactly when its status says    *)
(* so, whatever expires, closes or is nudged in between                    *)
(* (PaymentRequestService).                                                *)
THEOREM RequestsPaidExactly == Spec => []PaidExactly
<1>1. RequestsInv => PaidExactly
  BY DEF RequestsInv
<1> QED BY <1>1, RequestsInvariant, PTL

-----------------------------------------------------------------------------
(* Disputes.                                                               *)

(* Only the disputes' own actions write their variables.                   *)
LEMMA DisputesAlone ==
  ASSUME [Next]_vars
  PROVE  DisputesNext \/ UNCHANGED disputes
BY DEF Next, vars, MandateStep, RequestStep, GoalStep, DisputeStep, DepositStep, AuditStep, FeeStep,
   InterestStep, OtherStep, ForAll

(* A case that exists was credited; and what has been read was a case then *)
(* open, with nothing parked only if that had been taken back.             *)
HandlersRead ==
  /\ \A p \in Disputed : case[p].status = "NONE" <=> ~credited[p]
  /\ \A h \in Handlers : handler[h].act # "nothing" =>
       LET p == handler[h].payment
           parked == handler[h].read.provisionalCredit
       IN  /\ credited[p] /\ handler[h].read.status \in OPEN_STATUSES
           /\ \/ parked = DisputedAmount[p]
              \/ parked = 0 /\ takenBack[p]

(* The invariant.                                                          *)
DisputesInv == today \in Nat /\ DisputesTypeOK /\ CreditedOnce /\ HandlersRead

(* What the type of the disputes says of single cases and handlers.        *)
LEMMA DisputeValues ==
  ASSUME DisputesTypeOK
  PROVE  /\ NoHandler \in [act : Acts, payment : Disputed, read : CaseFields]
         /\ NoHandler.act = "nothing"
         /\ \A p \in Disputed :
              /\ case[p] \in CaseFields /\ case[p].provisionalCredit \in Nat
              /\ case[p].status \in DisputeStatus /\ case[p].responseDueAt \in Nat
              /\ DisputedAmount[p] \in Nat \ {0}
         /\ OPEN_STATUSES \subseteq DisputeStatus
         /\ {"WON", "LOST", "WITHDRAWN", "REPRESENTED", "ARBITRATION"} \subseteq DisputeStatus
<1>1. (CHOOSE p \in Disputed : TRUE) \in Disputed
  BY DisputeAssumption
<1>2. NoCase \in CaseFields
  BY DEF NoCase, CaseFields, DisputeStatus
<1>3. OPEN_STATUSES \subseteq DisputeStatus
      /\ {"WON", "LOST", "WITHDRAWN", "REPRESENTED", "ARBITRATION"} \subseteq DisputeStatus
  BY DEF DisputeStatus, OPEN_STATUSES, TERMINAL_STATUSES
<1>4. \A p \in Disputed : case[p] \in CaseFields /\ DisputedAmount[p] \in Nat \ {0}
  BY DisputeAssumption DEF DisputesTypeOK
<1>5. \A c \in CaseFields : c.provisionalCredit \in Nat /\ c.status \in DisputeStatus
                            /\ c.responseDueAt \in Nat
  BY DEF CaseFields
<1> QED BY <1>1, <1>2, <1>3, <1>4, <1>5 DEF NoHandler, Acts

(* What a write does to a case, as far as it matters.                      *)
Written(p, s, m) ==
  /\ case' = [q \in Disputed |-> IF q = p THEN case'[p] ELSE case[q]]
  /\ case'[p] \in CaseFields /\ case'[p].status = s /\ case'[p].provisionalCredit = m

(* The two ways a handler writes the case, as writes of a status and an    *)
(* amount.                                                                 *)
LEMMA WritesOf ==
  ASSUME DisputesTypeOK, NEW h \in Handlers, NEW s \in DisputeStatus
  PROVE  /\ handler[h].payment \in Disputed
         /\ WriteStatus(h, s) =>
              Written(handler[h].payment, s, case[handler[h].payment].provisionalCredit)
         /\ \A m \in Nat : Decided(h, s, m) => Written(handler[h].payment, s, m)
<1> DEFINE p == handler[h].payment
<1>1. p \in Disputed /\ case[p] \in CaseFields
  BY DEF DisputesTypeOK
<1>2. ASSUME WriteStatus(h, s) PROVE Written(p, s, case[p].provisionalCredit)
  <2>1. case' = [case EXCEPT ![p].status = s]
    BY <1>2 DEF WriteStatus
  <2> QED BY <1>1, <2>1 DEF Written, CaseFields, DisputesTypeOK
<1>3. ASSUME NEW m \in Nat, Decided(h, s, m) PROVE Written(p, s, m)
  <2>1. case' = [case EXCEPT ![p] = [@ EXCEPT !.status = s, !.provisionalCredit = m]]
    BY <1>3 DEF Decided
  <2> QED BY <1>1, <2>1 DEF Written, CaseFields, DisputesTypeOK
<1> QED BY <1>1, <1>2, <1>3

(* Once a handler is done its read counts for nothing, and what the others *)
(* have read stays what the invariant says of it.                          *)
LEMMA HandlerDone ==
  ASSUME DisputesTypeOK, NEW h \in Handlers, handler' = [handler EXCEPT ![h] = NoHandler],
         HandlersRead, \A p \in Disputed : (case[p].status = "NONE" <=> ~credited[p])',
         UNCHANGED credited, \A p \in Disputed : takenBack[p] => takenBack'[p]
  PROVE  /\ handler' \in [Handlers -> [act : Acts, payment : Disputed, read : CaseFields]]
         /\ HandlersRead'
<1>1. handler' \in [Handlers -> [act : Acts, payment : Disputed, read : CaseFields]]
  BY DisputeValues DEF DisputesTypeOK
<1>2. ASSUME NEW i \in Handlers, handler'[i].act # "nothing"
      PROVE  /\ credited'[handler'[i].payment] /\ handler'[i].read.status \in OPEN_STATUSES
             /\ \/ handler'[i].read.provisionalCredit = DisputedAmount[handler'[i].payment]
                \/ handler'[i].read.provisionalCredit = 0 /\ takenBack'[handler'[i].payment]
  <2>1. i # h /\ handler'[i] = handler[i] /\ handler[i].payment \in Disputed
    BY <1>2, DisputeValues DEF DisputesTypeOK
  <2> QED BY <1>2, <2>1 DEF HandlersRead
<1> QED BY <1>1, <1>2 DEF HandlersRead

(* Every action on disputes keeps the invariant.                           *)
LEMMA DisputesKept ==
  ASSUME DisputesInv, DisputesNext
  PROVE  DisputesTypeOK' /\ CreditedOnce' /\ HandlersRead'
<1> USE DEF DisputesInv
<1>0. \A h \in Handlers : /\ handler[h].payment \in Disputed /\ handler[h].read \in CaseFields
                          /\ handler[h].read.provisionalCredit \in Nat
                          /\ handler[h].read.status \in DisputeStatus
  BY DEF DisputesTypeOK, CaseFields
<1>1. ASSUME NEW p \in Disputed, OpenCase(p)
      PROVE  DisputesTypeOK' /\ CreditedOnce' /\ HandlersRead'
  <2>1. PICK answer \in BOOLEAN :
          case' = [case EXCEPT ![p] = [status |-> "UNDER_REVIEW", contested |-> answer,
                                       provisionalCredit |-> DisputedAmount[p],
                                       responseDueAt |-> today + MerchantDays]]
    BY <1>1 DEF OpenCase
  <2>2. /\ case[p].status = "NONE" /\ credited' = [credited EXCEPT ![p] = TRUE]
        /\ UNCHANGED <<takenBack, resolution, handler>>
    BY <1>1 DEF OpenCase
  <2>3. ~credited[p] /\ ~takenBack[p]
    BY <2>2 DEF HandlersRead, CreditedOnce
  <2>4. [status |-> "UNDER_REVIEW", contested |-> answer, provisionalCredit |-> DisputedAmount[p],
         responseDueAt |-> today + MerchantDays] \in CaseFields
    <3>1. today + MerchantDays \in Nat
      BY DisputeAssumption
    <3> QED BY <3>1, DisputeValues DEF CaseFields, DisputeStatus, OPEN_STATUSES,
               AWAITING_MERCHANT_STATUSES
  <2>5. DisputesTypeOK'
    BY <2>1, <2>2, <2>4 DEF DisputesTypeOK
  <2>6. CreditedOnce'
    BY <2>1, <2>2, <2>3 DEF CreditedOnce, DisputesTypeOK
  <2>7. HandlersRead'
    BY <2>1, <2>2, <1>0 DEF HandlersRead, DisputesTypeOK
  <2> QED BY <2>5, <2>6, <2>7
<1>2. ASSUME NEW h \in Handlers, Represent(h) \/ Attach(h)
      PROVE  DisputesTypeOK' /\ CreditedOnce' /\ HandlersRead'
  <2> DEFINE p == handler[h].payment
  <2>1. handler[h].act # "nothing"
    BY <1>2 DEF Represent, Attach
  <2>2. credited[p] /\ handler[h].read.status \in OPEN_STATUSES
    BY <2>1 DEF HandlersRead
  <2>3. PICK s \in OPEN_STATUSES : WriteStatus(h, s)
    BY <1>2, <2>2 DEF Represent, Attach, statusAfterEvidenceOn, OPEN_STATUSES
  <2>4. s \in DisputeStatus /\ s # "NONE"
    BY DisputeValues DEF OPEN_STATUSES, AWAITING_MERCHANT_STATUSES
  <2>5. /\ p \in Disputed /\ Written(p, s, case[p].provisionalCredit)
        /\ UNCHANGED disputeEntries /\ handler' = [handler EXCEPT ![h] = NoHandler]
    BY <2>3, <2>4, WritesOf DEF WriteStatus
  <2>6. \A q \in Disputed : (case[q].status = "NONE" <=> ~credited[q])'
    BY <2>2, <2>4, <2>5 DEF Written, HandlersRead, disputeEntries
  <2>7. HandlersRead' /\ handler' \in [Handlers -> [act : Acts, payment : Disputed, read : CaseFields]]
    BY <2>5, <2>6, HandlerDone DEF disputeEntries
  <2>8. DisputesTypeOK'
    BY <2>5, <2>7 DEF DisputesTypeOK, Written, disputeEntries
  <2>9. CreditedOnce'
    BY <2>5 DEF CreditedOnce, Written, disputeEntries
  <2> QED BY <2>7, <2>8, <2>9
<1>3. ASSUME NEW h \in Handlers, handler[h].act # "nothing", Win(h)
      PROVE  DisputesTypeOK' /\ CreditedOnce' /\ HandlersRead'
  <2> DEFINE p == handler[h].payment
  <2>1. /\ p \in Disputed /\ credited[p] /\ case[p].provisionalCredit \in Nat
        /\ handler[h].read.provisionalCredit = 0 => takenBack[p]
    BY <1>0, <1>3, DisputeValues DEF HandlersRead
  <2>2. Decided(h, "WON", case[p].provisionalCredit) /\ UNCHANGED takenBack
    BY <1>3 DEF Win
  <2>3. /\ Written(p, "WON", case[p].provisionalCredit)
        /\ UNCHANGED credited /\ handler' = [handler EXCEPT ![h] = NoHandler]
    BY <2>1, <2>2, WritesOf, DisputeValues DEF Decided
  <2>4. PICK kind \in {"paid out", "recovered"} :
          /\ Resolve(p, kind)
          /\ kind = "paid out" => handler[h].read.provisionalCredit = 0
    BY <1>3 DEF Win, OwedPayout
  <2>5. \A q \in Disputed : (case[q].status = "NONE" <=> ~credited[q])'
    BY <2>1, <2>3 DEF Written, HandlersRead
  <2>6. HandlersRead' /\ handler' \in [Handlers -> [act : Acts, payment : Disputed, read : CaseFields]]
    BY <2>2, <2>3, <2>5, HandlerDone
  <2>7. /\ resolution' \in [Disputed -> Resolutions]
        /\ \A q \in Disputed : q # p => resolution'[q] = resolution[q]
        /\ resolution'[p] \in {kind, resolution[p]}
    <3>1. resolution' = [resolution EXCEPT ![p] = IF resolution[p] = "none" THEN kind ELSE resolution[p]]
      BY <2>4 DEF Resolve
    <3>2. resolution \in [Disputed -> Resolutions] /\ kind \in Resolutions
      BY DEF DisputesTypeOK, Resolutions
    <3> QED BY <2>1, <3>1, <3>2
  <2>8. DisputesTypeOK'
    BY <2>2, <2>3, <2>6, <2>7 DEF DisputesTypeOK, Written
  <2>9. CreditedOnce'
    <3>1. \A q \in Disputed : case'[q].provisionalCredit = case[q].provisionalCredit
      BY <2>1, <2>3 DEF Written
    <3>2. \A q \in Disputed : resolution'[q] = "paid out" => takenBack[q]
      BY <2>1, <2>4, <2>7 DEF CreditedOnce
    <3> QED BY <2>2, <2>3, <3>1, <3>2 DEF CreditedOnce
  <2> QED BY <2>6, <2>8, <2>9
<1>4. ASSUME NEW h \in Handlers, handler[h].act # "nothing", NEW outcome \in {"LOST", "WITHDRAWN"},
             NEW reverse \in BOOLEAN, Lose(h, outcome, reverse)
      PROVE  DisputesTypeOK' /\ CreditedOnce' /\ HandlersRead'
  <2> DEFINE p == handler[h].payment
             parked == handler[h].read.provisionalCredit
  <2>1. p \in Disputed /\ credited[p] /\ case[p].provisionalCredit \in Nat /\ parked \in Nat
    BY <1>0, <1>4, DisputeValues DEF HandlersRead
  <2>2. outcome \in DisputeStatus /\ outcome # "NONE"
    BY DisputeValues
  <2>3. PICK m \in Nat : /\ Decided(h, outcome, m)
                         /\ m = IF takenBack'[p] THEN 0 ELSE case[p].provisionalCredit
    <3>1. takenBack[p] => case[p].provisionalCredit = 0
      BY <2>1 DEF CreditedOnce
    <3> QED BY <1>4, <2>1, <3>1 DEF Lose, DisputesTypeOK
  <2>4. /\ takenBack' = takenBack \/ takenBack' = [takenBack EXCEPT ![p] = TRUE]
        /\ UNCHANGED resolution \/ Resolve(p, "absorbed")
    BY <1>4 DEF Lose
  <2>5. /\ Written(p, outcome, m)
        /\ UNCHANGED credited /\ handler' = [handler EXCEPT ![h] = NoHandler]
    BY <2>2, <2>3, WritesOf DEF Decided
  <2>6. \A q \in Disputed : (case[q].status = "NONE" <=> ~credited[q])'
    BY <2>1, <2>2, <2>5 DEF Written, HandlersRead
  <2>7. \A q \in Disputed : takenBack[q] => takenBack'[q]
    BY <2>4 DEF DisputesTypeOK
  <2>8. HandlersRead' /\ handler' \in [Handlers -> [act : Acts, payment : Disputed, read : CaseFields]]
    BY <2>5, <2>6, <2>7, HandlerDone
  <2>9. resolution' \in [Disputed -> Resolutions] /\ takenBack' \in [Disputed -> BOOLEAN]
    BY <2>4 DEF Resolve, Resolutions, DisputesTypeOK
  <2>10. DisputesTypeOK'
    BY <2>5, <2>8, <2>9 DEF DisputesTypeOK, Written
  <2>11. \A q \in Disputed : resolution'[q] = "paid out" => resolution[q] = "paid out"
    BY <2>4 DEF Resolve, DisputesTypeOK
  <2>12. \A q \in Disputed : q # p => /\ takenBack'[q] = takenBack[q]
                                      /\ case'[q] = case[q]
    BY <2>4, <2>5 DEF Written, DisputesTypeOK
  <2>13. case'[p].provisionalCredit = IF takenBack'[p] THEN 0 ELSE DisputedAmount[p]
    BY <2>1, <2>3, <2>5, <2>7 DEF Written, CreditedOnce
  <2>14. CreditedOnce'
    BY <2>1, <2>5, <2>7, <2>11, <2>12, <2>13 DEF CreditedOnce
  <2> QED BY <2>8, <2>10, <2>14
<1>5. ASSUME NEW h \in Handlers, PutDown(h) PROVE DisputesTypeOK' /\ CreditedOnce' /\ HandlersRead'
  <2>1. /\ handler' = [handler EXCEPT ![h] = NoHandler]
        /\ UNCHANGED <<case, credited, takenBack, resolution>>
    BY <1>5 DEF PutDown, disputeEntries
  <2>2. \A q \in Disputed : (case[q].status = "NONE" <=> ~credited[q])'
    BY <2>1 DEF HandlersRead
  <2> QED BY <2>1, <2>2, HandlerDone DEF DisputesTypeOK, CreditedOnce
<1>6. ASSUME NEW h \in Handlers, NEW p \in Disputed, NEW act \in Acts, Handle(h, p, act)
      PROVE  DisputesTypeOK' /\ CreditedOnce' /\ HandlersRead'
  <2> DEFINE new == [act |-> act, payment |-> p, read |-> case[p]]
  <2>1. /\ handler' = [handler EXCEPT ![h] = new]
        /\ UNCHANGED <<case, credited, takenBack, resolution>>
    BY <1>6 DEF Handle, disputeEntries
  <2>2. case[p].status \in OPEN_STATUSES
    BY <1>6 DEF Handle, AnswerDue, OPEN_STATUSES
  <2>3. credited[p]
    BY <2>2 DEF HandlersRead, OPEN_STATUSES, AWAITING_MERCHANT_STATUSES
  <2>4. \/ case[p].provisionalCredit = DisputedAmount[p]
        \/ case[p].provisionalCredit = 0 /\ takenBack[p]
    BY <2>3 DEF CreditedOnce
  <2>5. new \in [act : Acts, payment : Disputed, read : CaseFields]
    BY DisputeValues
  <2>6. DisputesTypeOK' /\ CreditedOnce'
    <3> HIDE DEF new
    <3> QED BY <2>1, <2>5 DEF DisputesTypeOK, CreditedOnce
  <2>7. \A i \in Handlers : handler'[i] = IF i = h THEN new ELSE handler[i]
    <3> HIDE DEF new
    <3> QED BY <2>1 DEF DisputesTypeOK
  <2>8. HandlersRead'
    BY <2>1, <2>2, <2>3, <2>4, <2>7 DEF HandlersRead
  <2> QED BY <2>6, <2>8
<1>7. ASSUME NEW h \in Handlers, Settle(h) PROVE DisputesTypeOK' /\ CreditedOnce' /\ HandlersRead'
  <2>1. /\ handler[h].act # "nothing"
        /\ Win(h) \/ \E outcome \in {"LOST", "WITHDRAWN"}, reverse \in BOOLEAN :
                        Lose(h, outcome, reverse)
    BY <1>7 DEF Settle
  <2> QED BY <1>3, <1>4, <2>1
<1> QED BY <1>1, <1>2, <1>5, <1>6, <1>7 DEF DisputesNext

(* The invariant of the disputes holds of every behaviour.                 *)
LEMMA DisputesInvariant == Spec => [](DisputesInv /\ today \in Days)
<1>1. Init => DisputesInv /\ today \in Days
  <2> SUFFICES ASSUME Init PROVE DisputesInv /\ today \in Days
    OBVIOUS
  <2>1. today \in Days /\ today \in Nat
    BY AccountAssumption DEF Init, AccountInit, Days
  <2>2. (CHOOSE p \in Disputed : TRUE) \in Disputed
    BY DisputeAssumption
  <2>3. DisputesTypeOK
    BY <2>2 DEF Init, DisputesInit, DisputesTypeOK, NoCase, NoHandler, CaseFields, Resolutions, Acts,
              DisputeStatus
  <2>4. CreditedOnce /\ HandlersRead
    BY DEF Init, DisputesInit, CreditedOnce, HandlersRead, NoCase, NoHandler
  <2> QED BY <2>1, <2>3, <2>4 DEF DisputesInv
<1>2. DisputesInv /\ today \in Days /\ [Next]_vars => (DisputesInv /\ today \in Days)'
  <2> SUFFICES ASSUME DisputesInv, today \in Days, [Next]_vars PROVE (DisputesInv /\ today \in Days)'
    OBVIOUS
  <2>1. today' \in Nat /\ today' \in Days
    BY ClockTurns
  <2>2. CASE DisputesNext
    BY <2>1, <2>2, DisputesKept DEF DisputesInv
  <2>3. CASE UNCHANGED disputes
    BY <2>1, <2>3 DEF DisputesInv, disputes, DisputesTypeOK, CreditedOnce, HandlersRead
  <2> QED BY <2>2, <2>3, DisputesAlone
<1> QED BY <1>1, <1>2, PTL DEF Spec

(* However decisions, withdrawals, answers and evidence overlap, the       *)
(* disputed amount is parked with the customer once, is taken back only if *)
(* it was, and is paid out only after that (DisputeService).               *)
THEOREM DisputesCreditedOnce == Spec => []CreditedOnce
<1>1. DisputesInv => CreditedOnce
  BY DEF DisputesInv
<1> QED BY <1>1, DisputesInvariant, PTL

-----------------------------------------------------------------------------
(* Interest.                                                               *)

(* Only the interest runs write the interest variables.                    *)
LEMMA InterestAlone ==
  ASSUME [Next]_vars
  PROVE  InterestNext \/ UNCHANGED interest
BY DEF Next, vars, MandateStep, RequestStep, GoalStep, DisputeStep, DepositStep, AuditStep, FeeStep,
   InterestStep, OtherStep, ForAll

(* Days after the last one accrued are yet to come; a run is about a day   *)
(* or a period after those it read; and what was capitalised is what a run *)
(* read for as long as the period it read has not been followed by another.*)
RunsRead ==
  /\ \A d \in Days : d > accrual.lastAccruedOn => times[d] = 0
  /\ \A r \in Accruers :
       /\ accruer[r].doing = "accruing" =>
            accruer[r].for \in Days /\ accruer[r].for > accruer[r].read.lastAccruedOn
       /\ accruer[r].doing \in {"paying", "stamping"} =>
            /\ accruer[r].for > accruer[r].read.lastCapitalisedPeriod
            /\ accruer[r].read.lastCapitalisedPeriod <= accrual.lastCapitalisedPeriod
            /\ accruer[r].read.lastCapitalisedPeriod = accrual.lastCapitalisedPeriod =>
                 accruer[r].read.capitalisedToDate = accrual.capitalisedToDate

(* What each day has earned, counting repeats.                             *)
Earned == [d \in Days |-> times[d] * Increment[d]]

(* The invariant.                                                          *)
InterestInv == InterestTypeOK /\ AccrualConserved /\ RunsRead

(* The type of a run.                                                      *)
Runs == [doing : {"nothing", "accruing", "paying", "stamping"}, for : Nat, read : AccrualState]

(* What the type of the interest variables says of single fields.          *)
LEMMA InterestValues ==
  ASSUME InterestTypeOK
  PROVE  /\ MaxDay \in Nat /\ Days \subseteq Nat \ {0} /\ Unit \in Nat \ {0}
         /\ accrual.numerator \in Nat /\ accrual.lastAccruedOn \in Nat
         /\ accrual.lastCapitalisedPeriod \in Nat /\ accrual.capitalisedToDate \in Nat
         /\ NoRun \in Runs /\ NoRun.doing = "nothing"
         /\ \A r \in Accruers :
              /\ accruer[r] \in Runs /\ accruer[r].for \in Nat
              /\ accruer[r].read.numerator \in Nat /\ accruer[r].read.lastAccruedOn \in Nat
              /\ accruer[r].read.lastCapitalisedPeriod \in Nat
              /\ accruer[r].read.capitalisedToDate \in Nat
         /\ \A d \in Days : times[d] \in Nat /\ Increment[d] \in Nat /\ times[d] * Increment[d] \in Nat
         /\ Earned \in [1..MaxDay -> Int]
<1>1. MaxDay \in Nat /\ Days \subseteq Nat \ {0} /\ Unit \in Nat \ {0}
  BY AccountAssumption, InterestAssumption DEF Days
<1>2. /\ accrual.numerator \in Nat /\ accrual.lastAccruedOn \in Nat
      /\ accrual.lastCapitalisedPeriod \in Nat /\ accrual.capitalisedToDate \in Nat
      /\ NoRun \in Runs /\ NoRun.doing = "nothing"
  BY DEF InterestTypeOK, AccrualState, NoRun, NoState, Runs
<1>3. \A r \in Accruers : accruer[r] \in Runs
  BY DEF InterestTypeOK, Runs
<1>4. \A a \in Runs : a.for \in Nat /\ a.read \in AccrualState
  BY DEF Runs
<1>5. \A s \in AccrualState : /\ s.numerator \in Nat /\ s.lastAccruedOn \in Nat
                              /\ s.lastCapitalisedPeriod \in Nat /\ s.capitalisedToDate \in Nat
  BY DEF AccrualState
<1>6. \A d \in Days : times[d] \in Nat /\ Increment[d] \in Nat
  BY InterestAssumption DEF InterestTypeOK
<1>7. \A m, n \in Nat : m * n \in Nat
  OBVIOUS
<1>8. \A d \in Days : times[d] * Increment[d] \in Int
  BY <1>6, <1>7
<1>9. Earned \in [1..MaxDay -> Int]
  BY <1>8 DEF Earned, Days
<1> QED BY <1>1, <1>2, <1>3, <1>4, <1>5, <1>6, <1>7, <1>9

(* One more day adds what it earns.                                        *)
LEMMA DayEarns ==
  ASSUME InterestTypeOK, NEW d \in Days, times[d] = 0, times' = [times EXCEPT ![d] = @ + 1]
  PROVE  Total(Earned, MaxDay)' = Total(Earned, MaxDay) + Increment[d]
<1>1. Increment[d] \in Nat /\ Earned[d] = 0 /\ Days = 1..MaxDay /\ MaxDay \in Nat
  BY InterestValues DEF Earned, Days
<1>2. times'[d] * Increment[d] = Increment[d]
  BY <1>1 DEF InterestTypeOK
<1>3. Earned' = [Earned EXCEPT ![d] = Increment[d]]
  BY <1>2 DEF Earned, InterestTypeOK
<1>4. Total([Earned EXCEPT ![d] = Increment[d]], MaxDay)
        = Total(Earned, MaxDay) - Earned[d] + Increment[d]
  <2>1. /\ MaxDay \in Nat /\ d \in 1..MaxDay /\ Increment[d] \in Int
        /\ Earned \in [1..MaxDay -> Int]
    BY <1>1, InterestValues
  <2> QED BY <2>1, TotalUpdate
<1>5. Total(Earned, MaxDay)' = Total(Earned', MaxDay) /\ Total(Earned, MaxDay) \in Int
  BY <1>1, InterestValues, TotalType
<1> QED BY <1>1, <1>3, <1>4, <1>5

(* Of the accumulator, what is payable and what remains are the whole.     *)
LEMMA InterestSplit ==
  ASSUME NEW n \in Nat
  PROVE  /\ Remainder(n) \in Nat /\ Payable(n) \in Nat
         /\ Unit * Payable(n) + Remainder(n) = n
<1>1. ASSUME NEW u \in Nat \ {0} PROVE n % u \in Nat /\ n \div u \in Nat /\ u * (n \div u) + (n % u) = n
  OBVIOUS
<1> QED BY <1>1, InterestAssumption DEF Remainder, Payable

(* Writes to the accrual state.                                            *)
LEMMA AccruedFields ==
  ASSUME accrual \in AccrualState, NEW n, NEW d,
         accrual' = [accrual EXCEPT !.numerator = n, !.lastAccruedOn = d]
  PROVE  accrual' = [numerator |-> n, lastAccruedOn |-> d,
                     lastCapitalisedPeriod |-> accrual.lastCapitalisedPeriod,
                     capitalisedToDate |-> accrual.capitalisedToDate]
BY DEF AccrualState

(* and after a stamp.                                                      *)
LEMMA StampedFields ==
  ASSUME accrual \in AccrualState, NEW n, NEW p, NEW c,
         accrual' = [accrual EXCEPT !.numerator = n, !.lastCapitalisedPeriod = p,
                                    !.capitalisedToDate = c]
  PROVE  accrual' = [numerator |-> n, lastAccruedOn |-> accrual.lastAccruedOn,
                     lastCapitalisedPeriod |-> p, capitalisedToDate |-> c]
BY DEF AccrualState

(* Every step of a run keeps the invariant.                                *)
LEMMA InterestKept ==
  ASSUME InterestInv, InterestNext
  PROVE  InterestInv'
<1> USE DEF InterestInv
<1>1. ASSUME NEW r \in Accruers, NEW d \in Days, StartAccrual(r, d) PROVE InterestInv'
  <2> DEFINE new == [doing |-> "accruing", for |-> d, read |-> accrual]
  <2>1. /\ accruer' = [accruer EXCEPT ![r] = new]
        /\ UNCHANGED <<accrual, times, payout>>
    BY <1>1 DEF StartAccrual
  <2>2. new \in Runs /\ d > accrual.lastAccruedOn
    BY <1>1, InterestValues DEF StartAccrual, SettledFor, Runs, InterestTypeOK
  <2>3. \A i \in Accruers : accruer'[i] = IF i = r THEN new ELSE accruer[i]
    BY <2>1 DEF InterestTypeOK
  <2>4. InterestTypeOK' /\ AccrualConserved'
    <3> HIDE DEF new
    <3> QED BY <2>1, <2>2 DEF InterestTypeOK, AccrualConserved, Runs
  <2>5. RunsRead'
    BY <2>1, <2>2, <2>3 DEF RunsRead
  <2> QED BY <2>4, <2>5
<1>2. ASSUME NEW r \in Accruers, NEW p \in Periods, StartCapitalisation(r, p) PROVE InterestInv'
  <2> DEFINE new == [doing |-> "paying", for |-> p, read |-> accrual]
  <2>1. /\ accruer' = [accruer EXCEPT ![r] = new]
        /\ UNCHANGED <<accrual, times, payout>>
    BY <1>2 DEF StartCapitalisation
  <2>2. new \in Runs /\ p > accrual.lastCapitalisedPeriod
    <3>1. p \in Nat
      BY DEF Periods
    <3> QED BY <1>2, <3>1, InterestValues DEF StartCapitalisation, Runs, InterestTypeOK
  <2>3. \A i \in Accruers : accruer'[i] = IF i = r THEN new ELSE accruer[i]
    BY <2>1 DEF InterestTypeOK
  <2>4. InterestTypeOK' /\ AccrualConserved'
    <3> HIDE DEF new
    <3> QED BY <2>1, <2>2 DEF InterestTypeOK, AccrualConserved, Runs
  <2>5. RunsRead'
    BY <2>1, <2>2, <2>3, InterestValues DEF RunsRead
  <2> QED BY <2>4, <2>5
<1>3. ASSUME NEW r \in Accruers, Accrue(r) PROVE InterestInv'
  <2> DEFINE d == accruer[r].for
  <2>1. /\ d \in Days /\ d > accrual.lastAccruedOn /\ times[d] = 0
        /\ accruer[r].read.numerator = accrual.numerator
    BY <1>3 DEF Accrue, Unchanged, RunsRead
  <2>2. /\ accrual' = [accrual EXCEPT !.numerator = accrual.numerator + Increment[d],
                                      !.lastAccruedOn = d]
        /\ times' = [times EXCEPT ![d] = @ + 1]
        /\ accruer' = [accruer EXCEPT ![r] = NoRun] /\ UNCHANGED payout
    BY <1>3, <2>1 DEF Accrue
  <2>3. /\ accrual'.numerator = accrual.numerator + Increment[d] /\ accrual'.lastAccruedOn = d
        /\ accrual'.lastCapitalisedPeriod = accrual.lastCapitalisedPeriod
        /\ accrual'.capitalisedToDate = accrual.capitalisedToDate /\ accrual' \in AccrualState
    <3>1. /\ accrual.numerator + Increment[d] \in Nat /\ d \in Nat /\ accrual \in AccrualState
          /\ accrual.lastCapitalisedPeriod \in Nat /\ accrual.capitalisedToDate \in Nat
      BY <2>1, InterestValues DEF InterestTypeOK
    <3>2. accrual' = [numerator |-> accrual.numerator + Increment[d], lastAccruedOn |-> d,
                      capitalisedToDate |-> accrual.capitalisedToDate,
                      lastCapitalisedPeriod |-> accrual.lastCapitalisedPeriod]
      BY <2>2, <3>1, AccruedFields
    <3> QED BY <3>1, <3>2 DEF AccrualState
  <2>4. \A i \in Accruers : accruer'[i] = IF i = r THEN NoRun ELSE accruer[i]
    BY <2>2 DEF InterestTypeOK
  <2>5. InterestTypeOK'
    <3>1. times' \in [Days -> Nat]
      <4>1. times \in [Days -> Nat] /\ times' = [times EXCEPT ![d] = 1]
        BY <2>1, <2>2 DEF InterestTypeOK
      <4> HIDE DEF d
      <4> QED BY <4>1
    <3>2. accruer' \in [Accruers -> Runs]
      BY <2>2, InterestValues DEF InterestTypeOK, Runs
    <3> QED BY <2>2, <2>3, <3>1, <3>2 DEF InterestTypeOK, Runs
  <2>6. Total(Earned, MaxDay)' = Total(Earned, MaxDay) + Increment[d] /\ Total(Earned, MaxDay) \in Int
    BY <2>1, <2>2, DayEarns, InterestValues, TotalType
  <2>7. \A c \in Days : times'[c] = IF c = d THEN 1 ELSE times[c]
    BY <2>1, <2>2 DEF InterestTypeOK
  <2>8. Unit * accrual.capitalisedToDate \in Nat
    BY InterestValues
  <2>9. AccrualConserved'
    <3>1. accrual.numerator \in Nat /\ Increment[d] \in Nat
      BY <2>1, InterestValues
    <3>2. accrual'.numerator + Unit * accrual'.capitalisedToDate
            = accrual.numerator + Unit * accrual.capitalisedToDate + Increment[d]
      BY <2>3, <2>8, <3>1
    <3>3. accrual'.numerator + Unit * accrual'.capitalisedToDate = Total(Earned, MaxDay)'
      BY <2>6, <3>1, <3>2 DEF AccrualConserved, Earned
    <3>4. \A c \in Days : times'[c] <= 1
      BY <2>7 DEF AccrualConserved
    <3> QED BY <3>3, <3>4 DEF AccrualConserved, Earned
  <2>10. RunsRead'
    <3>1. \A c \in Days : c > accrual'.lastAccruedOn => times'[c] = 0
      <4>1. accrual.lastAccruedOn \in Nat /\ Days \subseteq Nat
        BY InterestValues
      <4>2. \A c \in Days : c > accrual.lastAccruedOn => times[c] = 0
        BY DEF RunsRead
      <4>3. ASSUME NEW c \in Days, c > d PROVE c > accrual.lastAccruedOn /\ c # d
        <5>1. c \in Nat /\ d \in Nat
          BY <2>1, <4>1
        <5> HIDE DEF d
        <5> QED BY <2>1, <4>1, <4>3, <5>1
      <4> QED BY <2>3, <2>7, <4>2, <4>3
    <3>2. NoRun.doing = "nothing"
      BY DEF NoRun
    <3> QED BY <2>3, <2>4, <3>1, <3>2 DEF RunsRead
  <2> QED BY <2>5, <2>9, <2>10
<1>4. ASSUME NEW r \in Accruers, PostInterest(r) PROVE InterestInv'
  <2> DEFINE m == Payable(accruer[r].read.numerator)
  <2>1. m \in Nat
    BY InterestValues DEF Payable
  <2>2. /\ accruer[r].doing = "paying" /\ UNCHANGED <<accrual, times>>
        /\ accruer' = [accruer EXCEPT ![r].doing = "stamping"]
        /\ payout' = [payout EXCEPT ![accruer[r].for] = Posting(@, m)]
    BY <1>4 DEF PostInterest
  <2>3. payout' \in [Periods -> Nat]
    BY <2>1, <2>2 DEF InterestTypeOK, Posting
  <2>4. /\ \A i \in Accruers : accruer'[i].for = accruer[i].for /\ accruer'[i].read = accruer[i].read
        /\ \A i \in Accruers : accruer'[i].doing = IF i = r THEN "stamping" ELSE accruer[i].doing
        /\ accruer' \in [Accruers -> Runs]
    BY <2>2 DEF InterestTypeOK, Runs
  <2>5. InterestTypeOK' /\ AccrualConserved'
    BY <2>2, <2>3, <2>4 DEF InterestTypeOK, AccrualConserved, Runs
  <2>6. RunsRead'
    BY <2>2, <2>4 DEF RunsRead
  <2> QED BY <2>5, <2>6
<1>5. ASSUME NEW r \in Accruers, Stamp(r) PROVE InterestInv'
  <2> DEFINE read == accruer[r].read
             units == accrual.numerator
  <2>1. /\ read.numerator = units /\ read.lastCapitalisedPeriod = accrual.lastCapitalisedPeriod
        /\ read.capitalisedToDate = accrual.capitalisedToDate
        /\ accruer[r].for > accrual.lastCapitalisedPeriod
    BY <1>5 DEF Stamp, Unstamped, RunsRead
  <2>2. /\ accrual' = [accrual EXCEPT !.numerator = Remainder(units),
                                      !.lastCapitalisedPeriod = accruer[r].for,
                                      !.capitalisedToDate = accrual.capitalisedToDate + Payable(units)]
        /\ accruer' = [accruer EXCEPT ![r] = NoRun] /\ UNCHANGED <<times, payout>>
    BY <1>5, <2>1 DEF Stamp
  <2>3. /\ Remainder(units) \in Nat /\ Payable(units) \in Nat
        /\ Unit * Payable(units) + Remainder(units) = units
    BY InterestSplit, InterestValues
  <2>4. /\ accrual'.numerator = Remainder(units) /\ accrual'.lastAccruedOn = accrual.lastAccruedOn
        /\ accrual'.lastCapitalisedPeriod = accruer[r].for
        /\ accrual'.capitalisedToDate = accrual.capitalisedToDate + Payable(units)
        /\ accrual' \in AccrualState
    <3>1. /\ accrual.capitalisedToDate + Payable(units) \in Nat /\ accruer[r].for \in Nat
          /\ accrual.lastAccruedOn \in Nat /\ accrual \in AccrualState
      BY <2>3, InterestValues DEF InterestTypeOK
    <3>2. accrual' = [numerator |-> Remainder(units), lastAccruedOn |-> accrual.lastAccruedOn,
                      capitalisedToDate |-> accrual.capitalisedToDate + Payable(units),
                      lastCapitalisedPeriod |-> accruer[r].for]
      BY <2>2, <3>1, StampedFields
    <3> QED BY <2>3, <3>1, <3>2 DEF AccrualState
  <2>5. \A i \in Accruers : accruer'[i] = IF i = r THEN NoRun ELSE accruer[i]
    BY <2>2 DEF InterestTypeOK
  <2>6. InterestTypeOK'
    BY <2>2, <2>4, InterestValues DEF InterestTypeOK, Runs
  <2>7. Unit * (accrual.capitalisedToDate + Payable(units))
          = Unit * accrual.capitalisedToDate + Unit * Payable(units)
    BY <2>3, InterestValues
  <2>8. Unit * accrual.capitalisedToDate \in Nat /\ Unit * Payable(units) \in Nat
    BY <2>3, InterestValues
  <2>9. accrual'.numerator + Unit * accrual'.capitalisedToDate
          = accrual.numerator + Unit * accrual.capitalisedToDate
    BY <2>3, <2>4, <2>7, <2>8
  <2>10. AccrualConserved'
    BY <2>2, <2>9 DEF AccrualConserved
  <2>11. RunsRead'
    BY <2>1, <2>2, <2>4, <2>5, InterestValues DEF RunsRead
  <2> QED BY <2>6, <2>10, <2>11
<1>6. ASSUME NEW r \in Accruers, EndRun(r) PROVE InterestInv'
  <2>1. /\ accruer' = [accruer EXCEPT ![r] = NoRun] /\ UNCHANGED <<accrual, times, payout>>
    BY <1>6 DEF EndRun
  <2>2. \A i \in Accruers : accruer'[i] = IF i = r THEN NoRun ELSE accruer[i]
    BY <2>1 DEF InterestTypeOK
  <2>3. InterestTypeOK' /\ AccrualConserved'
    BY <2>1, InterestValues DEF InterestTypeOK, AccrualConserved, Runs
  <2>4. RunsRead'
    BY <2>1, <2>2, InterestValues DEF RunsRead
  <2> QED BY <2>3, <2>4
<1> QED BY <1>1, <1>2, <1>3, <1>4, <1>5, <1>6 DEF InterestNext

(* The invariant of the interest runs holds of every behaviour.            *)
LEMMA InterestInvariant == Spec => []InterestInv
<1>1. Init => InterestInv
  <2> SUFFICES ASSUME Init PROVE InterestInv
    OBVIOUS
  <2>1. InterestTypeOK /\ RunsRead
    BY DEF Init, InterestInit, InterestTypeOK, RunsRead, AccrualState, NoState, NoRun, Unposted
  <2>2. \A d \in 1..MaxDay : Earned[d] = 0
    BY InterestAssumption DEF Init, InterestInit, Earned, Days
  <2>3. Total(Earned, MaxDay) = 0
    BY <2>1, <2>2, InterestValues, TotalZero
  <2>4. accrual.numerator + Unit * accrual.capitalisedToDate = 0
    BY InterestAssumption DEF Init, InterestInit, NoState
  <2>5. \A d \in Days : times[d] <= 1
    BY DEF Init, InterestInit
  <2> QED BY <2>1, <2>3, <2>4, <2>5 DEF InterestInv, AccrualConserved, Earned
<1>2. InterestInv /\ [Next]_vars => InterestInv'
  <2> SUFFICES ASSUME InterestInv, [Next]_vars PROVE InterestInv'
    OBVIOUS
  <2>1. CASE InterestNext
    BY <2>1, InterestKept
  <2>2. CASE UNCHANGED interest
    BY <2>2 DEF InterestInv, interest, InterestTypeOK, AccrualConserved, RunsRead
  <2> QED BY <2>1, <2>2, InterestAlone
<1> QED BY <1>1, <1>2, PTL DEF Spec

(* However runs of accrual and capitalisation overlap, no interest appears *)
(* or disappears in the accumulator, and no day is accrued twice, for any  *)
(* increments and any length of the calendar.                              *)
THEOREM InterestConserved == Spec => []AccrualConserved
<1>1. InterestInv => AccrualConserved
  BY DEF InterestInv
<1> QED BY <1>1, InterestInvariant, PTL

-----------------------------------------------------------------------------
(* Savings goals.                                                          *)

(* Only the savings goals' own actions write their variables.              *)
LEMMA GoalsAlone ==
  ASSUME [Next]_vars
  PROVE  GoalsNext \/ UNCHANGED goals
BY DEF Next, vars, MandateStep, RequestStep, GoalStep, DisputeStep, DepositStep, AuditStep, FeeStep,
   InterestStep, OtherStep, ForAll

(* The references of a goal's entries are numbered up to its movements.    *)
EntriesNumbered ==
  /\ booked \in [Goals -> SUBSET References]
  /\ \A g \in Goals : \A ref \in booked[g] : ref.sequence <= goal[g].movementCount

(* The invariant.                                                          *)
GoalsInv == today \in Days /\ GoalsTypeOK /\ VaultExact /\ EntriesNumbered

(* The types of a goal and of a saver.                                     *)
GoalFields == [status : {"NONE", "OPEN", "CLOSED"}, currentAmount : Nat, movementCount : Nat,
               nextRunOn : Nat]
Passes == [at : {"idle", "saving"}, goal : Goals, left : Nat, lastRun : Days, nextRunOn : Nat]

(* What the type of the goals says of single goals and savers.             *)
LEMMA GoalValues ==
  ASSUME GoalsInv
  PROVE  /\ today \in Nat \ {0} /\ Days \subseteq Nat \ {0} /\ NoPass \in Passes
         /\ \A g \in Goals :
              /\ goal[g] \in GoalFields /\ goal[g].currentAmount \in Nat
              /\ goal[g].movementCount \in Nat /\ goal[g].nextRunOn \in Nat
              /\ goal[g].currentAmount = vault[g]
              /\ goal[g].status # "OPEN" => vault[g] = 0
         /\ \A w \in Savers :
              /\ saver[w] \in Passes /\ saver[w].goal \in Goals /\ saver[w].left \in Nat
              /\ saver[w].lastRun \in Days
         /\ Contributions \subseteq Nat \ {0} /\ SavePeriod \in Nat \ {0} /\ MaxMovements \in Nat
<1>1. today \in Nat \ {0} /\ Days \subseteq Nat \ {0}
  BY AccountAssumption DEF GoalsInv, Days
<1>2. (CHOOSE g \in Goals : TRUE) \in Goals /\ 1 \in Days
  BY GoalAssumption, AccountAssumption DEF Days
<1>3. NoPass \in Passes
  BY <1>2 DEF NoPass, Passes, NoSchedule
<1>4. (\A g \in Goals : goal[g] \in GoalFields) /\ (\A w \in Savers : saver[w] \in Passes)
  BY DEF GoalsInv, GoalsTypeOK, GoalFields, Passes
<1>5. \A x \in GoalFields : /\ x.currentAmount \in Nat /\ x.movementCount \in Nat
                            /\ x.nextRunOn \in Nat
  BY DEF GoalFields
<1>6. \A x \in Passes : x.goal \in Goals /\ x.left \in Nat /\ x.lastRun \in Days
  BY DEF Passes
<1>7. \A g \in Goals : /\ goal[g].currentAmount = vault[g]
                       /\ goal[g].status # "OPEN" => vault[g] = 0
  BY DEF GoalsInv, VaultExact
<1> QED BY <1>1, <1>3, <1>4, <1>5, <1>6, <1>7, GoalAssumption

(* A movement has a reference of its own, and so it moves what it says.    *)
LEMMA VaultMoves ==
  ASSUME GoalsInv, NEW g \in Goals, NEW kind \in Kinds, NEW m \in Int, Settled(g, kind, m)
  PROVE  /\ goal[g].status = "OPEN" /\ UNCHANGED today
         /\ vault' = [vault EXCEPT ![g] = goal[g].currentAmount + m]
         /\ booked' \in [Goals -> SUBSET References]
         /\ \A ref \in booked'[g] : ref.sequence <= goal[g].movementCount + 1
         /\ \A h \in Goals \ {g} : booked'[h] = booked[h]
<1> DEFINE ref == Reference(g, kind)
           n == goal[g].movementCount
<1>1. n \in Nat /\ n < MaxMovements /\ MaxMovements \in Nat /\ today \in Days
  BY GoalValues DEF Settled, GoalsInv
<1>2. ref \in References /\ ref.sequence = n + 1
  <2>1. n + 1 \in 1..MaxMovements
    BY <1>1
  <2> QED BY <1>1, <2>1 DEF Reference, References
<1>3. booked \in [Goals -> SUBSET References] /\ \A r \in booked[g] : r.sequence <= n
  BY DEF GoalsInv, EntriesNumbered
<1>4. ref \notin booked[g]
  <2>1. ~(n + 1 <= n)
    BY <1>1
  <2> QED BY <1>2, <1>3, <2>1
<1>5. booked' = [booked EXCEPT ![g] = booked[g] \cup {ref}]
  BY DEF Settled
<1>6. vault' = [vault EXCEPT ![g] = vault[g] + m] /\ goal[g].status = "OPEN" /\ UNCHANGED today
  BY <1>4 DEF Settled, Open
<1>7. \A r \in References : r.sequence \in Nat
  BY DEF References
<1>8. \A r \in booked'[g] : r.sequence <= n + 1
  <2> SUFFICES ASSUME NEW r \in booked'[g] PROVE r.sequence <= n + 1
    OBVIOUS
  <2> HIDE DEF ref, n
  <2>1. CASE r = ref
    BY <1>1, <1>2, <2>1
  <2>2. CASE r \in booked[g]
    <3>1. r.sequence \in Nat /\ r.sequence <= n
      BY <1>3, <1>7, <2>2
    <3> QED BY <1>1, <3>1
  <2> QED BY <1>3, <1>5, <2>1, <2>2
<1>9. booked' \in [Goals -> SUBSET References] /\ \A h \in Goals \ {g} : booked'[h] = booked[h]
  <2> HIDE DEF ref
  <2> QED BY <1>2, <1>3, <1>5
<1> QED BY <1>6, <1>8, <1>9, GoalValues

(* A goal written with a movement of m.                                    *)
LEMMA GoalMoved ==
  ASSUME GoalsInv, NEW g \in Goals, NEW kind \in Kinds, NEW m \in Int, Settled(g, kind, m),
         goal[g].currentAmount + m \in Nat, NEW new \in GoalFields,
         goal' = [goal EXCEPT ![g] = new],
         new.currentAmount = goal[g].currentAmount + m, new.movementCount = goal[g].movementCount + 1,
         new.status = "OPEN" \/ new.currentAmount = 0,
         saver' \in [Savers -> Passes]
  PROVE  GoalsInv'
<1>1. /\ today' \in Days /\ vault' = [vault EXCEPT ![g] = new.currentAmount]
      /\ booked' \in [Goals -> SUBSET References]
      /\ \A ref \in booked'[g] : ref.sequence <= new.movementCount
      /\ \A h \in Goals \ {g} : booked'[h] = booked[h]
  BY VaultMoves DEF GoalsInv
<1>2. new.currentAmount \in Nat
  BY DEF GoalFields
<1>3. GoalsTypeOK'
  BY <1>1, <1>2 DEF GoalsInv, GoalsTypeOK, GoalFields, Passes
<1>4. \A h \in Goals : /\ goal'[h] = IF h = g THEN new ELSE goal[h]
                       /\ vault'[h] = IF h = g THEN new.currentAmount ELSE vault[h]
  BY <1>1 DEF GoalsInv, GoalsTypeOK
<1>5. VaultExact'
  BY <1>4, GoalValues DEF VaultExact
<1>6. EntriesNumbered'
  BY <1>1, <1>4 DEF EntriesNumbered, GoalsInv
<1> QED BY <1>1, <1>3, <1>5, <1>6 DEF GoalsInv

(* A goal written without one.                                             *)
LEMMA GoalStays ==
  ASSUME GoalsInv, NEW g \in Goals, NEW new \in GoalFields, goal' = [goal EXCEPT ![g] = new],
         new.currentAmount = goal[g].currentAmount, new.movementCount = goal[g].movementCount,
         new.status = "OPEN" \/ new.currentAmount = 0,
         saver' \in [Savers -> Passes], UNCHANGED <<today, vault, booked>>
  PROVE  GoalsInv'
<1>1. GoalsTypeOK'
  BY DEF GoalsInv, GoalsTypeOK, GoalFields, Passes
<1>2. \A h \in Goals : goal'[h] = IF h = g THEN new ELSE goal[h]
  BY DEF GoalsInv, GoalsTypeOK
<1>3. VaultExact'
  BY <1>2, GoalValues DEF VaultExact
<1>4. EntriesNumbered'
  BY <1>2 DEF EntriesNumbered, GoalsInv
<1> QED BY <1>1, <1>3, <1>4 DEF GoalsInv

(* A pass moves on and no goal is written.                                 *)
LEMMA SaversStep ==
  ASSUME GoalsInv, UNCHANGED <<today, goal, vault, booked>>, saver' \in [Savers -> Passes]
  PROVE  GoalsInv'
BY DEF GoalsInv, GoalsTypeOK, VaultExact, EntriesNumbered, Passes

(* The last occurrence up to today.                                        *)
LEMMA LastOccurrence ==
  ASSUME NEW t \in Nat, NEW from \in Nat, from <= t, NEW p \in Nat \ {0}
  PROVE  LET q == (t - from) \div p IN q \in Nat /\ q * p <= t - from /\ q * p \in Nat
<1> DEFINE n == t - from
<1>1. n \in Nat
  OBVIOUS
<1> HIDE DEF n
<1>2. n \div p \in Nat /\ (n \div p) * p <= n /\ (n \div p) * p \in Nat
  <2>1. n \div p \in Nat /\ n % p \in Nat /\ p * (n \div p) + (n % p) = n
    BY <1>1
  <2>2. (n \div p) * p = p * (n \div p) /\ (n \div p) * p \in Nat
    BY <2>1
  <2> QED BY <1>1, <2>1, <2>2
<1> QED BY <1>2 DEF n

(* The values written to a goal are of its type.                           *)
LEMMA GoalWrites ==
  ASSUME GoalsInv, NEW g \in Goals
  PROVE  /\ \A s \in {"OPEN", "CLOSED"} : [goal[g] EXCEPT !.status = s] \in GoalFields
         /\ \A n \in Nat : [goal[g] EXCEPT !.nextRunOn = n] \in GoalFields
         /\ \A c, n \in Nat :
              [goal[g] EXCEPT !.currentAmount = c, !.movementCount = n] \in GoalFields
BY GoalValues DEF GoalFields

(* A credit to the vault, from a contribution or an automatic saving,      *)
(* keeps the vault exact.                                                  *)
LEMMA CreditVaultKeeps ==
  ASSUME GoalsInv, NEW g \in Goals, NEW kind \in Kinds, NEW m \in Contributions,
         CreditVault(g, kind, m), saver' \in [Savers -> Passes]
  PROVE  GoalsInv'
<1> DEFINE c == goal[g].currentAmount + m
           n == goal[g].movementCount + 1
           new == [goal[g] EXCEPT !.currentAmount = c, !.movementCount = n]
<1>1. c \in Nat /\ n \in Nat /\ m \in Int /\ goal[g] \in GoalFields
  BY GoalValues
<1>2. goal' = [goal EXCEPT ![g] = new] /\ Settled(g, kind, m) /\ goal[g].status = "OPEN"
  BY DEF CreditVault, GoalsInv, GoalsTypeOK, Settled, Open
<1>3. new \in GoalFields /\ new.currentAmount = c /\ new.movementCount = n /\ new.status = "OPEN"
  <2> HIDE DEF c, n
  <2> QED BY <1>1, <1>2, GoalWrites DEF GoalFields
<1> HIDE DEF new
<1> QED BY <1>1, <1>2, <1>3, GoalMoved

(* Every action on savings goals keeps the vault exact.                    *)
LEMMA GoalsKept ==
  ASSUME GoalsInv, GoalsNext
  PROVE  GoalsInv'
<1>0. saver \in [Savers -> Passes]
  BY DEF GoalsInv, GoalsTypeOK, Passes
<1>1. ASSUME NEW g \in Goals, Create(g) PROVE GoalsInv'
  <2> DEFINE new == [goal[g] EXCEPT !.status = "OPEN"]
  <2>1. goal' = [goal EXCEPT ![g] = new] /\ UNCHANGED <<today, vault, booked, saver>>
    BY <1>1 DEF Create, account, GoalsInv, GoalsTypeOK
  <2>2. /\ new.status = "OPEN" /\ new.currentAmount = goal[g].currentAmount
        /\ new.movementCount = goal[g].movementCount
    BY GoalValues DEF GoalFields
  <2>3. new \in GoalFields
    BY GoalWrites
  <2> HIDE DEF new
  <2> QED BY <1>0, <2>1, <2>2, <2>3, GoalStays
<1>2. ASSUME NEW g \in Goals, CloseGoal(g) PROVE GoalsInv'
  <2> DEFINE m == goal[g].currentAmount
             n == IF m > 0 THEN goal[g].movementCount + 1 ELSE goal[g].movementCount
             new == goal'[g]
  <2>1. m \in Nat /\ n \in Nat /\ goal[g] \in GoalFields
    BY GoalValues
  <2>2. goal' = [goal EXCEPT ![g] =
                   [status |-> "CLOSED", currentAmount |-> 0, movementCount |-> n,
                    nextRunOn |-> NoSchedule]]
    BY <1>2 DEF CloseGoal
  <2>3. /\ new \in GoalFields /\ new.currentAmount = 0 /\ new.movementCount = n
        /\ goal' = [goal EXCEPT ![g] = new] /\ UNCHANGED saver
    <3>1. new = [status |-> "CLOSED", currentAmount |-> 0, movementCount |-> n,
                 nextRunOn |-> NoSchedule]
      BY <2>2 DEF GoalsInv, GoalsTypeOK
    <3>2. UNCHANGED saver
      BY <1>2 DEF CloseGoal
    <3> HIDE DEF n, new
    <3> QED BY <2>1, <2>2, <3>1, <3>2 DEF GoalFields, NoSchedule
  <2>4. CASE m > 0
    <3>1. Settled(g, "WDR", -m)
      BY <1>2, <2>1, <2>4 DEF CloseGoal
    <3>2. /\ -m \in Int /\ "WDR" \in Kinds /\ goal[g].currentAmount + (-m) \in Nat
          /\ new.currentAmount = goal[g].currentAmount + (-m)
          /\ new.movementCount = goal[g].movementCount + 1
      BY <2>1, <2>3, <2>4 DEF Kinds
    <3>3. saver' \in [Savers -> Passes]
      BY <1>0, <2>3
    <3> HIDE DEF m, n, new
    <3> QED BY <2>3, <3>1, <3>2, <3>3, GoalMoved
  <2>5. CASE m = 0
    <3>1. UNCHANGED <<today, vault, booked>>
      BY <1>2, <2>1, <2>5 DEF CloseGoal, account
    <3>2. n = goal[g].movementCount
      BY <2>1, <2>5
    <3> HIDE DEF n, new
    <3> QED BY <1>0, <2>3, <2>5, <3>1, <3>2, GoalStays
  <2> QED BY <2>1, <2>4, <2>5
<1>3. ASSUME NEW g \in Goals, NEW d \in {NoSchedule} \cup Days, SetAutoSave(g, d) PROVE GoalsInv'
  <2> DEFINE new == [goal[g] EXCEPT !.nextRunOn = d]
  <2>1. goal' = [goal EXCEPT ![g] = new] /\ UNCHANGED <<today, vault, booked, saver>>
    BY <1>3 DEF SetAutoSave, account, GoalsInv, GoalsTypeOK
  <2>2. /\ new.status = "OPEN" /\ new.currentAmount = goal[g].currentAmount
        /\ new.movementCount = goal[g].movementCount
    BY <1>3, GoalValues DEF GoalFields, SetAutoSave, Open
  <2>3. new \in GoalFields
    BY GoalWrites, GoalValues DEF NoSchedule
  <2> HIDE DEF new
  <2> QED BY <1>0, <2>1, <2>2, <2>3, GoalStays
<1>4. ASSUME NEW g \in Goals, NEW m \in Contributions, Withdraw(g, m) PROVE GoalsInv'
  <2> DEFINE c == goal[g].currentAmount - m
             n == goal[g].movementCount + 1
             new == [goal[g] EXCEPT !.currentAmount = c, !.movementCount = n]
  <2>1. /\ goal[g] \in GoalFields /\ goal[g].currentAmount \in Nat /\ n \in Nat /\ m \in Nat
    BY GoalValues
  <2>2. /\ m <= goal[g].currentAmount /\ Settled(g, "WDR", -m) /\ UNCHANGED saver
        /\ goal' = [goal EXCEPT ![g] = new] /\ goal[g].status = "OPEN"
    BY <1>4 DEF Withdraw, DebitVault, GoalsInv, GoalsTypeOK, Settled, Open
  <2>3. c \in Nat /\ -m \in Int /\ "WDR" \in Kinds /\ goal[g].currentAmount + (-m) = c
    BY <2>1, <2>2 DEF Kinds
  <2>4. new \in GoalFields /\ new.currentAmount = c /\ new.movementCount = n /\ new.status = "OPEN"
    <3> HIDE DEF c, n
    <3> QED BY <2>1, <2>2, <2>3, GoalWrites DEF GoalFields
  <2> HIDE DEF new, c
  <2> QED BY <1>0, <2>2, <2>3, <2>4, GoalMoved
<1>5. ASSUME NEW g \in Goals, NEW m \in Contributions, Contribute(g, m)
      PROVE  GoalsInv'
  BY <1>0, <1>5, CreditVaultKeeps DEF Contribute, Kinds
<1>6. ASSUME NEW w \in Savers, Reschedule(w) PROVE GoalsInv'
  <2> DEFINE g == saver[w].goal
             n == saver[w].lastRun + SavePeriod
             new == [goal[g] EXCEPT !.nextRunOn = n]
  <2>1. g \in Goals /\ n \in Nat
    BY GoalValues
  <2>2. /\ saver' = [saver EXCEPT ![w] = NoPass] /\ UNCHANGED <<today, vault, booked>>
        /\ UNCHANGED goal \/ goal' = [goal EXCEPT ![g] = new]
    BY <1>6, <2>1 DEF Reschedule, account, GoalsInv, GoalsTypeOK
  <2>3. saver' \in [Savers -> Passes]
    BY <1>0, <2>2, GoalValues
  <2>4. CASE UNCHANGED goal
    BY <2>2, <2>3, <2>4, SaversStep
  <2>5. CASE goal' = [goal EXCEPT ![g] = new]
    <3>1. new \in GoalFields
      BY <2>1, GoalWrites
    <3>2. /\ goal[g] \in GoalFields
          /\ goal[g].status = "OPEN" \/ goal[g].currentAmount = 0
      BY <2>1, GoalValues
    <3>3. /\ new.currentAmount = goal[g].currentAmount
          /\ new.movementCount = goal[g].movementCount
          /\ new.status = "OPEN" \/ new.currentAmount = 0
      BY <2>1, GoalValues DEF GoalFields
    <3> HIDE DEF new, g
    <3> QED BY <2>1, <2>2, <2>3, <2>5, <3>1, <3>3, GoalStays
  <2> QED BY <2>2, <2>4, <2>5
<1>7. ASSUME NEW w \in Savers, AbandonSaving(w) PROVE GoalsInv'
  <2>1. saver' = [saver EXCEPT ![w] = NoPass] /\ UNCHANGED <<today, goal, vault, booked>>
    BY <1>7 DEF AbandonSaving, account
  <2>2. saver' \in [Savers -> Passes]
    BY <1>0, <2>1, GoalValues
  <2> QED BY <2>1, <2>2, SaversStep
<1>8. ASSUME NEW w \in Savers, NEW m \in Contributions, SaveOne(w, m) PROVE GoalsInv'
  <2> DEFINE g == saver[w].goal
             next == [saver[w] EXCEPT !.left = @ - 1, !.nextRunOn = goal[g].nextRunOn]
  <2>1. /\ g \in Goals /\ saver[w] \in Passes /\ saver[w].left \in Nat /\ saver[w].left > 0
        /\ goal[g].nextRunOn \in Nat /\ "AUTO" \in Kinds
    BY <1>8, GoalValues DEF SaveOne, Kinds
  <2>2. next \in Passes
    <3>1. saver[w].left - 1 \in Nat
      BY <2>1
    <3> HIDE DEF g
    <3> QED BY <2>1, <3>1 DEF Passes
  <2>3. saver' = [saver EXCEPT ![w] = next]
    BY <1>0, <1>8 DEF SaveOne
  <2>4. saver' \in [Savers -> Passes]
    <3> HIDE DEF next
    <3> QED BY <1>0, <2>2, <2>3
  <2>5. CreditVault(g, "AUTO", m)
    BY <1>8 DEF SaveOne
  <2> HIDE DEF g
  <2> QED BY <2>1, <2>4, <2>5, CreditVaultKeeps
<1>9. ASSUME NEW w \in Savers, NEW g \in Goals, StartSaving(w, g) PROVE GoalsInv'
  <2> DEFINE from == goal[g].nextRunOn
             q == (today - from) \div SavePeriod
             last == from + (DueRuns(from) - 1) * SavePeriod
             new == [at |-> "saving", goal |-> g, left |-> DueRuns(from), lastRun |-> last,
                     nextRunOn |-> from]
  <2>1. from \in Nat \ {0} /\ from <= today /\ today \in Days /\ today \in Nat
    BY <1>9, GoalValues DEF StartSaving, NoSchedule, GoalsInv
  <2>2. q \in Nat /\ q * SavePeriod <= today - from /\ q * SavePeriod \in Nat
    <3> HIDE DEF from
    <3> QED BY <2>1, GoalValues, LastOccurrence
  <2>3. DueRuns(from) = 1 + q
    BY DEF DueRuns
  <2>4. DueRuns(from) \in Nat /\ last = from + q * SavePeriod
    <3> HIDE DEF q, from
    <3>1. (1 + q) - 1 = q
      BY <2>2
    <3> QED BY <2>2, <2>3, <3>1
  <2>5. last \in Days
    <3>1. last \in Nat /\ last >= 1 /\ last <= today
      <4> HIDE DEF q, from, last
      <4> QED BY <2>1, <2>2, <2>4
    <3> QED BY <2>1, <3>1, AccountAssumption DEF Days
  <2>6. new \in Passes
    <3> HIDE DEF last, from
    <3> QED BY <2>1, <2>4, <2>5 DEF Passes
  <2>7. saver' = [saver EXCEPT ![w] = new] /\ UNCHANGED <<today, goal, vault, booked>>
    BY <1>9 DEF StartSaving, account
  <2>8. saver' \in [Savers -> Passes]
    <3> HIDE DEF new
    <3> QED BY <1>0, <2>6, <2>7
  <2> QED BY <2>7, <2>8, SaversStep
<1> QED BY <1>1, <1>2, <1>3, <1>4, <1>5, <1>6, <1>7, <1>8, <1>9 DEF GoalsNext

(* The invariant of the savings goals holds of every behaviour.            *)
LEMMA GoalsInvariant == Spec => []GoalsInv
<1>1. Init => GoalsInv
  <2> SUFFICES ASSUME Init PROVE GoalsInv
    OBVIOUS
  <2>1. today \in Days /\ 1 \in Days
    BY AccountAssumption DEF Init, AccountInit, Days
  <2>2. (CHOOSE g \in Goals : TRUE) \in Goals
    BY GoalAssumption
  <2>3. GoalsTypeOK
    BY <2>1, <2>2 DEF Init, GoalsInit, GoalsTypeOK, NoGoal, NoPass, NoSchedule
  <2>4. VaultExact /\ EntriesNumbered
    BY DEF Init, GoalsInit, VaultExact, EntriesNumbered, NoGoal
  <2> QED BY <2>1, <2>3, <2>4 DEF GoalsInv
<1>2. GoalsInv /\ [Next]_vars => GoalsInv'
  <2> SUFFICES ASSUME GoalsInv, [Next]_vars PROVE GoalsInv'
    OBVIOUS
  <2>1. today' \in Days
    BY ClockTurns DEF GoalsInv
  <2>2. CASE GoalsNext
    BY <2>2, GoalsKept
  <2>3. CASE UNCHANGED goals
    BY <2>1, <2>3 DEF GoalsInv, goals, GoalsTypeOK, VaultExact, EntriesNumbered
  <2> QED BY <2>2, <2>3, GoalsAlone
<1> QED BY <1>1, <1>2, PTL DEF Spec

(* A goal shows what the journal holds for it, and holds nothing once it   *)
(* is closed, for any number of goals, passes and contributions that       *)
(* overlap.                                                                *)
THEOREM GoalsVaultExact == Spec => []VaultExact
<1>1. GoalsInv => VaultExact
  BY DEF GoalsInv
<1> QED BY <1>1, GoalsInvariant, PTL

-----------------------------------------------------------------------------
(* Mandates.                                                               *)

(* Only the mandates' own actions write their variables.                   *)
LEMMA MandatesAlone ==
  ASSUME [Next]_vars
  PROVE  MandatesNext \/ UNCHANGED mandates
BY DEF Next, vars, MandateStep, RequestStep, GoalStep, DisputeStep, DepositStep, AuditStep, FeeStep,
   InterestStep, OtherStep, ForAll

(* A set of naturals has a least element, and only one.                    *)
LEMMA LeastExists ==
  ASSUME NEW S, S \subseteq Nat, S # {}
  PROVE  \E i \in S : \A j \in S : i <= j
<1>1. PICK i \in S : \A j \in S : ~(<<j, i>> \in OpToRel(<, Nat))
  BY NatLessThanWellFounded, WFMin
<1>2. ASSUME NEW j \in S, j < i PROVE FALSE
  <2>1. <<j, i>> \in OpToRel(<, Nat)
    BY <1>2 DEF OpToRel
  <2> QED BY <1>1, <2>1
<1> QED BY <1>2

(* The least element, named.                                               *)
LEMMA LeastIs ==
  ASSUME NEW S, S \subseteq Nat, NEW i \in S, \A j \in S : i <= j
  PROVE  (CHOOSE k \in S : \A j \in S : k <= j) = i
<1>1. ASSUME NEW k \in S, \A j \in S : k <= j PROVE k = i
  BY <1>1
<1> QED BY <1>1

(* Something was debited on a day exactly when a row says so; and whoever  *)
(* collects has an amount, whoever refunds a row and the amount debited.   *)
CollectorsRead ==
  /\ \A m \in MandateIds, d \in Days : debited[m][d] # Unposted <=> Rows(m, d) # {}
  /\ \A w \in Collectors :
       /\ Busy(w, "collecting") => collector[w].amount # 0
       /\ Busy(w, "refunding") =>
            /\ Rows(collector[w].mandate, collector[w].day) # {}
            /\ collector[w].amount = debited[collector[w].mandate][collector[w].day]

(* The invariant.                                                          *)
MandatesInv == today \in Days /\ MandatesTypeOK /\ GuaranteeOnce /\ CollectorsRead

(* The types of a mandate and of the work under way on one.                *)
Documents == [status : MandateStatus, nextExpectedAt : Nat, collections : Seq(Collection)]
Work      == [doing : Doing, mandate : MandateIds, amount : Nat, day : Days]

(* What the type of the mandates says of single documents and collectors.  *)
LEMMA MandateValues ==
  ASSUME MandatesTypeOK, today \in Days
  PROVE  /\ today \in Nat \ {0} /\ Days \subseteq Nat \ {0}
         /\ \A m \in MandateIds :
              /\ mandate[m] \in Documents /\ mandate[m].collections \in Seq(Collection)
              /\ mandate[m].nextExpectedAt \in Nat /\ mandate[m].status \in MandateStatus
              /\ Frequency[m] \in Nat /\ FixedAmount[m] \in Nat
              /\ \A d \in Days : /\ debited[m][d] \in Nat /\ settled[m][d] \in Nat
                                 /\ refunded[m][d] \in Nat
         /\ \A w \in Collectors :
              /\ collector[w] \in Work /\ collector[w].mandate \in MandateIds
              /\ collector[w].amount \in Nat /\ collector[w].day \in Days
              /\ Idle(w) \in Work /\ Idle(w).doing = "nothing"
         /\ Notice \in Nat /\ Asks \subseteq Nat \ {0}
<1>1. Days \subseteq Nat \ {0} /\ today \in Nat \ {0} /\ 1 \in Days
  BY AccountAssumption DEF Days
<1>2. (CHOOSE m \in MandateIds : TRUE) \in MandateIds
  BY MandateAssumption
<1>3. \A w \in Collectors : Idle(w) \in Work /\ Idle(w).doing = "nothing"
  BY <1>1, <1>2 DEF Idle, Work, Doing
<1>4. (\A m \in MandateIds : mandate[m] \in Documents) /\ (\A w \in Collectors : collector[w] \in Work)
  BY DEF MandatesTypeOK, Documents, Work
<1>5. \A x \in Documents : /\ x.collections \in Seq(Collection) /\ x.nextExpectedAt \in Nat
                           /\ x.status \in MandateStatus
  BY DEF Documents
<1>6. \A x \in Work : x.mandate \in MandateIds /\ x.amount \in Nat /\ x.day \in Days
  BY DEF Work
<1>7. \A m \in MandateIds, d \in Days :
        debited[m][d] \in Nat /\ settled[m][d] \in Nat /\ refunded[m][d] \in Nat
  BY DEF MandatesTypeOK
<1>8. /\ \A m \in MandateIds : Frequency[m] \in Nat /\ FixedAmount[m] \in Nat
      /\ Notice \in Nat /\ Asks \subseteq Nat \ {0}
  BY MandateAssumption
<1> QED BY <1>1, <1>3, <1>4, <1>5, <1>6, <1>7, <1>8

(* The rows of a mandate are collections, and the first of a day is one of *)
(* that day.                                                               *)
LEMMA RowsType ==
  ASSUME MandatesTypeOK, NEW m \in MandateIds
  PROVE  /\ \A i \in DOMAIN mandate[m].collections :
              /\ mandate[m].collections[i] \in Collection /\ i \in Nat \ {0}
              /\ mandate[m].collections[i].amount \in Nat \ {0}
         /\ DOMAIN mandate[m].collections = 1..Len(mandate[m].collections)
         /\ Len(mandate[m].collections) \in Nat
         /\ \A d : /\ Rows(m, d) \subseteq Nat
                   /\ Rows(m, d) # {} =>
                        /\ FirstRow(m, d) \in Rows(m, d)
                        /\ \A j \in Rows(m, d) : FirstRow(m, d) <= j
<1>1. mandate[m].collections \in Seq(Collection)
  BY DEF MandatesTypeOK
<1>2. /\ \A i \in DOMAIN mandate[m].collections :
           mandate[m].collections[i] \in Collection /\ i \in Nat \ {0}
      /\ DOMAIN mandate[m].collections = 1..Len(mandate[m].collections)
      /\ Len(mandate[m].collections) \in Nat
  BY <1>1
<1>3. \A d : Rows(m, d) \subseteq Nat
  BY <1>2 DEF Rows
<1>4. \A d : Rows(m, d) # {} => \E i \in Rows(m, d) : \A j \in Rows(m, d) : i <= j
  BY <1>3, LeastExists
<1>5. \A x \in Collection : x.amount \in Nat \ {0}
  BY DEF Collection
<1> QED BY <1>2, <1>3, <1>4, <1>5 DEF FirstRow

(* What the guarantee says hangs on the rows and the entries alone.        *)
LEMMA RowsStay ==
  ASSUME GuaranteeOnce, UNCHANGED <<debited, settled, refunded>>,
         \A m \in MandateIds : mandate'[m].collections = mandate[m].collections
  PROVE  /\ GuaranteeOnce'
         /\ \A m \in MandateIds, d \in Days : Rows(m, d)' = Rows(m, d)
<1>1. \A m \in MandateIds, d \in Days : Rows(m, d)' = Rows(m, d)
  BY DEF Rows
<1>2. \A m \in MandateIds, d \in Days : FirstRow(m, d)' = FirstRow(m, d)
  BY <1>1 DEF FirstRow
<1> QED BY <1>1, <1>2 DEF GuaranteeOnce

(* A new document with the old rows.                                       *)
LEMMA DocumentWritten ==
  ASSUME MandatesInv, NEW m \in MandateIds, NEW new \in Documents,
         mandate' = [mandate EXCEPT ![m] = new], new.collections = mandate[m].collections,
         UNCHANGED <<today, debited, settled, refunded, collector>>
  PROVE  MandatesInv'
<1>1. \A q \in MandateIds : mandate'[q].collections = mandate[q].collections
  BY DEF MandatesInv, MandatesTypeOK
<1>2. MandatesTypeOK'
  BY DEF MandatesInv, MandatesTypeOK, Documents
<1>3. GuaranteeOnce' /\ \A q \in MandateIds, d \in Days : Rows(q, d)' = Rows(q, d)
  BY <1>1, RowsStay DEF MandatesInv
<1>4. \A w \in Collectors : collector[w].mandate \in MandateIds /\ collector[w].day \in Days
  BY MandateValues DEF MandatesInv
<1>5. CollectorsRead'
  BY <1>3, <1>4 DEF CollectorsRead, MandatesInv, Busy
<1> QED BY <1>2, <1>3, <1>5 DEF MandatesInv

(* A new piece of work, on the same books.                                 *)
LEMMA WorkTaken ==
  ASSUME MandatesInv, NEW w \in Collectors, NEW new \in Work, collector' = [collector EXCEPT ![w] = new],
         new.doing = "collecting" => new.amount # 0,
         new.doing = "refunding" => /\ Rows(new.mandate, new.day) # {}
                                    /\ new.amount = debited[new.mandate][new.day],
         UNCHANGED <<today, mandate, debited, settled, refunded>>
  PROVE  MandatesInv'
<1>1. MandatesTypeOK'
  BY DEF MandatesInv, MandatesTypeOK, Work
<1>2. GuaranteeOnce' /\ \A q \in MandateIds, d \in Days : Rows(q, d)' = Rows(q, d)
  BY RowsStay DEF MandatesInv
<1>3. \A v \in Collectors : collector'[v] = IF v = w THEN new ELSE collector[v]
  BY DEF MandatesInv, MandatesTypeOK
<1>4. \A v \in Collectors : collector'[v].mandate \in MandateIds /\ collector'[v].day \in Days
  BY <1>1 DEF MandatesTypeOK
<1>5. CollectorsRead'
  BY <1>2, <1>3, <1>4 DEF CollectorsRead, MandatesInv, Busy
<1> QED BY <1>1, <1>2, <1>5 DEF MandatesInv

(* The rows of a day in any list of rows, and the least of a set.          *)
RowsOf(rows, d) == {i \in DOMAIN rows : rows[i].day = d}
Least(S) == CHOOSE i \in S : \A j \in S : i <= j

(* More is rows, of which there are n, and a row of day t.                 *)
OneMore(rows, n, more, row, t) ==
  /\ \A i \in 1..n : more[i] = rows[i]
  /\ more[n + 1] = row
  /\ \A d : RowsOf(rows, d) \subseteq 1..n
  /\ \A d : d # t => RowsOf(more, d) = RowsOf(rows, d)
  /\ RowsOf(more, t) = RowsOf(rows, t) \cup {n + 1}
  /\ RowsOf(rows, t) # {} => Least(RowsOf(more, t)) = Least(RowsOf(rows, t))
  /\ RowsOf(rows, t) = {} => Least(RowsOf(more, t)) = n + 1

(* Adding a row to the rows is what OneMore says,                          *)
LEMMA RowAdded ==
  ASSUME NEW rows \in Seq(Collection), NEW row \in Collection
  PROVE  OneMore(rows, Len(rows), Append(rows, row), row, row.day)
<1> DEFINE n == Len(rows)
           more == Append(rows, row)
           t == row.day
<1>1. /\ DOMAIN rows = 1..n /\ DOMAIN more = 1..(n + 1) /\ more[n + 1] = row
      /\ n \in Nat /\ \A i \in 1..n : more[i] = rows[i]
  OBVIOUS
<1> HIDE DEF n, more, t
<1>2. 1..(n + 1) = (1..n) \cup {n + 1} /\ n + 1 \notin 1..n /\ 1..n \subseteq Nat
  BY <1>1
<1>3. \A d : /\ \A i : i \in RowsOf(rows, d) <=> i \in 1..n /\ rows[i].day = d
            /\ \A i : i \in RowsOf(more, d) <=> i \in 1..(n + 1) /\ more[i].day = d
  BY <1>1 DEF RowsOf
<1>4. ASSUME NEW d, d # t PROVE RowsOf(more, d) = RowsOf(rows, d)
  <2>1. \A i : i \in RowsOf(more, d) <=> i \in RowsOf(rows, d)
    BY <1>1, <1>2, <1>3, <1>4 DEF t
  <2> QED BY <2>1
<1>5. RowsOf(more, t) = RowsOf(rows, t) \cup {n + 1}
  <2>1. \A i : i \in RowsOf(more, t) <=> i \in RowsOf(rows, t) \/ i = n + 1
    BY <1>1, <1>2, <1>3 DEF t
  <2> QED BY <2>1
<1>6. \A d : RowsOf(rows, d) \subseteq 1..n
  BY <1>3
<1>7. ASSUME RowsOf(rows, t) # {} PROVE Least(RowsOf(more, t)) = Least(RowsOf(rows, t))
  <2>1. RowsOf(rows, t) \subseteq Nat
    BY <1>2, <1>6
  <2>2. PICK i \in RowsOf(rows, t) : \A j \in RowsOf(rows, t) : i <= j
    BY <1>7, <2>1, LeastExists
  <2>3. /\ i \in 1..n /\ RowsOf(more, t) \subseteq Nat /\ i \in RowsOf(more, t)
        /\ \A j \in RowsOf(more, t) : i <= j
    BY <1>1, <1>5, <1>6, <2>1, <2>2
  <2>4. Least(RowsOf(rows, t)) = i
    BY <2>1, <2>2, LeastIs DEF Least
  <2>5. Least(RowsOf(more, t)) = i
    BY <2>3, LeastIs DEF Least
  <2> QED BY <2>4, <2>5
<1>8. ASSUME RowsOf(rows, t) = {} PROVE Least(RowsOf(more, t)) = n + 1
  <2>1. /\ RowsOf(more, t) \subseteq Nat /\ n + 1 \in RowsOf(more, t)
        /\ \A j \in RowsOf(more, t) : n + 1 <= j
    BY <1>1, <1>5, <1>8
  <2> QED BY <2>1, LeastIs DEF Least
<1> QED BY <1>1, <1>4, <1>5, <1>6, <1>7, <1>8 DEF n, more, t, OneMore

(* More is rows with the mark on row i: its day and its amount stay.       *)
Marked(rows, i, more) ==
  /\ more \in Seq(Collection)
  /\ \A d : RowsOf(more, d) = RowsOf(rows, d)
  /\ \A j \in DOMAIN rows : /\ more[j].amount = rows[j].amount
                            /\ more[j].refunded <=> j = i \/ rows[j].refunded

(* and marking one is what Marked says.                                    *)
LEMMA RowMarked ==
  ASSUME NEW rows \in Seq(Collection), NEW i \in DOMAIN rows
  PROVE  Marked(rows, i, [rows EXCEPT ![i].refunded = TRUE])
<1> DEFINE more == [rows EXCEPT ![i].refunded = TRUE]
<1>1. /\ DOMAIN rows = 1..Len(rows) /\ Len(rows) \in Nat
      /\ \A j \in DOMAIN rows : rows[j] \in Collection
  OBVIOUS
<1>2. /\ DOMAIN more = DOMAIN rows
      /\ \A j \in DOMAIN rows : more[j] = IF j = i THEN [rows[i] EXCEPT !.refunded = TRUE] ELSE rows[j]
  BY <1>1
<1>3. \A c \in Collection : /\ [c EXCEPT !.refunded = TRUE] \in Collection
                            /\ [c EXCEPT !.refunded = TRUE].day = c.day
                            /\ [c EXCEPT !.refunded = TRUE].amount = c.amount
                            /\ [c EXCEPT !.refunded = TRUE].refunded = TRUE
  BY DEF Collection
<1>4. more = [j \in DOMAIN rows |-> more[j]]
  BY <1>1
<1> HIDE DEF more
<1>5. more \in Seq(Collection)
  <2>1. \A j \in DOMAIN rows : more[j] \in Collection
    BY <1>1, <1>2, <1>3
  <2>2. more \in [1..Len(rows) -> Collection]
    BY <1>1, <1>4, <2>1
  <2> QED BY <1>1, <2>2
<1>6. \A j \in DOMAIN rows : /\ more[j].day = rows[j].day /\ more[j].amount = rows[j].amount
                             /\ more[j].refunded <=> j = i \/ rows[j].refunded
  BY <1>1, <1>2, <1>3
<1>7. \A d : RowsOf(more, d) = RowsOf(rows, d)
  BY <1>2, <1>6 DEF RowsOf
<1> QED BY <1>5, <1>6, <1>7 DEF more, Marked

(* A collection, of whichever attempt of the day, keeps the guarantee.     *)
LEMMA CollectKeeps ==
  ASSUME MandatesInv, NEW w \in Collectors, Collect(w),
         NEW m \in MandateIds, m = collector[w].mandate,
         NEW x \in Nat, x = collector[w].amount, NEW t \in Days, t = today
  PROVE  MandatesInv'
<1> DEFINE row == [day |-> t, amount |-> x, refunded |-> FALSE]
           rows == mandate[m].collections
           n == Len(rows)
           old == debited[m][t]
           amount == IF old = 0 THEN x ELSE old
           next == IF Frequency[m] = 0 THEN Never ELSE t + Frequency[m]
<1> USE DEF MandatesInv
<1>1. /\ x # 0 /\ rows \in Seq(Collection) /\ row \in Collection /\ t \in Nat
      /\ n \in Nat /\ old \in Nat
  <2>1. x # 0
    BY DEF Collect, CollectorsRead
  <2>2. rows \in Seq(Collection) /\ t \in Nat /\ old \in Nat
    BY MandateValues
  <2>3. row \in Collection
    BY <2>1 DEF Collection
  <2>4. n \in Nat
    BY <2>2
  <2> QED BY <2>1, <2>2, <2>3, <2>4
<1>2. /\ debited' = [debited EXCEPT ![m][t] = amount]
      /\ settled' = [settled EXCEPT ![m][t] = amount]
      /\ UNCHANGED <<today, refunded>>
      /\ collector' = [collector EXCEPT ![w] = Idle(w)]
  <2>1. settled[m][t] = old
    BY DEF GuaranteeOnce
  <2> QED BY <2>1 DEF Collect, Taken, Posting, Unposted
<1>3. /\ amount \in Nat /\ amount # 0
      /\ old # 0 => amount = old
      /\ old = 0 => amount = x
  BY <1>1
<1>4. next \in Nat
  <2>1. Frequency[m] \in Nat
    BY MandateValues
  <2> QED BY <1>1, <2>1 DEF Never
<1>5. mandate' = [mandate EXCEPT ![m].collections = Append(rows, row), ![m].nextExpectedAt = next]
  BY DEF Collect
<1>6. /\ mandate'[m].collections = Append(rows, row)
      /\ \A q \in MandateIds \ {m} : mandate'[q] = mandate[q]
      /\ mandate' \in [MandateIds -> Documents]
  <2>1. Append(rows, row) \in Seq(Collection)
    BY <1>1
  <2>2. mandate' = [q \in MandateIds |-> IF q = m THEN mandate'[m] ELSE mandate[q]]
    <3> HIDE DEF row, next
    <3> QED BY <1>5 DEF MandatesTypeOK
  <2>3. mandate'[m] = [status |-> mandate[m].status, nextExpectedAt |-> next,
                       collections |-> Append(rows, row)]
    <3>1. mandate[m] \in Documents
      BY MandateValues
    <3>2. mandate'[m] = [[mandate[m] EXCEPT !.collections = Append(rows, row)]
                           EXCEPT !.nextExpectedAt = next]
      BY <1>5 DEF MandatesTypeOK
    <3> HIDE DEF row, next, rows
    <3> QED BY <3>1, <3>2 DEF Documents
  <2>4. mandate[m].status \in MandateStatus /\ \A q \in MandateIds : mandate[q] \in Documents
    BY MandateValues
  <2>5. mandate'[m] \in Documents
    <3> HIDE DEF row, next, rows
    <3> QED BY <1>4, <2>1, <2>3, <2>4 DEF Documents
  <2>6. mandate'[m].collections = Append(rows, row)
    <3> HIDE DEF row, next, rows
    <3> QED BY <2>3
  <2> HIDE DEF row, rows
  <2> QED BY <2>2, <2>4, <2>5, <2>6
<1>7. /\ \A i \in 1..n : mandate'[m].collections[i] = rows[i]
      /\ mandate'[m].collections[n + 1] = row
      /\ \A d \in Days : Rows(m, d) \subseteq 1..n
      /\ \A d \in Days : d # t => Rows(m, d)' = Rows(m, d)
      /\ Rows(m, t)' = Rows(m, t) \cup {n + 1}
      /\ \A d \in Days : Rows(m, d) # {} => FirstRow(m, d)' = FirstRow(m, d)
      /\ Rows(m, t) = {} => FirstRow(m, t)' = n + 1
  <2> DEFINE more == Append(rows, row)
  <2>1. row.day = t
    OBVIOUS
  <2>2. /\ \A i \in 1..n : more[i] = rows[i]
        /\ more[n + 1] = row
        /\ \A d : RowsOf(rows, d) \subseteq 1..n
        /\ \A d : d # t => RowsOf(more, d) = RowsOf(rows, d)
        /\ RowsOf(more, t) = RowsOf(rows, t) \cup {n + 1}
        /\ RowsOf(rows, t) # {} => Least(RowsOf(more, t)) = Least(RowsOf(rows, t))
        /\ RowsOf(rows, t) = {} => Least(RowsOf(more, t)) = n + 1
    <3>1. OneMore(rows, Len(rows), Append(rows, row), row, row.day)
      <4> HIDE DEF row, rows
      <4> QED BY <1>1, RowAdded
    <3> HIDE DEF row, rows, more, n
    <3>2. OneMore(rows, n, more, row, t)
      BY <2>1, <3>1 DEF n, more
    <3> QED BY <3>2 DEF OneMore
  <2>3. more = mandate'[m].collections
    BY <1>6
  <2>4. \A d \in Days : Rows(m, d) = RowsOf(rows, d) /\ Rows(m, d)' = RowsOf(more, d)
    <3> HIDE DEF more
    <3> QED BY <2>3 DEF Rows, RowsOf
  <2>5. \A d \in Days : FirstRow(m, d) = Least(RowsOf(rows, d)) /\ FirstRow(m, d)' = Least(RowsOf(more, d))
    <3> HIDE DEF more, rows
    <3> QED BY <2>4 DEF FirstRow, Least
  <2> HIDE DEF more, rows, row, n
  <2>6. \A d \in Days : Rows(m, d) # {} => FirstRow(m, d)' = FirstRow(m, d)
    <3>1. ASSUME NEW d \in Days, Rows(m, d) # {} PROVE Least(RowsOf(more, d)) = Least(RowsOf(rows, d))
      <4>1. CASE d = t
        BY <2>2, <2>4, <3>1, <4>1
      <4>2. CASE d # t
        BY <2>2, <4>2
      <4> QED BY <4>1, <4>2
    <3> QED BY <2>5, <3>1
  <2>7. /\ \A d \in Days : Rows(m, d) \subseteq 1..n
        /\ \A d \in Days : d # t => Rows(m, d)' = Rows(m, d)
        /\ Rows(m, t)' = Rows(m, t) \cup {n + 1}
        /\ Rows(m, t) = {} => FirstRow(m, t)' = n + 1
    BY <2>2, <2>4, <2>5
  <2> QED BY <2>2, <2>3, <2>6, <2>7
<1>8. \A q \in MandateIds \ {m}, d \in Days :
        Rows(q, d)' = Rows(q, d) /\ FirstRow(q, d)' = FirstRow(q, d)
  <2>1. ASSUME NEW q \in MandateIds \ {m}, NEW d \in Days PROVE Rows(q, d)' = Rows(q, d)
    BY <1>6 DEF Rows
  <2> QED BY <2>1 DEF FirstRow
<1>9. /\ debited' \in [MandateIds -> [Days -> Nat]] /\ settled' \in [MandateIds -> [Days -> Nat]]
      /\ \A q \in MandateIds, d \in Days :
           /\ debited'[q][d] = IF q = m /\ d = t THEN amount ELSE debited[q][d]
           /\ settled'[q][d] = IF q = m /\ d = t THEN amount ELSE settled[q][d]
  <2> HIDE DEF amount
  <2> QED BY <1>2, <1>3 DEF MandatesTypeOK
<1>10. MandatesTypeOK'
  <2>1. collector' \in [Collectors -> Work]
    BY <1>2, MandateValues DEF MandatesTypeOK, Work
  <2> QED BY <1>2, <1>6, <1>9, <2>1 DEF MandatesTypeOK, Documents, Work
<1>11. old = 0 <=> Rows(m, t) = {}
  BY DEF CollectorsRead, Unposted
<1>12. ASSUME NEW q \in MandateIds, NEW d \in Days
       PROVE  /\ settled'[q][d] = debited'[q][d]
              /\ refunded'[q][d] \in {Unposted, debited'[q][d]}
              /\ refunded'[q][d] # Unposted <=>
                   \E i \in Rows(q, d)' : mandate'[q].collections[i].refunded
              /\ Rows(q, d)' # {} =>
                   mandate'[q].collections[FirstRow(q, d)'].amount = debited'[q][d]
  <2>1. /\ settled[q][d] = debited[q][d]
        /\ refunded[q][d] \in {Unposted, debited[q][d]}
        /\ refunded[q][d] # Unposted <=>
             \E i \in Rows(q, d) : mandate[q].collections[i].refunded
        /\ Rows(q, d) # {} => /\ mandate[q].collections[FirstRow(q, d)].amount = debited[q][d]
                              /\ FirstRow(q, d) \in Rows(q, d)
    BY RowsType DEF GuaranteeOnce
  <2>2. settled'[q][d] = debited'[q][d]
    BY <1>9, <2>1
  <2> HIDE DEF row, amount, rows
  <2>a. CASE q # m \/ d # t
    <3>1. debited'[q][d] = debited[q][d] /\ settled'[q][d] = settled[q][d] /\ refunded'[q][d] = refunded[q][d]
      BY <1>2, <1>9, <2>a
    <3>2. Rows(q, d)' = Rows(q, d)
      BY <1>7, <1>8, <2>a
    <3>3. \A i \in Rows(q, d) : mandate'[q].collections[i] = mandate[q].collections[i]
      BY <1>6, <1>7, <1>8 DEF rows
    <3>4. Rows(q, d) # {} => FirstRow(q, d)' = FirstRow(q, d)
      BY <1>7, <1>8
    <3> QED BY <2>1, <3>1, <3>2, <3>3, <3>4
  <2>5. CASE q = m /\ d = t
    <3>1. /\ row.refunded = FALSE /\ row.amount = x
          /\ n + 1 \notin 1..n
      BY <1>1 DEF row
    <3>2. debited'[q][d] = amount /\ refunded'[q][d] = refunded[q][d]
      BY <1>2, <1>9, <2>5
    <3>3. refunded[q][d] \in {Unposted, amount}
      BY <1>3, <2>1, <2>5 DEF Unposted
    <3>4. (\E i \in Rows(q, d)' : mandate'[q].collections[i].refunded)
            <=> \E i \in Rows(q, d) : mandate[q].collections[i].refunded
      BY <1>7, <2>5, <3>1 DEF rows
    <3>5. mandate'[q].collections[FirstRow(q, d)'].amount = amount
      <4>1. CASE old = 0
        <5> HIDE DEF row, amount
        <5> QED BY <1>3, <1>7, <1>11, <2>5, <3>1, <4>1
      <4>2. CASE old # 0
        <5> HIDE DEF row, amount
        <5>1. debited[q][d] = amount /\ Rows(q, d) # {} /\ FirstRow(q, d)' = FirstRow(q, d)
          BY <1>3, <1>7, <1>11, <2>5, <4>2
        <5>2. FirstRow(q, d) \in 1..n /\ mandate[q].collections[FirstRow(q, d)].amount = amount
          BY <1>7, <2>1, <2>5, <5>1
        <5> QED BY <1>7, <2>5, <5>1, <5>2 DEF rows
      <4> QED BY <4>1, <4>2
    <3> HIDE DEF amount
    <3> QED BY <2>1, <2>2, <3>2, <3>3, <3>4, <3>5
  <2> QED BY <2>a, <2>5
<1>13. GuaranteeOnce'
  BY <1>12 DEF GuaranteeOnce
<1>14. ASSUME NEW q \in MandateIds, NEW d \in Days
       PROVE  debited'[q][d] # Unposted <=> Rows(q, d)' # {}
  <2>1. debited[q][d] # Unposted <=> Rows(q, d) # {}
    BY DEF CollectorsRead
  <2>2. CASE q = m /\ d = t
    <3> HIDE DEF amount
    <3> QED BY <1>3, <1>7, <1>9, <2>2 DEF Unposted
  <2>3. CASE q # m \/ d # t
    <3> HIDE DEF amount
    <3> QED BY <1>7, <1>8, <1>9, <2>1, <2>3
  <2> QED BY <2>2, <2>3
<1>15. ASSUME NEW v \in Collectors, collector'[v].doing = "collecting"
       PROVE  collector'[v].amount # 0
  BY <1>2, <1>15, MandateValues DEF MandatesTypeOK, CollectorsRead, Busy
<1>16. ASSUME NEW v \in Collectors, collector'[v].doing = "refunding"
       PROVE  /\ Rows(collector[v].mandate, collector[v].day)' # {}
              /\ collector'[v].amount = debited'[collector'[v].mandate][collector'[v].day]
  <2>1. collector'[v] = collector[v] /\ Busy(v, "refunding")
    BY <1>2, <1>16, MandateValues DEF MandatesTypeOK, Busy
  <2>2. PICK q \in MandateIds, d \in Days : q = collector[v].mandate /\ d = collector[v].day
    BY MandateValues
  <2>3. Rows(q, d) # {} /\ collector[v].amount = debited[q][d] /\ debited[q][d] # 0
    BY <2>1, <2>2 DEF CollectorsRead, Unposted
  <2>4. debited'[q][d] = debited[q][d]
    BY <1>3, <1>9, <2>3
  <2>5. Rows(q, d)' # {}
    BY <1>14, <2>3, <2>4 DEF Unposted
  <2>6. q = collector'[v].mandate /\ d = collector'[v].day
    BY <2>1, <2>2
  <2>7. Rows(collector[v].mandate, collector[v].day)' # {}
    BY <2>5, <2>6 DEF Rows
  <2> QED BY <2>1, <2>3, <2>4, <2>6, <2>7
<1>17. CollectorsRead'
  BY <1>14, <1>15, <1>16 DEF CollectorsRead, Busy
<1> QED BY <1>2, <1>10, <1>13, <1>17

(* So does a refund, that of the first row that answers to its reference   *)
(* included.                                                               *)
LEMMA RefundKeeps ==
  ASSUME MandatesInv, NEW w \in Collectors, Refund(w),
         NEW m \in MandateIds, m = collector[w].mandate,
         NEW t \in Days, t = collector[w].day, NEW x \in Nat, x = collector[w].amount
  PROVE  MandatesInv'
<1> DEFINE rows == mandate[m].collections
           more == mandate'[m].collections
<1> USE DEF MandatesInv
<1>1. /\ x = debited[m][t] /\ x # 0 /\ Rows(m, t) # {} /\ rows \in Seq(Collection)
      /\ refunded[m][t] \in {Unposted, x}
  <2>1. Rows(m, t) # {} /\ x = debited[m][t]
    BY DEF Refund, CollectorsRead
  <2>2. x # 0
    BY <2>1 DEF CollectorsRead, Unposted
  <2>3. rows \in Seq(Collection)
    BY MandateValues
  <2> QED BY <2>1, <2>2, <2>3 DEF GuaranteeOnce
<1>2. /\ refunded' = [refunded EXCEPT ![m][t] = x]
      /\ collector' = [collector EXCEPT ![w] = Idle(w)]
      /\ UNCHANGED <<today, debited, settled>>
  BY <1>1 DEF Refund, Posting, Unposted
<1>3. PICK i \in Rows(m, t) : mandate' = [mandate EXCEPT ![m].collections[i].refunded = TRUE]
  BY DEF Refund
<1>4. i \in DOMAIN rows
  BY <1>3 DEF Rows
<1>5. /\ more = [rows EXCEPT ![i].refunded = TRUE]
      /\ mandate'[m] = [mandate[m] EXCEPT !.collections = more]
      /\ mandate' = [q \in MandateIds |-> IF q = m THEN mandate'[m] ELSE mandate[q]]
  BY <1>3 DEF MandatesTypeOK
<1>6. /\ more \in Seq(Collection)
      /\ \A d : RowsOf(more, d) = RowsOf(rows, d)
      /\ \A j \in DOMAIN rows : /\ more[j].amount = rows[j].amount
                                /\ more[j].refunded <=> j = i \/ rows[j].refunded
  <2>1. Marked(rows, i, more)
    <3> HIDE DEF rows
    <3> QED BY <1>1, <1>4, <1>5, RowMarked
  <2> QED BY <2>1 DEF Marked
<1>7. mandate' \in [MandateIds -> Documents]
  <2>1. mandate'[m] \in Documents
    <3>1. mandate[m] \in Documents
      BY MandateValues
    <3> HIDE DEF rows, more
    <3> QED BY <1>5, <1>6, <3>1 DEF Documents
  <2> QED BY <1>5, <2>1, MandateValues
<1>8. \A q \in MandateIds \ {m} : mandate'[q] = mandate[q]
  BY <1>5
<1>9. \A q \in MandateIds, d \in Days : Rows(q, d)' = Rows(q, d)
  <2>1. \A d \in Days : Rows(m, d) = RowsOf(rows, d) /\ Rows(m, d)' = RowsOf(more, d)
    BY DEF Rows, RowsOf
  <2>2. ASSUME NEW d \in Days PROVE Rows(m, d)' = Rows(m, d)
    <3>1. Rows(m, d) = RowsOf(rows, d) /\ Rows(m, d)' = RowsOf(more, d)
      BY <2>1
    <3>2. RowsOf(rows, d) = RowsOf(more, d)
      <4> HIDE DEF rows, more
      <4> QED BY <1>6
    <3> QED BY <3>1, <3>2
  <2>3. ASSUME NEW q \in MandateIds \ {m}, NEW d \in Days PROVE Rows(q, d)' = Rows(q, d)
    BY <1>8 DEF Rows
  <2> QED BY <2>2, <2>3
<1>10. \A q \in MandateIds, d \in Days : FirstRow(q, d)' = FirstRow(q, d)
  BY <1>9 DEF FirstRow
<1>11. /\ refunded' \in [MandateIds -> [Days -> Nat]]
       /\ \A q \in MandateIds, d \in Days :
            refunded'[q][d] = IF q = m /\ d = t THEN x ELSE refunded[q][d]
  BY <1>2 DEF MandatesTypeOK
<1>12. MandatesTypeOK'
  <2>1. collector' \in [Collectors -> Work]
    BY <1>2, MandateValues DEF MandatesTypeOK, Work
  <2> QED BY <1>2, <1>7, <1>11, <2>1 DEF MandatesTypeOK, Documents, Work
<1>13. ASSUME NEW q \in MandateIds, NEW d \in Days
       PROVE  /\ settled'[q][d] = debited'[q][d]
              /\ refunded'[q][d] \in {Unposted, debited'[q][d]}
              /\ refunded'[q][d] # Unposted <=>
                   \E j \in Rows(q, d)' : mandate'[q].collections[j].refunded
              /\ Rows(q, d)' # {} =>
                   mandate'[q].collections[FirstRow(q, d)'].amount = debited'[q][d]
  <2>1. /\ settled[q][d] = debited[q][d]
        /\ refunded[q][d] \in {Unposted, debited[q][d]}
        /\ refunded[q][d] # Unposted <=>
             \E j \in Rows(q, d) : mandate[q].collections[j].refunded
        /\ Rows(q, d) # {} => /\ mandate[q].collections[FirstRow(q, d)].amount = debited[q][d]
                              /\ FirstRow(q, d) \in Rows(q, d)
    BY RowsType DEF GuaranteeOnce
  <2>2. CASE q # m
    BY <1>2, <1>8, <1>9, <1>10, <1>11, <2>1, <2>2
  <2>3. CASE q = m
    <3>1. \A j \in Rows(q, d) : j \in DOMAIN rows
      BY <2>3 DEF Rows
    <3>2. /\ \A j \in Rows(q, d) : mandate'[q].collections[j].amount = mandate[q].collections[j].amount
          /\ \A j \in Rows(q, d) :
               mandate'[q].collections[j].refunded <=> j = i \/ mandate[q].collections[j].refunded
      BY <1>6, <2>3, <3>1
    <3>3. Rows(q, d)' # {} => mandate'[q].collections[FirstRow(q, d)'].amount = debited'[q][d]
      BY <1>2, <1>9, <1>10, <2>1, <3>2
    <3>4. i \in Rows(q, d) <=> d = t
      BY <1>3, <2>3 DEF Rows
    <3>5. CASE d = t
      <4>1. refunded'[q][d] = x /\ debited'[q][d] = x /\ x # Unposted
        BY <1>1, <1>2, <1>11, <2>3, <3>5 DEF Unposted
      <4>2. \E j \in Rows(q, d)' : mandate'[q].collections[j].refunded
        BY <1>9, <3>2, <3>4, <3>5
      <4> QED BY <1>2, <2>1, <3>3, <4>1, <4>2
    <3>6. CASE d # t
      BY <1>2, <1>9, <1>11, <2>1, <3>2, <3>3, <3>4, <3>6
    <3> QED BY <3>5, <3>6
  <2> QED BY <2>2, <2>3
<1>14. GuaranteeOnce'
  BY <1>13 DEF GuaranteeOnce
<1>15. ASSUME NEW v \in Collectors, collector'[v].doing # "nothing" PROVE collector'[v] = collector[v]
  BY <1>2, <1>15, MandateValues DEF MandatesTypeOK
<1>16. \A v \in Collectors : collector'[v].mandate \in MandateIds /\ collector'[v].day \in Days
  BY <1>12, MandateValues DEF MandatesTypeOK
<1>17. CollectorsRead'
  BY <1>2, <1>9, <1>15, <1>16 DEF CollectorsRead, Busy
<1> QED BY <1>2, <1>12, <1>14, <1>17

(* Every action on mandates keeps the guarantee.                           *)
LEMMA MandatesKept ==
  ASSUME MandatesInv, MandatesNext
  PROVE  MandatesInv'
<1>0. MandatesTypeOK /\ today \in Days
  BY DEF MandatesInv
<1>1. ASSUME NEW m \in MandateIds, SetUp(m) PROVE MandatesInv'
  <2> DEFINE new == mandate'[m]
  <2>1. /\ mandate' = [mandate EXCEPT ![m].status = "ACTIVE", ![m].nextExpectedAt = today + Notice]
        /\ UNCHANGED <<today, debited, settled, refunded, collector>>
    BY <1>1 DEF SetUp, account, mandateEntries
  <2>2. /\ new = [status |-> "ACTIVE", nextExpectedAt |-> today + Notice,
                  collections |-> mandate[m].collections]
        /\ mandate' = [mandate EXCEPT ![m] = new]
    BY <1>0, <2>1 DEF MandatesTypeOK
  <2>3. today + Notice \in Nat /\ mandate[m].collections \in Seq(Collection) /\ "ACTIVE" \in MandateStatus
    BY <1>0, MandateValues DEF MandateStatus
  <2> HIDE DEF new
  <2> QED BY <2>1, <2>2, <2>3, DocumentWritten DEF Documents
<1>2. ASSUME NEW m \in MandateIds, NEW s \in MandateStatus, SetStatus(m, s) PROVE MandatesInv'
  <2> DEFINE new == [mandate[m] EXCEPT !.status = s]
  <2>1. /\ mandate' = [mandate EXCEPT ![m] = new]
        /\ UNCHANGED <<today, debited, settled, refunded, collector>>
    BY <1>0, <1>2 DEF SetStatus, account, mandateEntries, MandatesTypeOK
  <2>2. new \in Documents /\ new.collections = mandate[m].collections
    BY <1>0, MandateValues DEF Documents
  <2> HIDE DEF new
  <2> QED BY <2>1, <2>2, DocumentWritten
<1>3. ASSUME NEW w \in Collectors, NEW m \in MandateIds, List(w, m) PROVE MandatesInv'
  <2> DEFINE new == [collector[w] EXCEPT !.doing = "listed", !.mandate = m]
  <2>1. /\ collector' = [collector EXCEPT ![w] = new]
        /\ UNCHANGED <<today, mandate, debited, settled, refunded>>
    BY <1>0, <1>3 DEF List, account, mandateEntries, MandatesTypeOK
  <2>2. new \in Work /\ new.doing = "listed"
    BY <1>0, MandateValues DEF Work, Doing
  <2> HIDE DEF new
  <2> QED BY <2>1, <2>2, WorkTaken
<1>4. ASSUME NEW w \in Collectors, NEW m \in MandateIds, NEW x \in Asks \cup {FixedAmount[m]}, Ask(w, m, x)
      PROVE  MandatesInv'
  <2> DEFINE new == collector'[w]
  <2>1. x \in Nat /\ x # 0
    BY <1>0, <1>4, MandateValues DEF Ask
  <2>2. /\ collector' = [collector EXCEPT ![w].doing = "collecting", ![w].mandate = m, ![w].amount = x]
        /\ UNCHANGED <<today, mandate, debited, settled, refunded>>
    BY <1>4 DEF Ask, account, mandateEntries
  <2>3. /\ collector' = [collector EXCEPT ![w] = new]
        /\ new = [doing |-> "collecting", mandate |-> m, amount |-> x, day |-> collector[w].day]
    BY <1>0, <2>2 DEF MandatesTypeOK
  <2>4. new \in Work /\ new.doing = "collecting" /\ new.amount # 0
    <3> HIDE DEF new
    <3> QED BY <1>0, <2>1, <2>3, MandateValues DEF Work, Doing
  <2> HIDE DEF new
  <2> QED BY <2>2, <2>3, <2>4, WorkTaken
<1>5. ASSUME NEW w \in Collectors, NEW m \in MandateIds, NEW d \in Days, Dispute(w, m, d)
      PROVE  MandatesInv'
  <2> DEFINE x   == mandate[m].collections[FirstRow(m, d)].amount
             new == [doing |-> "refunding", mandate |-> m, day |-> d, amount |-> x]
  <2>1. Rows(m, d) # {} /\ x = debited[m][d] /\ x \in Nat
    BY <1>0, <1>5, MandateValues DEF Dispute, MandatesInv, GuaranteeOnce
  <2>2. /\ collector' = [collector EXCEPT ![w] = new]
        /\ UNCHANGED <<today, mandate, debited, settled, refunded>>
    BY <1>5 DEF Dispute, account, mandateEntries
  <2>3. /\ new \in Work /\ new.doing = "refunding" /\ new.mandate = m /\ new.day = d
        /\ new.amount = debited[m][d]
    <3> HIDE DEF x
    <3> QED BY <2>1 DEF Work, Doing
  <2> HIDE DEF new, x
  <2> QED BY <2>1, <2>2, <2>3, WorkTaken
<1>6. ASSUME NEW w \in Collectors, Collect(w) \/ Refund(w) PROVE MandatesInv'
  <2>1. PICK m \in MandateIds, x \in Nat, d \in Days, t \in Days :
          /\ m = collector[w].mandate /\ x = collector[w].amount /\ d = collector[w].day
          /\ t = today
    BY <1>0, MandateValues
  <2> QED BY <1>6, <2>1, CollectKeeps, RefundKeeps
<1>7. ASSUME NEW w \in Collectors, GiveUp(w) PROVE MandatesInv'
  <2>1. /\ collector' = [collector EXCEPT ![w] = Idle(w)]
        /\ UNCHANGED <<today, mandate, debited, settled, refunded>>
    BY <1>7 DEF GiveUp, account, mandateEntries
  <2>2. Idle(w) \in Work /\ Idle(w).doing = "nothing"
    BY <1>0, MandateValues
  <2> QED BY <2>1, <2>2, WorkTaken
<1> QED BY <1>1, <1>2, <1>3, <1>4, <1>5, <1>6, <1>7 DEF MandatesNext

(* The invariant of the mandates holds of every behaviour.                 *)
LEMMA MandatesInvariant == Spec => []MandatesInv
<1>1. Init => MandatesInv
  <2> SUFFICES ASSUME Init PROVE MandatesInv
    OBVIOUS
  <2>1. today \in Days /\ 1 \in Days
    BY AccountAssumption DEF Init, AccountInit, Days
  <2>2. (CHOOSE m \in MandateIds : TRUE) \in MandateIds
    BY MandateAssumption
  <2>3. \A w \in Collectors : Idle(w) \in Work /\ Idle(w).doing = "nothing"
    BY <2>1, <2>2 DEF Idle, Work, Doing
  <2>4. NoMandate \in Documents /\ NoMandate.collections = <<>>
    BY DEF NoMandate, Documents, MandateStatus, Never
  <2>5. MandatesTypeOK
    BY <2>3, <2>4 DEF Init, MandatesInit, MandatesTypeOK, Documents, Work, Unposted
  <2>6. \A m \in MandateIds, d \in Days : Rows(m, d) = {}
    BY <2>4 DEF Init, MandatesInit, Rows
  <2>7. GuaranteeOnce
    BY <2>6 DEF Init, MandatesInit, GuaranteeOnce, Unposted
  <2>8. CollectorsRead
    BY <2>3, <2>6 DEF Init, MandatesInit, CollectorsRead, Busy
  <2> QED BY <2>1, <2>5, <2>7, <2>8 DEF MandatesInv
<1>2. MandatesInv /\ [Next]_vars => MandatesInv'
  <2> SUFFICES ASSUME MandatesInv, [Next]_vars PROVE MandatesInv'
    OBVIOUS
  <2>1. today' \in Days
    BY ClockTurns DEF MandatesInv
  <2>2. CASE MandatesNext
    BY <2>2, MandatesKept
  <2>3. CASE UNCHANGED mandates
    <3>1. UNCHANGED <<mandate, debited, settled, refunded, collector>>
      BY <2>3 DEF mandates
    <3>2. GuaranteeOnce' /\ \A m \in MandateIds, d \in Days : Rows(m, d)' = Rows(m, d)
      BY <3>1, RowsStay DEF MandatesInv
    <3>3. \A w \in Collectors : collector[w].mandate \in MandateIds /\ collector[w].day \in Days
      BY MandateValues DEF MandatesInv
    <3>4. MandatesTypeOK' /\ CollectorsRead'
      BY <3>1, <3>2, <3>3 DEF MandatesInv, MandatesTypeOK, CollectorsRead, Busy
    <3> QED BY <2>1, <3>2, <3>4 DEF MandatesInv
  <2> QED BY <2>2, <2>3, MandatesAlone
<1> QED BY <1>1, <1>2, PTL DEF Spec

(* What left the account on a day went to the merchant, and the guarantee  *)
(* gives that back once, exactly when a row of the day says so, for any    *)
(* number of collections and refunds that overlap or are sent twice.       *)
THEOREM MandatesGuaranteeOnce == Spec => []GuaranteeOnce
<1>1. MandatesInv => GuaranteeOnce
  BY DEF MandatesInv
<1> QED BY <1>1, MandatesInvariant, PTL

-----------------------------------------------------------------------------
(* Fees.                                                                   *)

(* Only the fees' own actions write their variables.                       *)
LEMMA FeesAlone ==
  ASSUME [Next]_vars
  PROVE  FeesNext \/ UNCHANGED fees
BY DEF Next, vars, MandateStep, RequestStep, GoalStep, DisputeStep, DepositStep, AuditStep, FeeStep,
   InterestStep, OtherStep, ForAll

(* The charges counted in a month, and those that were priced in it and    *)
(* free.                                                                   *)
ChargedIn(m) == {k \in Charges : Charged(k) /\ charge[k].counted = m}
WaivedIn(m)  == {k \in ChargedIn(m) : charge[k].waived /\ charge[k].window = m}

(* The register, charge by charge and month by month.                      *)
Register ==
  /\ \A k \in Charges :
       /\ posted[k] = charge[k].amount
       /\ Charged(k) => /\ charge[k].window <= charge[k].counted
                        /\ charge[k].counted <= Month(charge[k].day)
  /\ \A m \in Months : /\ IsFiniteSet(ChargedIn(m)) /\ counter[m] = Cardinality(ChargedIn(m))
                       /\ Cardinality(WaivedIn(m)) <= FreePerMonth

(* The types of an assessment and of a charge.                             *)
Bills == [at : {"idle", "assessing"} \cup Booking, key : Charges, window : Months,
          free : BOOLEAN, counted : Months, missed : SUBSET Months]
Entries == [amount : Nat, waived : BOOLEAN, window : Months, counted : Months,
            day : {0} \cup Days]

(* The months an assessment has read the clock in are in order; and one    *)
(* that is free is within the allowance of the month that priced it, for   *)
(* as long as it may be counted there.                                     *)
InOrder(x, day) ==
  /\ x.at \in Booking => x.window <= Month(day)
  /\ x.at = "counted" => /\ x.window <= x.counted
                         /\ x.counted <= Month(day)
Allowed(x) ==
  x.free => /\ x.at = "priced" => \/ x.window \in x.missed
                                  \/ counter[x.window] < FreePerMonth
            /\ x.at = "counted" => \/ x.counted # x.window
                                   \/ counter[x.window] < FreePerMonth

(* Two that are counted in a month at the same time would be a conflict.   *)
Apart(x, y) == x.at = "counted" /\ y.at = "counted" => x.counted # y.counted

(* The invariant.                                                          *)
AssessorsFit ==
  /\ \A v \in Assessors : InOrder(assessor[v], today) /\ Allowed(assessor[v])
  /\ \A v \in Assessors : \A w \in Assessors \ {v} : Apart(assessor[v], assessor[w])
FeesInv == today \in Days /\ FeesTypeOK /\ Register /\ AssessorsFit

(* The conditions on the register are the property.                        *)
LEMMA RegisterKept == AllowanceKept <=>
  /\ \A k \in Charges :
       /\ posted[k] = charge[k].amount
       /\ Charged(k) => /\ charge[k].window <= charge[k].counted
                        /\ charge[k].counted <= Month(charge[k].day)
  /\ \A m \in Months : /\ counter[m] = Cardinality(ChargedIn(m))
                       /\ Cardinality(WaivedIn(m)) <= FreePerMonth
<1> DEFINE Within(m, S) ==
             /\ counter[m] = Cardinality(S)
             /\ Cardinality({k \in S : charge[k].waived /\ charge[k].window = m}) <= FreePerMonth
           Entry(k) == /\ posted[k] = charge[k].amount
                       /\ Charged(k) => /\ charge[k].window <= charge[k].counted
                                        /\ charge[k].counted <= Month(charge[k].day)
<1>1. AllowanceKept <=>
        /\ \A k \in Charges : Entry(k)
        /\ \A m \in Months : Within(m, ChargedIn(m))
  BY Zenon DEF AllowanceKept, ChargedIn
<1> QED BY <1>1, Zenon DEF WaivedIn

(* A later day is in the same month or in a later one.                     *)
LEMMA MonthOf ==
  ASSUME NEW d \in Days
  PROVE  /\ Month(d) \in Months /\ Month(d) \in Nat /\ Months \subseteq Nat /\ d \in Nat /\ d # 0
         /\ \A c \in Days : c <= d => Month(c) <= Month(d)
<1>1. /\ d \in Nat \ {0} /\ d <= MaxDay /\ MaxDay \in Nat /\ DaysInMonth \in Nat \ {0}
      /\ Days \subseteq Nat \ {0}
  BY AccountAssumption, FeeAssumption DEF Days
<1>2. ASSUME NEW a \in Nat, NEW b \in Nat, a <= b
      PROVE a \div DaysInMonth \in Nat /\ a \div DaysInMonth <= b \div DaysInMonth
  <2> DEFINE n == DaysInMonth
             p == a \div n
             q == b \div n
  <2>1. n \in Nat \ {0}
    BY <1>1
  <2> HIDE DEF n
  <2>2. \A c \in Nat : /\ c \div n \in Nat /\ n * (c \div n) <= c
                     /\ c < n * (c \div n) + n
    BY <2>1
  <2>3. p \in Nat /\ q \in Nat /\ n * p <= a /\ b < n * q + n
    BY <2>2
  <2> HIDE DEF p, q
  <2>4. \A i, j \in Nat : n * (i + j) = n * i + n * j /\ n * i \in Nat
    BY <2>1
  <2>5. ASSUME q < p PROVE FALSE
    <3>1. PICK s \in Nat : p = (q + 1) + s
      <4>1. p - (q + 1) \in Nat /\ p = (q + 1) + (p - (q + 1))
        BY <2>3, <2>5
      <4> QED BY <4>1
    <3>2. n * p = n * (q + 1) + n * s /\ n * (q + 1) = n * q + n * 1 /\ n * s \in Nat /\ n * q \in Nat
      <4>1. \A c \in Nat : n * c \in Nat
        BY <2>4
      <4>2. q + 1 \in Nat /\ n * (q + 1) = n * q + n * 1
        BY <2>3, <2>4
      <4>3. n * ((q + 1) + s) = n * (q + 1) + n * s
        BY <2>4, <4>2
      <4> QED BY <2>3, <3>1, <4>1, <4>2, <4>3
    <3>3. n * p >= n * q + n
      BY <2>1, <3>2
    <3> QED BY <1>2, <2>1, <2>3, <3>2, <3>3
  <2> QED BY <2>3, <2>5 DEF p, q, n
<1>3. /\ d - 1 \in Nat /\ MaxDay - 1 \in Nat /\ d - 1 <= MaxDay - 1
  BY <1>1
<1>4. Month(d) \in Nat /\ Month(d) <= Month(MaxDay) /\ Month(MaxDay) \in Nat
  BY <1>2, <1>3 DEF Month
<1>5. ASSUME NEW c \in Days, c <= d PROVE Month(c) <= Month(d)
  <2>1. c - 1 \in Nat /\ c - 1 <= d - 1
    BY <1>1, <1>5
  <2> QED BY <1>2, <1>3, <2>1 DEF Month
<1> QED BY <1>1, <1>4, <1>5 DEF Months

(* The months of the calendar are numbered from zero.                      *)
LEMMA FirstMonth == 0 \in Months /\ Months \subseteq Nat
<1>1. MaxDay \in Days /\ Days # {}
  BY AccountAssumption DEF Days
<1>2. Month(MaxDay) \in Nat /\ Months \subseteq Nat
  BY <1>1, MonthOf
<1> DEFINE last == Month(MaxDay)
<1>3. last \in Nat
  BY <1>2
<1> HIDE DEF last
<1>4. 0 \in 0..last
  BY <1>3
<1> QED BY <1>2, <1>4 DEF Months, last

(* What the type of the fees says of single charges and assessments.       *)
LEMMA FeeValues ==
  ASSUME FeesTypeOK
  PROVE  /\ \A v \in Assessors : assessor[v] \in Bills
         /\ NoAssessor \in Bills /\ NoAssessor.at = "idle"
         /\ FreePerMonth \in Nat /\ Months \subseteq Nat
         /\ \A k \in Charges : /\ charge[k] \in Entries /\ posted[k] \in Nat /\ Fee[k] \in Nat \ {0}
         /\ \A m \in Months : counter[m] \in Nat
<1>1. (CHOOSE k \in Charges : TRUE) \in Charges
  BY FeeAssumption
<1>2. 0 \in Months /\ Months \subseteq Nat
  BY FirstMonth
<1>4. NoAssessor \in Bills /\ NoAssessor.at = "idle"
  BY <1>1, <1>2 DEF NoAssessor, Bills
<1>5. \A v \in Assessors : assessor[v] \in Bills
  BY DEF FeesTypeOK, Bills
<1> QED BY <1>2, <1>4, <1>5, FeeAssumption DEF FeesTypeOK, Entries

(* An assessment moves on, and the register stays.                         *)
LEMMA AssessorMoves ==
  ASSUME FeesInv, NEW v \in Assessors, NEW new \in Bills, Becomes(v, new), NothingBooked,
         InOrder(new, today), Allowed(new), \A w \in Assessors \ {v} : Apart(new, assessor[w])
  PROVE  FeesInv'
<1>1. UNCHANGED <<today, charge, posted, counter>>
  BY DEF NothingBooked, account
<1>2. FeesTypeOK'
  BY <1>1 DEF FeesInv, FeesTypeOK, Bills, Becomes
<1>3. Register'
  BY <1>1 DEF FeesInv, Register, ChargedIn, WaivedIn, Charged
<1>4. \A w \in Assessors : assessor'[w] = IF w = v THEN new ELSE assessor[w]
  BY DEF FeesInv, FeesTypeOK, Becomes
<1>5. /\ \A w \in Assessors : InOrder(assessor[w], today) /\ Allowed(assessor[w])
      /\ \A x \in Assessors : \A w \in Assessors \ {x} : Apart(assessor[x], assessor[w])
  BY DEF FeesInv, AssessorsFit
<1>6. \A w \in Assessors : InOrder(assessor'[w], today) /\ Allowed(assessor'[w])
  BY <1>4, <1>5
<1>7. \A x \in Assessors : \A w \in Assessors \ {x} : Apart(assessor'[x], assessor'[w])
  BY <1>4, <1>5 DEF Apart
<1>8. AssessorsFit'
  BY <1>1, <1>6, <1>7 DEF AssessorsFit, InOrder, Allowed, Apart
<1> QED BY <1>1, <1>2, <1>3, <1>8 DEF FeesInv

(* A charge is in the register, in the journal and in the counter of its   *)
(* month at once; a free one is within the allowance if that month priced  *)
(* it; and no other assessment trusts the counter any more.                *)
LEMMA ChargeKeeps ==
  ASSUME FeesInv, NEW v \in Assessors, Charge(v), NEW k \in Charges, k = assessor[v].key,
         NEW t \in Days, t = today, NEW n \in Months, n = assessor[v].counted,
         NEW p \in Months, p = assessor[v].window,
         NEW free \in BOOLEAN, free = assessor[v].free
  PROVE  FeesInv'
<1> DEFINE fee == IF free THEN 0 ELSE Fee[k]
           new == [amount |-> fee, waived |-> free, window |-> p, counted |-> n, day |-> t]
<1> USE DEF FeesInv
<1>1. /\ ~Charged(k) /\ posted[k] = 0 /\ charge[k] = NoCharge /\ t \in Nat /\ t # 0
      /\ fee \in Nat /\ assessor[v].at = "counted"
  <2>1. ~Charged(k) /\ assessor[v].at = "counted" /\ charge[k] = NoCharge
    BY DEF Charge, Charged
  <2>2. posted[k] = 0
    BY <2>1 DEF Register, NoCharge
  <2>3. fee \in Nat
    BY FeeValues
  <2> QED BY <2>1, <2>2, <2>3, MonthOf
<1>2. /\ posted' = [posted EXCEPT ![k] = fee]
      /\ charge' = [charge EXCEPT ![k] = new]
      /\ counter' = [counter EXCEPT ![n] = @ + 1]
      /\ assessor' = [w \in Assessors |-> IF w = v THEN NoAssessor ELSE Misses(w, n)]
      /\ UNCHANGED today
  BY <1>1 DEF Charge, Posting, Unposted
<1>3. /\ new \in Entries /\ new # NoCharge /\ new.amount = fee /\ new.waived = free
      /\ new.window = p /\ new.counted = n /\ new.day = t
  <2>1. new.day = t /\ NoCharge.day = 0
    BY DEF NoCharge
  <2> QED BY <1>1, <2>1 DEF Entries
<1> HIDE DEF new, fee
<1>4. \A j \in Charges : /\ charge'[j] = IF j = k THEN new ELSE charge[j]
                         /\ posted'[j] = IF j = k THEN fee ELSE posted[j]
  BY <1>2 DEF FeesTypeOK
<1>5. \A m \in Months : counter'[m] = IF m = n THEN counter[n] + 1 ELSE counter[m]
  BY <1>2 DEF FeesTypeOK
<1>6. \A w \in Assessors : /\ assessor'[w] \in Bills
                           /\ w = v => assessor'[w].at = "idle"
                           /\ w # v /\ assessor[w].at # "priced" => assessor'[w] = assessor[w]
                           /\ w # v /\ assessor[w].at = "priced" =>
                                /\ assessor'[w].at = "priced"
                                /\ assessor'[w].window = assessor[w].window
                                /\ assessor'[w].free = assessor[w].free
                                /\ assessor'[w].missed = assessor[w].missed \cup {n}
  <2> SUFFICES ASSUME NEW w \in Assessors, w # v
               PROVE  /\ Misses(w, n) \in Bills
                      /\ assessor[w].at # "priced" => Misses(w, n) = assessor[w]
                      /\ assessor[w].at = "priced" =>
                           /\ Misses(w, n).at = "priced"
                           /\ Misses(w, n).window = assessor[w].window
                           /\ Misses(w, n).free = assessor[w].free
                           /\ Misses(w, n).missed = assessor[w].missed \cup {n}
    BY <1>2, FeeValues
  <2>1. assessor[w] \in Bills
    BY FeeValues
  <2> DEFINE x == assessor[w]
  <2>2. Misses(w, n) = [x EXCEPT !.missed = IF x.at = "priced" THEN x.missed \cup {n} ELSE x.missed]
    BY <2>1 DEF Misses, Bills
  <2>3. x \in Bills
    BY <2>1
  <2> HIDE DEF x
  <2>4. CASE x.at = "priced"
    BY <2>2, <2>3, <2>4 DEF Bills, x
  <2>5. CASE x.at # "priced"
    BY <2>2, <2>3, <2>5 DEF Bills, x
  <2> QED BY <2>4, <2>5
<1>7. FeesTypeOK'
  <2>1. assessor' \in [Assessors -> Bills]
    BY <1>2, <1>6
  <2>2. counter' \in [Months -> Nat]
    <3>1. counter[n] + 1 \in Nat
      BY FeeValues
    <3> QED BY <1>2, <3>1 DEF FeesTypeOK
  <2>3. charge' \in [Charges -> Entries] /\ posted' \in [Charges -> Nat]
    BY <1>1, <1>2, <1>3 DEF FeesTypeOK, Entries
  <2> QED BY <2>1, <2>2, <2>3 DEF FeesTypeOK, Bills, Entries
<1>8. \A m \in Months \ {n} : ChargedIn(m)' = ChargedIn(m)
  <2> SUFFICES ASSUME NEW m \in Months \ {n} PROVE ChargedIn(m)' = ChargedIn(m)
    OBVIOUS
  <2>1. \A j : j \in ChargedIn(m)' <=> j \in ChargedIn(m)
    BY <1>1, <1>3, <1>4 DEF ChargedIn, Charged
  <2> HIDE DEF ChargedIn
  <2> QED BY <2>1
<1>9. ChargedIn(n)' = ChargedIn(n) \cup {k} /\ k \notin ChargedIn(n)
  <2>1. \A j : j \in ChargedIn(n)' <=> j \in ChargedIn(n) \/ j = k
    BY <1>1, <1>3, <1>4 DEF ChargedIn, Charged
  <2>2. k \notin ChargedIn(n)
    BY <1>1 DEF ChargedIn
  <2> HIDE DEF ChargedIn
  <2> QED BY <2>1, <2>2
<1>10. \A m \in Months \ {n} : WaivedIn(m)' = WaivedIn(m)
  <2> SUFFICES ASSUME NEW m \in Months \ {n} PROVE WaivedIn(m)' = WaivedIn(m)
    OBVIOUS
  <2>1. k \notin ChargedIn(m) /\ ChargedIn(m) \subseteq Charges
    BY <1>1 DEF ChargedIn
  <2> QED BY <1>4, <1>8, <2>1 DEF WaivedIn
<1>11. WaivedIn(n)' = IF free /\ p = n THEN WaivedIn(n) \cup {k} ELSE WaivedIn(n)
  <2>1. ChargedIn(n) \subseteq Charges
    BY DEF ChargedIn
  <2>2. \A j : (j \in WaivedIn(n)') <=> (j \in ChargedIn(n)' /\ charge'[j].waived /\ charge'[j].window = n)
    BY DEF WaivedIn
  <2>3. \A j : (j \in WaivedIn(n)) <=> (j \in ChargedIn(n) /\ charge[j].waived /\ charge[j].window = n)
    BY DEF WaivedIn
  <2>4. \A j : (j \in ChargedIn(n)') <=> (j \in ChargedIn(n) \/ j = k)
    BY <1>9
  <2>5. \A j : (j \in WaivedIn(n)') <=> (j \in WaivedIn(n) \/ (free /\ p = n /\ j = k))
    BY <1>3, <1>4, <1>9, <2>1, <2>2, <2>3, <2>4
  <2> HIDE DEF WaivedIn
  <2> QED BY <2>5
<1>12. /\ IsFiniteSet(ChargedIn(n)) /\ counter[n] = Cardinality(ChargedIn(n))
       /\ Cardinality(WaivedIn(n)) <= FreePerMonth
       /\ free /\ p = n => counter[n] < FreePerMonth
  BY <1>1 DEF Register, AssessorsFit, Allowed
<1>13. IsFiniteSet(ChargedIn(n)') /\ Cardinality(ChargedIn(n)') = counter[n] + 1
  <2> DEFINE S == ChargedIn(n)
  <2>1. IsFiniteSet(S) /\ k \notin S /\ Cardinality(S) = counter[n] /\ ChargedIn(n)' = S \cup {k}
    BY <1>9, <1>12
  <2> HIDE DEF S
  <2>2. /\ IsFiniteSet(S \cup {k})
        /\ Cardinality(S \cup {k}) = Cardinality(S) + 1
    BY <2>1, FS_AddElement
  <2> QED BY <2>1, <2>2
<1>14. Cardinality(WaivedIn(n)') <= FreePerMonth
  <2>1. /\ IsFiniteSet(WaivedIn(n)) /\ Cardinality(WaivedIn(n)) <= counter[n]
        /\ Cardinality(WaivedIn(n)) \in Nat /\ counter[n] \in Nat
    BY <1>12, FS_Subset, FS_CardinalityType DEF WaivedIn
  <2>2. CASE free /\ p = n
    <3> DEFINE S == WaivedIn(n)
    <3>1. k \notin S
      BY <1>9 DEF WaivedIn
    <3>2. IsFiniteSet(S) /\ WaivedIn(n)' = S \cup {k} /\ Cardinality(S) <= counter[n] /\ Cardinality(S) \in Nat
      BY <1>11, <2>1, <2>2
    <3> HIDE DEF S
    <3>3. Cardinality(S \cup {k}) = Cardinality(S) + 1
      BY <3>1, <3>2, FS_AddElement
    <3> QED BY <1>12, <2>1, <2>2, <3>2, <3>3, FeeValues
  <2> QED BY <1>11, <1>12, <2>2
<1>15. Register'
  <2>1. ASSUME NEW j \in Charges
        PROVE  /\ posted'[j] = charge'[j].amount
               /\ Charged(j)' => /\ charge'[j].window <= charge'[j].counted
                                 /\ charge'[j].counted <= Month(charge'[j].day)
    <3>1. p <= n /\ n <= Month(t)
      BY <1>1 DEF AssessorsFit, InOrder
    <3>2. CASE j = k
      BY <1>3, <1>4, <3>1, <3>2
    <3>3. CASE j # k
      <4>1. charge'[j] = charge[j] /\ posted'[j] = posted[j] /\ (Charged(j)' <=> Charged(j))
        BY <1>4, <3>3 DEF Charged
      <4> QED BY <4>1 DEF Register
    <3> QED BY <3>2, <3>3
  <2>2. ASSUME NEW m \in Months
        PROVE  /\ IsFiniteSet(ChargedIn(m)') /\ counter'[m] = Cardinality(ChargedIn(m)')
               /\ Cardinality(WaivedIn(m)') <= FreePerMonth
    <3>1. CASE m = n
      BY <1>5, <1>13, <1>14, <3>1
    <3>2. CASE m # n
      BY <1>5, <1>8, <1>10, <3>2 DEF Register
    <3> QED BY <3>1, <3>2
  <2> QED BY <2>1, <2>2 DEF Register, Month
<1>16. AssessorsFit'
  <2>1. ASSUME NEW w \in Assessors
        PROVE  InOrder(assessor'[w], t)
    BY <1>6 DEF AssessorsFit, InOrder, Booking
  <2>2. ASSUME NEW w \in Assessors, assessor'[w].free, w # v
        PROVE  /\ assessor'[w].at = "priced" => \/ assessor'[w].window \in assessor'[w].missed
                                                \/ counter'[assessor'[w].window] < FreePerMonth
               /\ assessor'[w].at = "counted" => \/ assessor'[w].counted # assessor'[w].window
                                                 \/ counter'[assessor'[w].window] < FreePerMonth
    <3>1. assessor[w].window \in Months /\ Allowed(assessor[w]) /\ Apart(assessor[v], assessor[w])
      BY <2>2, FeeValues DEF Bills, AssessorsFit
    <3>2. CASE assessor[w].at = "priced"
      BY <1>5, <1>6, <2>2, <3>1, <3>2 DEF Allowed
    <3>3. CASE assessor[w].at = "counted"
      <4>1. assessor[w].counted # n
        BY <1>1, <3>1, <3>3 DEF Apart
      <4> QED BY <1>5, <1>6, <2>2, <3>1, <3>3, <4>1 DEF Allowed
    <3>4. CASE assessor[w].at \notin {"priced", "counted"}
      BY <1>6, <2>2, <3>4
    <3> QED BY <3>2, <3>3, <3>4
  <2>3. ASSUME NEW w \in Assessors
        PROVE  Allowed(assessor[w])'
    BY <1>6, <2>2, <2>3 DEF Allowed
  <2>4. \A x \in Assessors : \A w \in Assessors \ {x} : Apart(assessor[x], assessor[w])'
    BY <1>6 DEF AssessorsFit, Apart
  <2>5. \A w \in Assessors : InOrder(assessor[w], today)'
    BY <1>2, <2>1 DEF InOrder, Month
  <2> QED BY <2>3, <2>4, <2>5 DEF AssessorsFit
<1> QED BY <1>2, <1>7, <1>15, <1>16

(* Every action on fees keeps the register.                                *)
LEMMA FeesKept ==
  ASSUME FeesInv, FeesNext
  PROVE  FeesInv'
<1>0. FeesTypeOK /\ today \in Days /\ Register /\ AssessorsFit
  BY DEF FeesInv
<1>1. ASSUME NEW v \in Assessors, Charge(v) PROVE FeesInv'
  <2>1. PICK k \in Charges, t \in Days, n \in Months, p \in Months, free \in BOOLEAN :
          /\ k = assessor[v].key /\ t = today /\ n = assessor[v].counted
          /\ p = assessor[v].window /\ free = assessor[v].free
    BY <1>0, FeeValues DEF Bills
  <2> QED BY <1>1, <2>1, ChargeKeeps
<1>2. ASSUME NEW v \in Assessors, EndAssessment(v) PROVE FeesInv'
  <2>1. /\ InOrder(NoAssessor, today) /\ Allowed(NoAssessor)
        /\ \A w \in Assessors : Apart(NoAssessor, assessor[w])
    BY DEF InOrder, Allowed, Apart, NoAssessor, Booking
  <2> QED BY <1>0, <1>2, <2>1, FeeValues, AssessorMoves DEF EndAssessment
<1>3. ASSUME NEW v \in Assessors, NEW k \in Charges,
             Becomes(v, [NoAssessor EXCEPT !.at = "assessing", !.key = k]), NothingBooked
      PROVE  FeesInv'
  <2> DEFINE new == [NoAssessor EXCEPT !.at = "assessing", !.key = k]
  <2>1. new \in Bills /\ new.at = "assessing"
    BY <1>0, FeeValues DEF Bills
  <2> HIDE DEF new
  <2>2. /\ InOrder(new, today) /\ Allowed(new)
        /\ \A w \in Assessors : Apart(new, assessor[w])
    BY <2>1 DEF InOrder, Allowed, Apart, Booking
  <2>3. Becomes(v, new)
    BY <1>3 DEF new
  <2> QED BY <1>3, <2>1, <2>2, <2>3, AssessorMoves
<1>4. ASSUME NEW v \in Assessors, OpenWindow(v) PROVE FeesInv'
  <2> DEFINE x == assessor[v]
             new == [x EXCEPT !.at = "windowed", !.window = Month(today)]
  <2>1. x \in Bills /\ Month(today) \in Months /\ Month(today) <= Month(today)
    BY <1>0, FeeValues, MonthOf
  <2>2. Becomes(v, new) /\ NothingBooked
    BY <1>4 DEF OpenWindow
  <2> HIDE DEF x
  <2>3. new \in Bills /\ new.at = "windowed" /\ new.window = Month(today)
    BY <2>1 DEF Bills, Booking
  <2> HIDE DEF new
  <2>4. /\ InOrder(new, today) /\ Allowed(new)
        /\ \A w \in Assessors : Apart(new, assessor[w])
    BY <2>1, <2>3 DEF InOrder, Allowed, Apart
  <2> QED BY <2>2, <2>3, <2>4, AssessorMoves
<1>5. ASSUME NEW v \in Assessors, Price(v) PROVE FeesInv'
  <2> DEFINE x == assessor[v]
             free == counter[x.window] < FreePerMonth
             new == [x EXCEPT !.at = "priced", !.free = free]
  <2>1. x \in Bills /\ x.at = "windowed" /\ InOrder(x, today)
    BY <1>0, <1>5, FeeValues DEF Price, AssessorsFit
  <2>2. Becomes(v, new) /\ NothingBooked
    BY <1>5 DEF Price
  <2>3. free \in BOOLEAN /\ (free => counter[x.window] < FreePerMonth)
    OBVIOUS
  <2> HIDE DEF x, free
  <2>4. new \in Bills /\ new.at = "priced" /\ new.window = x.window /\ new.free = free
    BY <2>1, <2>3 DEF Bills, Booking
  <2> HIDE DEF new
  <2>5. /\ InOrder(new, today) /\ Allowed(new)
        /\ \A w \in Assessors : Apart(new, assessor[w])
    BY <2>1, <2>3, <2>4 DEF InOrder, Allowed, Apart, Booking
  <2> QED BY <2>2, <2>4, <2>5, AssessorMoves
<1>6. ASSUME NEW v \in Assessors, Count(v) PROVE FeesInv'
  <2> DEFINE x == assessor[v]
             n == Month(today)
             new == [x EXCEPT !.at = "counted", !.counted = n]
  <2>1. /\ x \in Bills /\ x.at = "priced" /\ InOrder(x, today) /\ Allowed(x)
        /\ n \in Months /\ n <= n
    BY <1>0, <1>6, FeeValues, MonthOf DEF Count, AssessorsFit
  <2>2. Becomes(v, new) /\ NothingBooked
    BY <1>6 DEF Count
  <2>3. /\ n \notin x.missed
        /\ \A w \in Assessors \ {v} : assessor[w].at = "counted" => assessor[w].counted # n
    BY <1>6 DEF Count, Conflict
  <2>4. x.window <= n
    BY <2>1 DEF InOrder, Booking
  <2> HIDE DEF x
  <2>5. /\ new \in Bills /\ new.at = "counted" /\ new.window = x.window /\ new.free = x.free
        /\ new.counted = n
    BY <2>1 DEF Bills, Booking
  <2>6. InOrder(new, today)
    BY <2>1, <2>4, <2>5 DEF InOrder
  <2> HIDE DEF new, n
  <2>7. Allowed(new)
    BY <2>1, <2>3, <2>5 DEF Allowed
  <2>8. \A w \in Assessors \ {v} : Apart(new, assessor[w])
    BY <2>3, <2>5 DEF Apart
  <2> QED BY <2>2, <2>5, <2>6, <2>7, <2>8, AssessorMoves
<1>7. ASSUME NEW v \in Assessors, Restart(v) PROVE FeesInv'
  <2>1. assessor[v].key \in Charges
    BY <1>0, FeeValues DEF Bills
  <2> QED BY <1>3, <1>7, <2>1, Zenon DEF Restart
<1>8. ASSUME NEW v \in Assessors, NEW k \in Charges, Assess(v, k) PROVE FeesInv'
  BY <1>3, <1>8, Zenon DEF Assess
<1> QED BY <1>1, <1>2, <1>4, <1>5, <1>6, <1>7, <1>8 DEF FeesNext

(* A day later, in a month that may be a new one.                          *)
LEMMA FeesLater ==
  ASSUME FeesInv, UNCHANGED fees, today' \in Days, today <= today'
  PROVE  FeesInv'
<1>1. UNCHANGED <<charge, posted, counter, assessor>>
  BY DEF fees
<1>2. \A m \in Months : ChargedIn(m)' = ChargedIn(m) /\ WaivedIn(m)' = WaivedIn(m)
  BY <1>1 DEF ChargedIn, WaivedIn, Charged
<1>3. Register'
  BY <1>1, <1>2 DEF FeesInv, Register, Month, Charged
<1>4. ASSUME NEW v \in Assessors PROVE InOrder(assessor[v], today')
  <2> DEFINE x == assessor[v]
             a == Month(today)
             b == Month(today')
  <2>1. a \in Nat /\ b \in Nat /\ a <= b
    BY MonthOf DEF FeesInv
  <2>2. x.window \in Nat /\ x.counted \in Nat /\ InOrder(x, today)
    BY FeeValues DEF FeesInv, AssessorsFit, Bills
  <2> HIDE DEF x, a, b
  <2>3. x.at \in Booking => x.window <= a
    BY <2>2 DEF InOrder, a
  <2>4. x.at = "counted" => x.window <= x.counted /\ x.counted <= a
    BY <2>2 DEF InOrder, a
  <2>5. (x.at \in Booking => x.window <= b) /\ (x.at = "counted" => x.counted <= b)
    BY <2>1, <2>2, <2>3, <2>4
  <2> QED BY <2>4, <2>5 DEF InOrder, x, b
<1>5. AssessorsFit'
  BY <1>1, <1>4 DEF FeesInv, AssessorsFit, InOrder, Allowed, Apart, Month
<1> QED BY <1>1, <1>3, <1>5 DEF FeesInv, FeesTypeOK

(* The invariant of the fees holds of every behaviour.                     *)
LEMMA FeesInvariant == Spec => []FeesInv
<1>1. Init => FeesInv
  <2> SUFFICES ASSUME Init PROVE FeesInv
    OBVIOUS
  <2>1. today \in Days
    BY AccountAssumption DEF Init, AccountInit, Days
  <2>2. FeesTypeOK
    <3>1. (CHOOSE k \in Charges : TRUE) \in Charges
      BY FeeAssumption
    <3>2. 0 \in Months
      BY FirstMonth
    <3> QED BY <3>1, <3>2 DEF Init, FeesInit, FeesTypeOK, NoCharge, NoAssessor, Unposted
  <2>3. \A m \in Months : ChargedIn(m) = {} /\ WaivedIn(m) = {}
    BY DEF Init, FeesInit, ChargedIn, WaivedIn, Charged
  <2>4. Register
    <3>1. \A k \in Charges : posted[k] = charge[k].amount /\ ~Charged(k)
      BY DEF Init, FeesInit, NoCharge, Unposted, Charged
    <3>2. \A m \in Months : counter[m] = 0
      BY DEF Init, FeesInit
    <3>3. IsFiniteSet({}) /\ Cardinality({}) = 0 /\ 0 <= FreePerMonth
      BY FS_EmptySet, FeeAssumption
    <3> QED BY <2>3, <3>1, <3>2, <3>3 DEF Register
  <2>5. AssessorsFit
    <3>1. \A v \in Assessors : assessor[v].at = "idle"
      BY DEF Init, FeesInit, NoAssessor
    <3> QED BY <3>1 DEF AssessorsFit, InOrder, Allowed, Apart, Booking
  <2> QED BY <2>1, <2>2, <2>4, <2>5 DEF FeesInv
<1>2. FeesInv /\ [Next]_vars => FeesInv'
  <2> SUFFICES ASSUME FeesInv, [Next]_vars PROVE FeesInv'
    OBVIOUS
  <2>1. today' \in Days /\ today <= today'
    BY ClockTurns DEF FeesInv
  <2> QED BY <2>1, FeesKept, FeesLater, FeesAlone
<1> QED BY <1>1, <1>2, PTL DEF Spec

(* The register of fees, the journal and the monthly counters agree, and   *)
(* of the fees priced and counted in a month no more are free than its     *)
(* allowance, for any number of assessments at the same time and any turns *)
(* of the clock between their readings of it.                              *)
THEOREM FeesAllowanceKept == Spec => []AllowanceKept
<1>1. FeesInv => AllowanceKept
  BY RegisterKept DEF FeesInv, Register
<1> QED BY <1>1, FeesInvariant, PTL

-----------------------------------------------------------------------------
(* The audit trail.                                                        *)

(* Only the audit trail's own actions write its variables.                 *)
LEMMA AuditAlone ==
  ASSUME [Next]_vars
  PROVE  AuditNext \/ UNCHANGED audit
BY DEF Next, vars, MandateStep, RequestStep, GoalStep, DisputeStep, DepositStep, AuditStep, FeeStep,
   InterestStep, OtherStep, ForAll

(* The trail is finite and its events are numbered from one without a gap, *)
(* so that it ends at its size.                                            *)
Numbered ==
  /\ IsFiniteSet(trail)
  /\ \A x, y \in trail : x.sequence = y.sequence => x = y
  /\ \A x \in trail : x.sequence \in 1..Cardinality(trail)
  /\ \A s \in 1..Cardinality(trail) : \E x \in trail : x.sequence = s

(* The trail has got at least as far as number s, and h is the hash of the *)
(* event there, or the genesis hash when nothing was recorded yet.         *)
Ends(s, h) ==
  /\ s \in 0..Cardinality(trail)
  /\ IF s = 0 THEN h = Genesis ELSE \E x \in trail : x.sequence = s /\ x.id = h

(* What a writer read is a place that the trail once ended at, and each of *)
(* its attempts was lost to an event recorded since it began; what it is   *)
(* to record is not in the trail until it saves it.                        *)
WritersChained ==
  \A e \in Events :
    LET w == writer[e] IN
    /\ w.at \in {"waiting", "again", "chained", "conflict"} => \A x \in trail : x.id # e
    /\ w.at = "waiting" => w.attempt = 1
    /\ w.at = "again" => w.began + w.attempt <= Cardinality(trail) + 1
    /\ w.at = "chained" => /\ Ends(w.tail.sequence, w.tail.hash)
                           /\ w.began + w.attempt <= w.tail.sequence + 1

(* A verification has got to a place of the trail.                         *)
VerifierAhead == verifier.expected # 0 /\ Ends(verifier.expected - 1, verifier.previousHash)

(* The invariant.                                                          *)
AuditInv == AuditTypeOK /\ ChainUnbroken /\ Numbered /\ WritersChained /\ VerifierAhead

(* The type of a writer.                                                   *)
Writers == [at : {"waiting", "again", "chained", "saved", "conflict", "swallowed"},
            attempt : 1..MaxAppends, tail : TrailEnd, began : Nat]

(* What the type of the trail says of single events and writers.           *)
LEMMA AuditValues ==
  ASSUME AuditTypeOK, Numbered
  PROVE  /\ Cardinality(trail) \in Nat
         /\ MaxAppends \in Nat \ {0} /\ VerifyBatch \in Nat \ {0} /\ Genesis \notin Events
         /\ \A x \in trail : /\ x \in AuditEvent /\ x.sequence \in Nat /\ x.id \in Events
                             /\ x.previousHash \in Events \cup {Genesis}
         /\ \A e \in Events : /\ writer[e] \in Writers /\ writer[e].tail \in TrailEnd
                              /\ writer[e].tail.sequence \in Nat
                              /\ writer[e].tail.hash \in Events \cup {Genesis}
                              /\ writer[e].attempt \in 1..MaxAppends /\ writer[e].began \in Nat
<1>1. Cardinality(trail) \in Nat
  BY FS_CardinalityType DEF Numbered
<1>2. \A x \in trail : x \in AuditEvent
  BY DEF AuditTypeOK
<1>3. \A e \in Events : writer[e] \in Writers
  BY DEF AuditTypeOK, Writers
<1>4. \A w \in Writers : /\ w.tail \in TrailEnd /\ w.tail.sequence \in Nat
                         /\ w.tail.hash \in Events \cup {Genesis}
                         /\ w.attempt \in 1..MaxAppends /\ w.began \in Nat
  BY DEF Writers, TrailEnd
<1>5. \A x \in AuditEvent : /\ x.sequence \in Nat /\ x.id \in Events
                            /\ x.previousHash \in Events \cup {Genesis}
  BY DEF AuditEvent
<1> QED BY <1>1, <1>2, <1>3, <1>4, <1>5, AuditAssumption

(* Between two numbers of the trail there are as many events as numbers.   *)
LEMMA StretchSize ==
  ASSUME AuditTypeOK, Numbered, NEW a \in Nat \ {0}, NEW b \in Nat,
         a <= b, b <= Cardinality(trail) + 1
  PROVE  LET S == {x \in trail : a <= x.sequence /\ x.sequence < b}
         IN  IsFiniteSet(S) /\ Cardinality(S) = b - a
<1> DEFINE S == {x \in trail : a <= x.sequence /\ x.sequence < b}
           f == [x \in S |-> x.sequence]
           I == a..(b - 1)
<1>1. IsFiniteSet(S)
  BY FS_Subset DEF Numbered
<1>2. /\ f \in [S -> I]
      /\ \A x, y \in S : f[x] = f[y] => x = y
      /\ \A s \in I : \E x \in S : f[x] = s
  <2>1. \A x \in S : x.sequence \in I
    BY AuditValues
  <2>2. \A s \in I : s \in 1..Cardinality(trail)
    BY AuditValues
  <2>3. \A s \in I : \E x \in S : x.sequence = s
    BY <2>2 DEF Numbered
  <2>4. \A x, y \in S : x.sequence = y.sequence => x = y
    BY DEF Numbered
  <2> HIDE DEF S, I
  <2> QED BY <2>1, <2>3, <2>4
<1>3. f \in Bijection(S, I)
  <2> HIDE DEF S, I, f
  <2> QED BY <1>2 DEF Bijection, Injection, Surjection, IsInjective
<1>4. Cardinality(I) = Cardinality(S)
  <2>1. ExistsBijection(S, I)
    <3> HIDE DEF S, I, f
    <3> QED BY <1>3 DEF ExistsBijection
  <2> HIDE DEF S, I, f
  <2> QED BY <1>1, <2>1, FS_Bijection
<1>5. Cardinality(I) = b - a
  <2>1. a \in Int /\ b - 1 \in Int
    OBVIOUS
  <2>2. Cardinality(I) = IF a > b - 1 THEN 0 ELSE b - 1 - a + 1
    BY <2>1, FS_Interval
  <2> HIDE DEF I
  <2> QED BY <2>2
<1> QED BY <1>1, <1>4, <1>5

(* What findLatest returns is where the trail ends, by its size.           *)
LEMMA LatestIsTheEnd ==
  ASSUME AuditTypeOK, Numbered
  PROVE  /\ Latest \in TrailEnd /\ Latest.sequence = Cardinality(trail)
         /\ Ends(Latest.sequence, Latest.hash)
<1> DEFINE n == Cardinality(trail)
           e == CHOOSE x \in trail : \A y \in trail : y.sequence <= x.sequence
<1>1. n \in Nat
  BY AuditValues
<1>2. CASE trail = {}
  <2>1. n = 0 /\ Latest = NoTail
    BY <1>2, FS_EmptySet DEF Latest
  <2> QED BY <2>1 DEF NoTail, TrailEnd, FIRST_SEQUENCE, Ends
<1>3. CASE trail # {}
  <2>1. n # 0
    BY <1>3, FS_EmptySet DEF Numbered
  <2>2. PICK x \in trail : x.sequence = n
    BY <1>1, <2>1 DEF Numbered
  <2>3. \A y \in trail : y.sequence <= x.sequence
    BY <2>2 DEF Numbered
  <2>4. e \in trail /\ \A y \in trail : y.sequence <= e.sequence
    BY <2>3
  <2>5. e.sequence = n
    <3>1. e.sequence \in Nat /\ e.sequence <= n /\ n <= e.sequence
      <4> HIDE DEF e
      <4> QED BY <1>1, <2>2, <2>3, <2>4, AuditValues
    <3> HIDE DEF e, n
    <3> QED BY <1>1, <3>1
  <2>6. Latest = [sequence |-> e.sequence, hash |-> e.id]
    BY <1>3 DEF Latest
  <2> HIDE DEF e
  <2> QED BY <1>1, <2>1, <2>4, <2>5, <2>6, AuditValues DEF TrailEnd, Ends
<1> QED BY <1>2, <1>3

(* The invariant holds when nothing is recorded yet.                       *)
LEMMA AuditStart ==
  ASSUME AuditInit
  PROVE  AuditInv
<1>1. trail = {} /\ Cardinality(trail) = 0 /\ IsFiniteSet(trail)
  BY FS_EmptySet DEF AuditInit
<1>2. MaxAppends \in Nat \ {0} /\ 1 \in 1..MaxAppends
  BY AuditAssumption
<1>3. \A e \in Events : writer[e] = NoWriter
  BY DEF AuditInit
<1>4. Numbered
  BY <1>1 DEF Numbered
<1>5. AuditTypeOK
  BY <1>1, <1>2 DEF AuditInit, AuditTypeOK, NoWriter, NoTail, TrailEnd, FIRST_SEQUENCE, NoVerification
<1>6. ChainUnbroken
  BY <1>1, <1>3 DEF AuditInit, ChainUnbroken, NoWriter, NoVerification
<1>7. WritersChained
  BY <1>1, <1>3 DEF WritersChained, NoWriter
<1>8. VerifierAhead
  BY <1>1 DEF AuditInit, VerifierAhead, Ends, NoVerification, FIRST_SEQUENCE
<1> QED BY <1>4, <1>5, <1>6, <1>7, <1>8 DEF AuditInv

(* Reading the tail keeps the invariant: it is where the trail ends now,   *)
(* and a writer that lost its attempts before was overtaken that often.    *)
LEMMA ReadTailKeeps ==
  ASSUME AuditInv, NEW e \in Events, ReadTail(e)
  PROVE  AuditInv'
<1> DEFINE n == Cardinality(trail)
           began == IF writer[e].at = "waiting" THEN n ELSE writer[e].began
           w == [at |-> "chained", attempt |-> writer[e].attempt, tail |-> Latest, began |-> began]
<1>1. AuditTypeOK /\ ChainUnbroken /\ Numbered /\ WritersChained /\ VerifierAhead
  BY DEF AuditInv
<1>2. UNCHANGED <<trail, verifier>>
  BY DEF ReadTail
<1>3. /\ writer'[e] = w
      /\ \A d \in Events : d # e => writer'[d] = writer[d]
      /\ writer' = [d \in Events |-> IF d = e THEN writer'[e] ELSE writer[d]]
  BY <1>1 DEF ReadTail, AuditTypeOK
<1>4. n \in Nat /\ began \in Nat /\ writer[e].attempt \in 1..MaxAppends /\ MaxAppends \in Nat
  BY <1>1, AuditValues
<1>5. Latest \in TrailEnd /\ Latest.sequence = n /\ Ends(Latest.sequence, Latest.hash)
  BY <1>1, LatestIsTheEnd
<1>6. w \in Writers
  BY <1>4, <1>5 DEF Writers
<1>7. w.at = "chained" /\ w.tail = Latest /\ w.attempt = writer[e].attempt /\ w.began = began
  OBVIOUS
<1>8. writer[e].at \in {"waiting", "again"}
  BY DEF ReadTail
<1>9. began + writer[e].attempt <= n + 1
  <2>1. CASE writer[e].at = "waiting"
    BY <1>1, <1>4, <2>1 DEF WritersChained
  <2>2. CASE writer[e].at = "again"
    BY <1>1, <1>4, <2>2 DEF WritersChained
  <2> QED BY <1>8, <2>1, <2>2
<1>10. \A x \in trail : x.id # e
  BY <1>1, <1>8 DEF WritersChained
<1> HIDE DEF w, began
<1>11. AuditTypeOK'
  BY <1>1, <1>2, <1>3, <1>6 DEF AuditTypeOK, Writers
<1>12. ChainUnbroken'
  <2>1. \A d \in Events : writer'[d].at = "conflict" => writer'[d] = writer[d]
    BY <1>3, <1>7
  <2>2. \A d \in Events : writer'[d].at = "saved" => writer'[d] = writer[d]
    BY <1>3, <1>7
  <2> QED BY <1>1, <1>2, <2>1, <2>2 DEF ChainUnbroken
<1>13. Numbered' /\ VerifierAhead'
  BY <1>1, <1>2 DEF Numbered, VerifierAhead, Ends
<1>14. WritersChained'
  <2> SUFFICES ASSUME NEW d \in Events
               PROVE  LET v == writer'[d] IN
                      /\ v.at \in {"waiting", "again", "chained", "conflict"} => \A x \in trail : x.id # d
                      /\ v.at = "waiting" => v.attempt = 1
                      /\ v.at = "again" => v.began + v.attempt <= Cardinality(trail) + 1
                      /\ v.at = "chained" => /\ Ends(v.tail.sequence, v.tail.hash)
                                             /\ v.began + v.attempt <= v.tail.sequence + 1
    BY <1>2 DEF WritersChained, Ends
  <2>1. CASE d = e
    BY <1>3, <1>5, <1>7, <1>9, <1>10, <2>1
  <2>2. CASE d # e
    BY <1>1, <1>3, <2>2 DEF WritersChained
  <2> QED BY <2>1, <2>2
<1> QED BY <1>11, <1>12, <1>13, <1>14 DEF AuditInv

(* Losing the race keeps the invariant: whoever has the number was         *)
(* recorded after the tail was read, so the trail is longer than it was.   *)
LEMMA LoseRaceKeeps ==
  ASSUME AuditInv, NEW e \in Events, LoseRace(e)
  PROVE  AuditInv'
<1> DEFINE n == Cardinality(trail)
           t == writer[e].tail.sequence
           k == writer[e].attempt
           b == writer[e].began
           last == k = MaxAppends
           w == [at |-> IF last THEN "conflict" ELSE "again",
                 attempt |-> IF last THEN k ELSE k + 1, tail |-> writer[e].tail, began |-> b]
<1>1. AuditTypeOK /\ ChainUnbroken /\ Numbered /\ WritersChained /\ VerifierAhead
  BY DEF AuditInv
<1>2. UNCHANGED <<trail, verifier>>
  BY DEF LoseRace
<1>3. /\ n \in Nat /\ t \in Nat /\ k \in 1..MaxAppends /\ b \in Nat /\ MaxAppends \in Nat \ {0}
      /\ writer[e] \in Writers /\ writer[e].tail \in TrailEnd
  BY <1>1, AuditValues
<1>4. /\ writer'[e] = w
      /\ \A d \in Events : d # e => writer'[d] = writer[d]
      /\ writer' = [d \in Events |-> IF d = e THEN writer'[e] ELSE writer[d]]
  <2>1. CASE last
    BY <1>1, <1>3, <2>1 DEF LoseRace, LastAttempt, AuditTypeOK, Writers
  <2>2. CASE ~last
    BY <1>1, <1>3, <2>2 DEF LoseRace, LastAttempt, AuditTypeOK, Writers
  <2> QED BY <2>1, <2>2
<1>5. w \in Writers
  BY <1>3 DEF Writers
<1>6. w.at = (IF last THEN "conflict" ELSE "again") /\ w.attempt = (IF last THEN k ELSE k + 1)
      /\ w.began = b /\ w.tail = writer[e].tail
  OBVIOUS
<1>7. writer[e].at = "chained" /\ \A x \in trail : x.id # e
  BY <1>1 DEF LoseRace, WritersChained
<1>8. t + 1 <= n
  <2>1. PICK x \in trail : x.sequence = t + 1
    BY DEF LoseRace, SequenceTaken
  <2>2. x.sequence \in 1..n
    BY <1>1, <2>1 DEF Numbered
  <2> QED BY <1>3, <2>1, <2>2
<1>9. b + k <= t + 1
  BY <1>1, <1>7 DEF WritersChained
<1>10. b + k <= n
  BY <1>3, <1>8, <1>9
<1>11. AuditTypeOK'
  <2> HIDE DEF w
  <2> QED BY <1>1, <1>2, <1>4, <1>5 DEF AuditTypeOK, Writers
<1>12. ChainUnbroken'
  <2>1. \A d \in Events : d # e => writer'[d] = writer[d]
    BY <1>4
  <2>2. writer'[e].at # "saved" /\ (writer'[e].at = "conflict" => last /\ writer'[e].began = b)
    BY <1>4
  <2>3. last => n >= b + MaxAppends
    BY <1>3, <1>10
  <2> HIDE DEF w, last, b
  <2>4. \A d \in Events : writer'[d].at = "saved" => \E x \in trail : x.id = d
    BY <1>1, <2>1, <2>2 DEF ChainUnbroken
  <2>5. \A d \in Events : writer'[d].at = "conflict" =>
          /\ \A x \in trail : x.id # d
          /\ n >= writer'[d].began + MaxAppends
    BY <1>1, <1>7, <2>1, <2>2, <2>3 DEF ChainUnbroken
  <2> QED BY <1>1, <1>2, <2>4, <2>5 DEF ChainUnbroken
<1>13. Numbered' /\ VerifierAhead'
  BY <1>1, <1>2 DEF Numbered, VerifierAhead, Ends
<1>14. WritersChained'
  <2> SUFFICES ASSUME NEW d \in Events
               PROVE  LET v == writer'[d] IN
                      /\ v.at \in {"waiting", "again", "chained", "conflict"} => \A x \in trail : x.id # d
                      /\ v.at = "waiting" => v.attempt = 1
                      /\ v.at = "again" => v.began + v.attempt <= n + 1
                      /\ v.at = "chained" => /\ Ends(v.tail.sequence, v.tail.hash)
                                             /\ v.began + v.attempt <= v.tail.sequence + 1
    BY <1>2 DEF WritersChained, Ends
  <2>1. CASE d = e
    <3>1. writer'[d].at \in {"again", "conflict"}
      BY <1>4, <2>1
    <3>2. writer'[d].at = "again" => writer'[d].began + writer'[d].attempt <= n + 1
      BY <1>3, <1>4, <1>10, <2>1
    <3> HIDE DEF w
    <3> QED BY <1>7, <2>1, <3>1, <3>2
  <2>2. CASE d # e
    BY <1>1, <1>4, <2>2 DEF WritersChained
  <2> QED BY <2>1, <2>2
<1> QED BY <1>11, <1>12, <1>13, <1>14 DEF AuditInv

(* The call of a writer, and one that has ended.                           *)
Writer == [at : {"waiting", "again", "chained", "saved", "conflict", "swallowed"},
           attempt : 1..MaxAppends, tail : TrailEnd, began : Nat]

(* A writer that has ended is a writer that knows nothing.                 *)
LEMMA EndedWriter ==
  ASSUME NEW s \in {"saved", "swallowed"}
  PROVE  [NoWriter EXCEPT !.at = s] \in Writer /\ [NoWriter EXCEPT !.at = s].at = s
BY AuditAssumption DEF NoWriter, NoTail, FIRST_SEQUENCE, TrailEnd, Writer

(* A failure that is swallowed keeps the invariant.                        *)
LEMMA SwallowKeeps ==
  ASSUME AuditInv, NEW e \in Events, Swallow(e)
  PROVE  AuditInv'
<1>1. AuditTypeOK /\ ChainUnbroken /\ Numbered /\ WritersChained /\ VerifierAhead
  BY DEF AuditInv
<1> DEFINE ended == [NoWriter EXCEPT !.at = "swallowed"]
<1>2. UNCHANGED <<trail, verifier>> /\ writer' = [writer EXCEPT ![e] = ended]
  BY DEF Swallow
<1>0. ended \in Writer /\ ended.at = "swallowed"
  BY EndedWriter
<1> HIDE DEF ended
<1>3. writer'[e].at = "swallowed" /\ \A d \in Events : d # e => writer'[d] = writer[d]
  BY <1>0, <1>1, <1>2 DEF AuditTypeOK
<1>4. AuditTypeOK'
  BY <1>0, <1>1, <1>2 DEF AuditTypeOK, Writer
<1>5. ChainUnbroken'
  BY <1>1, <1>2, <1>3 DEF ChainUnbroken
<1>6. Numbered' /\ VerifierAhead'
  BY <1>1, <1>2 DEF Numbered, VerifierAhead, Ends
<1>7. WritersChained'
  BY <1>1, <1>2, <1>3 DEF WritersChained, Ends
<1> QED BY <1>4, <1>5, <1>6, <1>7 DEF AuditInv

(* An insert keeps the invariant: a number that is free is the one after   *)
(* the trail's end, so the tail that was read is its end still, however    *)
(* long ago that was.                                                      *)
LEMMA AppendEventKeeps ==
  ASSUME AuditInv, NEW e \in Events, AppendEvent(e)
  PROVE  AuditInv'
<1> DEFINE n == Cardinality(trail)
           m == Cardinality(trail')
           t == writer[e].tail.sequence
           h == writer[e].tail.hash
           x == [sequence |-> t + 1, id |-> e, previousHash |-> h]
           ended == [NoWriter EXCEPT !.at = "saved"]
<1>1. AuditTypeOK /\ ChainUnbroken /\ Numbered /\ WritersChained /\ VerifierAhead
  BY DEF AuditInv
<1>2. /\ n \in Nat /\ t \in Nat /\ h \in Events \cup {Genesis} /\ MaxAppends \in Nat
      /\ \A y \in trail : y.sequence \in Nat
      /\ \A d \in Events : writer[d].began \in Nat /\ writer[d].tail.sequence \in Nat
                           /\ writer[d].attempt \in Nat
  BY <1>1, AuditValues
<1>3. /\ writer[e].at = "chained" /\ trail' = trail \cup {x} /\ UNCHANGED verifier
      /\ writer' = [writer EXCEPT ![e] = ended]
  BY DEF AppendEvent
<1>0. ended \in Writer /\ ended.at = "saved"
  BY EndedWriter
<1> HIDE DEF ended
<1>4. writer'[e].at = "saved" /\ \A d \in Events : d # e => writer'[d] = writer[d]
  BY <1>0, <1>1, <1>3 DEF AuditTypeOK
<1>5. t = n
  <2>1. t \in 0..n
    BY <1>1, <1>3 DEF WritersChained, Ends
  <2>2. t + 1 \in 1..n => \E y \in trail : y.sequence = t + 1
    BY <1>1 DEF Numbered
  <2>3. ~ \E y \in trail : y.sequence = t + 1
    BY DEF AppendEvent, SequenceTaken
  <2> HIDE DEF n, t
  <2> QED BY <1>2, <2>1, <2>2, <2>3
<1>6. /\ \A y \in trail : y.id # e
      /\ IF n = 0 THEN h = Genesis ELSE \E y \in trail : y.sequence = n /\ y.id = h
  BY <1>1, <1>3, <1>5 DEF WritersChained, Ends
<1>7. x \notin trail /\ x \in AuditEvent /\ x.sequence = n + 1 /\ x.id = e /\ x.previousHash = h
  BY <1>2, <1>5, <1>6 DEF AuditEvent
<1>8. m = n + 1 /\ IsFiniteSet(trail')
  <2> HIDE DEF x
  <2> QED BY <1>1, <1>3, <1>7, FS_AddElement DEF Numbered
<1> HIDE DEF x, n, m, t, h
<1>9. AuditTypeOK'
  BY <1>0, <1>1, <1>3, <1>7 DEF AuditTypeOK, Writer
<1>10. \A y \in trail : y.sequence \in 1..n /\ y.sequence # n + 1
  BY <1>1, <1>2 DEF Numbered, n
<1>11. Numbered'
  <2>1. \A y, z \in trail' : y.sequence = z.sequence => y = z
    BY <1>1, <1>3, <1>7, <1>10 DEF Numbered
  <2>2. \A y \in trail' : y.sequence \in 1..m
    BY <1>2, <1>3, <1>7, <1>8, <1>10
  <2>3. \A s \in 1..m : \E y \in trail' : y.sequence = s
    <3>1. \A s \in 1..m : s \in 1..n \/ s = n + 1
      BY <1>2, <1>8
    <3>2. \A s \in 1..n : \E y \in trail : y.sequence = s
      BY <1>1 DEF Numbered, n
    <3> QED BY <1>3, <1>7, <3>1, <3>2
  <2> QED BY <1>8, <2>1, <2>2, <2>3 DEF Numbered, m
<1>12. ASSUME NEW s, NEW g, Ends(s, g) PROVE Ends(s, g)'
  BY <1>2, <1>3, <1>8, <1>12 DEF Ends, n, m
<1>13. VerifierAhead'
  <2>1. PICK s, g : s = verifier.expected - 1 /\ g = verifier.previousHash
    OBVIOUS
  <2>2. Ends(s, g)'
    BY <1>1, <1>12, <2>1 DEF VerifierAhead
  <2>3. s = verifier'.expected - 1 /\ g = verifier'.previousHash /\ verifier'.expected # 0
    BY <1>1, <1>3, <2>1 DEF VerifierAhead
  <2> QED BY <2>2, <2>3 DEF VerifierAhead, Ends
<1>14. WritersChained'
  <2> SUFFICES ASSUME NEW d \in Events
               PROVE  (LET v == writer[d] IN
                      /\ v.at \in {"waiting", "again", "chained", "conflict"} => \A y \in trail : y.id # d
                      /\ v.at = "waiting" => v.attempt = 1
                      /\ v.at = "again" => v.began + v.attempt <= Cardinality(trail) + 1
                      /\ v.at = "chained" => /\ Ends(v.tail.sequence, v.tail.hash)
                                             /\ v.began + v.attempt <= v.tail.sequence + 1)'
    BY DEF WritersChained
  <2>1. CASE d = e
    BY <1>4, <2>1
  <2>2. CASE d # e
    <3>1. writer'[d] = writer[d]
      BY <1>4, <2>2
    <3>2. \A y \in trail' : y.id = d => y \in trail
      BY <1>3, <1>7, <2>2
    <3>3. writer[d].at = "again" => writer[d].began + writer[d].attempt <= m + 1
      <4>1. writer[d].at = "again" => writer[d].began + writer[d].attempt <= n + 1
        BY <1>1 DEF WritersChained, n
      <4> QED BY <1>2, <1>8, <4>1
    <3>4. writer[d].at = "chained" =>
            /\ writer'[d].began + writer'[d].attempt <= writer'[d].tail.sequence + 1
            /\ Ends(writer[d].tail.sequence, writer[d].tail.hash)
      BY <1>1, <3>1 DEF WritersChained
    <3>5. PICK s, g : s = writer[d].tail.sequence /\ g = writer[d].tail.hash
      OBVIOUS
    <3>6. writer[d].at = "chained" => Ends(s, g)'
      BY <1>12, <3>4, <3>5
    <3>7. s = writer'[d].tail.sequence /\ g = writer'[d].tail.hash
      BY <3>1, <3>5
    <3>8. writer'[d].at \in {"waiting", "again", "chained", "conflict"} => \A y \in trail' : y.id # d
      BY <1>1, <3>1, <3>2 DEF WritersChained
    <3>9. writer'[d].at = "waiting" => writer'[d].attempt = 1
      BY <1>1, <3>1 DEF WritersChained
    <3> QED BY <3>1, <3>3, <3>4, <3>6, <3>7, <3>8, <3>9 DEF Ends, m
  <2> QED BY <2>1, <2>2
<1>15. ChainUnbroken'
  <2>1. \A y \in trail' : \/ y.sequence = FIRST_SEQUENCE /\ y.previousHash = Genesis
                          \/ \E z \in trail' : z.sequence = y.sequence - 1 /\ y.previousHash = z.id
    <3>1. CASE n = 0
      BY <1>1, <1>3, <1>6, <1>7, <3>1 DEF ChainUnbroken, FIRST_SEQUENCE
    <3>2. CASE n # 0
      <4>1. PICK z \in trail : z.sequence = n /\ z.id = h
        BY <1>6, <3>2
      <4>2. z.sequence = x.sequence - 1 /\ x.previousHash = z.id
        BY <1>2, <1>7, <4>1
      <4> QED BY <1>1, <1>3, <4>2 DEF ChainUnbroken
    <3> QED BY <3>1, <3>2
  <2>2. \A y, z \in trail' : y.sequence = z.sequence \/ y.id = z.id => y = z
    BY <1>1, <1>3, <1>6, <1>7, <1>10 DEF ChainUnbroken
  <2>3. verifier'.verdict # "broken"
    BY <1>1, <1>3 DEF ChainUnbroken
  <2>4. ASSUME NEW d \in Events
        PROVE  /\ writer'[d].at = "saved" => \E y \in trail' : y.id = d
               /\ writer'[d].at = "conflict" =>
                    (\A y \in trail' : y.id # d) /\ m >= writer'[d].began + MaxAppends
    <3>1. CASE d = e
      BY <1>3, <1>4, <1>7, <3>1
    <3>2. CASE d # e
      <4>1. writer'[d] = writer[d]
        BY <1>4, <3>2
      <4>2. writer[d].at = "conflict" => n >= writer[d].began + MaxAppends
                                         /\ \A y \in trail : y.id # d
        BY <1>1 DEF ChainUnbroken, n
      <4>3. writer[d].at = "conflict" => m >= writer[d].began + MaxAppends
        BY <1>2, <1>8, <4>2
      <4>4. writer[d].at = "saved" => \E y \in trail : y.id = d
        BY <1>1 DEF ChainUnbroken
      <4> QED BY <1>3, <1>7, <3>2, <4>1, <4>2, <4>3, <4>4
    <3> QED BY <3>1, <3>2
  <2> QED BY <2>1, <2>2, <2>3, <2>4 DEF ChainUnbroken, m
<1> QED BY <1>9, <1>11, <1>13, <1>14, <1>15 DEF AuditInv

(* A batch of the verification is the next stretch of the trail.           *)
LEMMA BatchIsAStretch ==
  ASSUME AuditTypeOK, Numbered, NEW a \in Nat \ {0}, a <= Cardinality(trail) + 1
  PROVE  \E b \in Nat :
           /\ a <= b /\ b <= Cardinality(trail) + 1
           /\ Batch(a) = {x \in trail : a <= x.sequence /\ x.sequence < b}
<1> DEFINE n == Cardinality(trail)
           b == IF a + VerifyBatch <= n + 1 THEN a + VerifyBatch ELSE n + 1
           S == {x \in trail : a <= x.sequence /\ x.sequence < b}
           B == Batch(a)
<1>1. n \in Nat /\ VerifyBatch \in Nat \ {0}
  BY AuditValues
<1>2. b \in Nat /\ a <= b /\ b <= n + 1
  BY <1>1
<1>3. \A x \in trail : x.sequence \in 1..n
  BY DEF Numbered
<1>4. ASSUME NEW x \in trail, x.sequence >= a
      PROVE  Cardinality({y \in trail : a <= y.sequence /\ y.sequence < x.sequence})
               = x.sequence - a
  <2>1. PICK c \in Nat : c = x.sequence
    BY <1>1, <1>3
  <2>2. a <= c /\ c <= n + 1
    BY <1>1, <1>3, <1>4, <2>1
  <2> QED BY <2>1, <2>2, StretchSize
<1>5. \A x : x \in B <=> x \in trail /\ x.sequence >= a /\ x.sequence - a < VerifyBatch
  BY <1>4 DEF Batch
<1>6. \A x : x \in B <=> x \in S
  <2>1. ASSUME NEW x \in trail
        PROVE  (x.sequence >= a /\ x.sequence - a < VerifyBatch)
                 <=> (a <= x.sequence /\ x.sequence < b)
    <3>1. PICK s \in 1..n : s = x.sequence
      BY <1>3
    <3> QED BY <1>1, <3>1
  <2> HIDE DEF b, B
  <2> QED BY <1>5, <2>1
<1>7. B = S
  <2> HIDE DEF B, S
  <2> QED BY <1>6
<1> QED BY <1>2, <1>7

(* Along a stretch of the trail every link holds, the first one to the     *)
(* hash that the stretch before it ended with.                             *)
LEMMA BatchLinks ==
  ASSUME AuditInv, NEW a \in Nat \ {0}, NEW h, Ends(a - 1, h), NEW b \in Nat, a <= b,
         b <= Cardinality(trail) + 1, NEW B, B = {x \in trail : a <= x.sequence /\ x.sequence < b}
  PROVE  Links(B, a, h)
<1>1. AuditTypeOK /\ ChainUnbroken /\ Numbered
  BY DEF AuditInv
<1> DEFINE n == Cardinality(trail)
<1>2. n \in Nat /\ \A x \in trail : x.sequence \in 1..n
  BY <1>1, AuditValues DEF Numbered
<1> SUFFICES ASSUME NEW e \in B
             PROVE  LET before == {x \in B : x.sequence < e.sequence} IN
                    /\ e.sequence = a + Cardinality(before)
                    /\ e.previousHash = IF before = {} THEN h
                          ELSE (CHOOSE x \in before : \A y \in before : y.sequence <= x.sequence).id
  BY DEF Links
<1> DEFINE before == {x \in B : x.sequence < e.sequence}
           S == {x \in trail : a <= x.sequence /\ x.sequence < e.sequence}
<1>3. PICK s \in 1..n : s = e.sequence
  BY <1>2
<1>4. a <= s /\ s < b /\ e \in trail
  BY <1>3
<1>5. before = S
  <2>1. \A x \in trail : x.sequence < s => x.sequence < b
    BY <1>2, <1>4
  <2>2. \A x : x \in before <=> x \in S
    BY <1>3, <2>1
  <2> HIDE DEF before, S
  <2> QED BY <2>2
<1>6. Cardinality(S) = s - a
  <2>1. s \in Nat /\ s <= Cardinality(trail) + 1
    BY <1>2
  <2> QED BY <1>1, <1>3, <1>4, <2>1, StretchSize
<1>7. e.sequence = a + Cardinality(before)
  <2> HIDE DEF before, S
  <2> QED BY <1>3, <1>4, <1>5, <1>6
<1>8. \A x, y \in trail : x.sequence = y.sequence => x = y
  BY <1>1 DEF Numbered
<1>9. s = 1 => e.previousHash = Genesis
  <2>1. e.previousHash = Genesis \/ \E x \in trail : x.sequence = s - 1
    BY <1>1, <1>3, <1>4 DEF ChainUnbroken
  <2>2. \A x \in trail : x.sequence # 0
    BY <1>2
  <2> QED BY <2>1, <2>2
<1>10. s # 1 => \E x \in trail : x.sequence = s - 1 /\ e.previousHash = x.id
  BY <1>1, <1>3, <1>4 DEF ChainUnbroken, FIRST_SEQUENCE
<1>11. CASE s = a
  <2>1. before = {}
    BY <1>2, <1>5, <1>3, <1>11
  <2>2. e.previousHash = h
    <3>1. CASE s = 1
      BY <1>9, <1>11, <3>1 DEF Ends
    <3>2. CASE s # 1
      <4>1. PICK x \in trail : x.sequence = s - 1 /\ e.previousHash = x.id
        BY <1>10, <3>2
      <4>2. PICK y \in trail : y.sequence = a - 1 /\ y.id = h
        BY <1>11, <3>2 DEF Ends
      <4> QED BY <1>8, <1>11, <4>1, <4>2
    <3> QED BY <3>1, <3>2
  <2> QED BY <1>7, <2>1, <2>2
<1>12. CASE s # a
  <2> DEFINE c == CHOOSE x \in before : \A y \in before : y.sequence <= x.sequence
  <2>1. a < s /\ s # 1
    BY <1>4, <1>12
  <2>2. PICK x \in trail : x.sequence = s - 1 /\ e.previousHash = x.id
    BY <1>10, <2>1
  <2>3. x \in before /\ \A y \in before : y.sequence <= x.sequence
    <3>1. a <= s - 1 /\ s - 1 < s
      BY <2>1
    <3>2. x \in S
      BY <1>3, <2>2, <3>1
    <3>3. \A y \in S : y.sequence <= s - 1
      BY <1>2, <1>3
    <3> HIDE DEF before, S
    <3> QED BY <1>5, <2>2, <3>2, <3>3
  <2>4. c \in before /\ \A y \in before : y.sequence <= c.sequence
    <3> HIDE DEF before
    <3> QED BY <2>3
  <2>5. c \in trail /\ x.sequence <= c.sequence /\ c.sequence <= x.sequence
    BY <2>3, <2>4
  <2>6. c = x
    <3> HIDE DEF c, before
    <3>1. c.sequence \in Nat /\ x.sequence \in Nat
      BY <1>2, <2>5
    <3>2. c.sequence = x.sequence
      BY <2>5, <3>1
    <3> QED BY <1>8, <2>5, <3>2
  <2>7. before # {}
    BY <2>3
  <2>8. e.previousHash = c.id
    <3> HIDE DEF c
    <3> QED BY <2>2, <2>6
  <2> QED BY <1>7, <2>7, <2>8, Zenon
<1> QED BY <1>11, <1>12

(* A batch verified keeps the invariant: it is not found broken, and the   *)
(* verification goes on where the stretch ends.                            *)
LEMMA VerifyKeeps ==
  ASSUME AuditInv, VerifyNext \/ VerifyAgain
  PROVE  AuditInv'
<1> DEFINE n == Cardinality(trail)
           a == verifier.expected
           h == verifier.previousHash
<1>1. AuditTypeOK /\ ChainUnbroken /\ Numbered /\ WritersChained /\ VerifierAhead
  BY DEF AuditInv
<1>2. UNCHANGED <<trail, writer>>
  BY DEF VerifyNext, VerifyAgain
<1>3. /\ n \in Nat /\ VerifyBatch \in Nat \ {0}
      /\ \A x \in trail : x.sequence \in 1..n /\ x.id \in Events
  BY <1>1, AuditValues DEF Numbered
<1>4. WritersChained' /\ Numbered'
  BY <1>1, <1>2 DEF WritersChained, Ends, Numbered
<1>5. /\ verifier' \in [expected : Nat, previousHash : Events \cup {Genesis},
                        verdict : {"running", "verified", "broken"}]
      /\ verifier'.verdict # "broken"
      /\ verifier'.expected # 0 /\ Ends(verifier'.expected - 1, verifier'.previousHash)
  <2>1. CASE VerifyAgain
    <3>1. verifier' = NoVerification
      BY <2>1 DEF VerifyAgain
    <3> QED BY <1>3, <3>1 DEF NoVerification, FIRST_SEQUENCE, Ends
  <2>2. CASE VerifyNext
    <3>1. a \in Nat \ {0} /\ Ends(a - 1, h) /\ h \in Events \cup {Genesis}
      BY <1>1 DEF VerifierAhead, AuditTypeOK
    <3>2. a <= n + 1
      BY <1>3, <3>1 DEF Ends
    <3>3. PICK b \in Nat : /\ a <= b /\ b <= n + 1
                           /\ Batch(a) = {x \in trail : a <= x.sequence /\ x.sequence < b}
      BY <1>1, <3>1, <3>2, BatchIsAStretch
    <3> DEFINE B == Batch(a)
               last == CHOOSE e \in B : \A x \in B : x.sequence <= e.sequence
    <3>4. Links(B, a, h)
      BY <3>1, <3>3, BatchLinks
    <3>5. Cardinality(B) = b - a
      <4>1. LET S == {x \in trail : a <= x.sequence /\ x.sequence < b}
            IN  Cardinality(S) = b - a
        BY <1>1, <3>1, <3>3, StretchSize
      <4> QED BY <3>3, <4>1
    <3>6. verifier' = [expected |-> a + Cardinality(B), previousHash |-> IF B = {} THEN h ELSE last.id,
                       verdict |-> IF Cardinality(B) < VerifyBatch THEN "verified" ELSE "running"]
      BY <2>2, <3>4 DEF VerifyNext
    <3>7. verifier'.expected = b /\ verifier'.verdict \in {"verified", "running"}
          /\ verifier'.previousHash = IF B = {} THEN h ELSE last.id
      <4> HIDE DEF B, last, a, h
      <4> QED BY <3>1, <3>3, <3>5, <3>6
    <3>8. CASE B = {}
      <4>1. b = a
        <5>1. Cardinality(B) = 0
          BY <3>8, FS_EmptySet
        <5> HIDE DEF B
        <5> QED BY <3>1, <3>3, <3>5, <5>1
      <4>2. verifier'.previousHash = h
        BY <3>7, <3>8
      <4> HIDE DEF B, last
      <4> QED BY <3>1, <3>6, <3>7, <4>1, <4>2
    <3>9. CASE B # {}
      <4>1. a < b
        <5>1. PICK x \in B : TRUE
          BY <3>9
        <5>2. x \in trail /\ a <= x.sequence /\ x.sequence < b
          BY <3>3
        <5> QED BY <1>3, <3>1, <5>2
      <4>2. b - 1 \in 1..n
        BY <1>3, <3>1, <3>3, <4>1
      <4>3. PICK x \in trail : x.sequence = b - 1
        BY <1>1, <4>2 DEF Numbered
      <4>4. x \in B
        BY <3>1, <3>3, <4>1, <4>3
      <4>5. \A y \in B : y.sequence <= x.sequence
        BY <1>3, <3>3, <4>3
      <4>6. last \in B /\ \A y \in B : y.sequence <= last.sequence
        <5> HIDE DEF B
        <5> QED BY <4>4, <4>5
      <4>7. last.sequence = b - 1 /\ last \in trail
        <5>1. last \in trail /\ last.sequence <= x.sequence /\ x.sequence <= last.sequence
          BY <3>3, <4>4, <4>5, <4>6
        <5> HIDE DEF last, B
        <5>2. last.sequence \in Nat /\ x.sequence \in Nat
          BY <1>3, <5>1
        <5> QED BY <4>3, <5>1, <5>2
      <4>8. verifier'.previousHash = last.id
        BY <3>7, <3>9
      <4> HIDE DEF B, last
      <4> QED BY <1>3, <3>3, <3>6, <3>7, <4>1, <4>2, <4>7, <4>8 DEF Ends
    <3> QED BY <3>8, <3>9
  <2> QED BY <2>1, <2>2
<1>6. AuditTypeOK'
  BY <1>1, <1>2, <1>5 DEF AuditTypeOK
<1>7. ChainUnbroken'
  BY <1>1, <1>2, <1>5 DEF ChainUnbroken
<1>8. VerifierAhead'
  BY <1>2, <1>5 DEF VerifierAhead, Ends
<1> QED BY <1>4, <1>6, <1>7, <1>8 DEF AuditInv

(* Every action on the trail keeps the invariant.                          *)
LEMMA AuditKept ==
  ASSUME AuditInv, AuditNext
  PROVE  AuditInv'
BY ReadTailKeeps, AppendEventKeeps, LoseRaceKeeps, SwallowKeeps, VerifyKeeps DEF AuditNext

(* The invariant of the audit trail holds of every behaviour.              *)
LEMMA AuditInvariant == Spec => []AuditInv
<1>1. Init => AuditInv
  BY AuditStart DEF Init
<1>2. AuditInv /\ [Next]_vars => AuditInv'
  <2> SUFFICES ASSUME AuditInv, [Next]_vars PROVE AuditInv'
    OBVIOUS
  <2>1. CASE AuditNext
    BY <2>1, AuditKept
  <2>2. CASE UNCHANGED audit
    BY <2>2 DEF AuditInv, audit, AuditTypeOK, ChainUnbroken, Numbered, WritersChained, VerifierAhead, Ends
  <2> QED BY <2>1, <2>2, AuditAlone
<1> QED BY <1>1, <1>2, PTL DEF Spec

(* However many writers race for the end of the trail, it is one unbroken  *)
(* chain from the genesis hash, with each event once; a verification of    *)
(* any batch size that runs meanwhile never finds it broken; and a writer  *)
(* gives up only after others recorded as many events as it had attempts   *)
(* (AuditService, verifyAuditChain).                                       *)
THEOREM AuditChainUnbroken == Spec => []ChainUnbroken
<1>1. AuditInv => ChainUnbroken
  BY DEF AuditInv
<1> QED BY <1>1, AuditInvariant, PTL

-----------------------------------------------------------------------------
(* Term deposits.                                                          *)

(* The types of a deposit and of a clerk.                                  *)
DepositRecord == [status : DepositStatuses, maturesOn : Nat, autoRollover : BOOLEAN, principal : Nat]
Clerk == [at : {"idle", "placing", "read", "closing"}, deposit : Deposits, movement : Movements,
          renewed : Deposits]

(* Only the term deposits' own actions write their variables.              *)
LEMMA DepositsAlone ==
  ASSUME [Next]_vars
  PROVE  DepositsNext \/ UNCHANGED termDeposits
BY DEF Next, vars, MandateStep, RequestStep, GoalStep, DisputeStep, DepositStep, AuditStep, FeeStep,
   InterestStep, OtherStep, ForAll

(* Every action on term deposits keeps their type.                         *)
LEMMA DepositsKept ==
  ASSUME today \in Days, DepositsTypeOK, DepositsNext
  PROVE  DepositsTypeOK'
<1>1. /\ deposit \in [Deposits -> DepositRecord] /\ liability \in [Deposits -> Int]
      /\ releases \in [Deposits -> SUBSET [movement : Movements, day : Days]]
      /\ clerk \in [Clerks -> Clerk]
  BY DEF DepositsTypeOK, DepositRecord, Clerk
<1>2. /\ Yield \in Nat /\ Term \in Nat /\ today \in Nat
      /\ \A d \in Deposits : /\ Principal[d] \in Nat /\ deposit[d] \in DepositRecord
                             /\ deposit[d].principal \in Nat
      /\ \A k \in Clerks : /\ clerk[k].deposit \in Deposits /\ clerk[k].movement \in Movements
                           /\ clerk[k].renewed \in Deposits
  BY <1>1, DepositAssumption, AccountAssumption DEF DepositRecord, Clerk, Days
<1>3. NoClerk \in Clerk /\ NoDeposit \in DepositRecord /\ SomeDeposit \in Deposits
  BY DepositAssumption DEF NoClerk, NoDeposit, Clerk, DepositRecord, SomeDeposit, Movements,
    DepositStatuses
<1>4. \A m \in Nat, roll \in BOOLEAN : NewDeposit(m, roll) \in DepositRecord
  BY <1>2 DEF NewDeposit, DepositRecord, DepositStatuses
<1>5. deposit' \in [Deposits -> DepositRecord]
  <2>1. ASSUME NEW d \in Deposits, NEW roll \in BOOLEAN, SetAutoRollover(d, roll)
        PROVE  deposit' \in [Deposits -> DepositRecord]
    BY <1>1, <2>1 DEF SetAutoRollover, DepositRecord
  <2>2. ASSUME NEW k \in Clerks, NEW d \in Deposits, Place(k, d)
        PROVE  deposit' \in [Deposits -> DepositRecord]
    <3>1. PICK roll \in BOOLEAN : deposit' = [deposit EXCEPT ![d] = NewDeposit(Principal[d], roll)]
      BY <2>2 DEF Place
    <3> QED BY <1>1, <1>2, <1>4, <3>1
  <2>3. ASSUME NEW k \in Clerks, NEW d2 \in Deposits, CloseDeposit(k, d2)
        PROVE  deposit' \in [Deposits -> DepositRecord]
    <3> DEFINE d == clerk[k].deposit
               closed == CASE clerk[k].movement = "BREAK" -> "BROKEN"
                           [] clerk[k].movement = "MATURITY" -> "MATURED"
                           [] clerk[k].movement = "ROLLOVER" -> "ROLLED_OVER"
               Patched == [deposit EXCEPT ![d].status = closed,
                                          ![d].autoRollover = @ /\ closed # "BROKEN"]
    <3>1. closed \in DepositStatuses /\ d \in Deposits
      BY <1>2 DEF Movements, DepositStatuses
    <3>2. Patched \in [Deposits -> DepositRecord]
      <4> HIDE DEF d, closed
      <4> QED BY <1>1, <3>1 DEF DepositRecord
    <3>3. \/ deposit' = [Patched EXCEPT ![d2] = NewDeposit(deposit[d].principal, TRUE)]
          \/ deposit' = Patched
      BY <2>3 DEF CloseDeposit
    <3>4. NewDeposit(deposit[d].principal, TRUE) \in DepositRecord
      BY <1>2, <1>4, <3>1
    <3> HIDE DEF Patched
    <3> QED BY <3>2, <3>3, <3>4
  <2>4. CASE Forget
    BY <1>3, <2>4 DEF Forget
  <2>5. CASE UNCHANGED deposit
    BY <1>1, <2>5
  <2> QED BY <2>1, <2>2, <2>3, <2>4, <2>5 DEF DepositsNext, CommitPlacement, CommitClosing, Abort,
                                             ReadToClose
<1>6. /\ liability' \in [Deposits -> Int]
      /\ releases' \in [Deposits -> SUBSET [movement : Movements, day : Days]]
  <2>1. ASSUME NEW k \in Clerks, CommitPlacement(k) 
        PROVE  liability' \in [Deposits -> Int] /\ releases' \in [Deposits -> SUBSET [movement : Movements, day : Days]]
    BY <1>1, <1>2, <2>1 DEF CommitPlacement
  <2>2. ASSUME NEW k \in Clerks, CommitClosing(k) 
        PROVE  liability' \in [Deposits -> Int] /\ releases' \in [Deposits -> SUBSET [movement : Movements, day : Days]]
    <3> DEFINE d == clerk[k].deposit
    <3>1. d \in Deposits /\ clerk[k].renewed \in Deposits /\ deposit[d].principal \in Int
          /\ liability[d] \in Int
      BY <1>1, <1>2
    <3>2. DepositReference(clerk[k].movement) \in [movement : Movements, day : Days]
      BY <1>2 DEF DepositReference
    <3>3. liability' \in [Deposits -> Int]
      BY <1>1, <2>2, <3>1 DEF CommitClosing
    <3>4. releases' = [releases EXCEPT ![d] = @ \cup {DepositReference(clerk[k].movement)}]
      BY <2>2 DEF CommitClosing
    <3>5. releases' \in [Deposits -> SUBSET [movement : Movements, day : Days]]
      <4> HIDE DEF d
      <4> QED BY <1>1, <3>1, <3>2, <3>4
    <3> QED BY <3>3, <3>5
  <2>3. CASE UNCHANGED <<liability, releases>>
    BY <1>1, <2>3
  <2> QED BY <2>1, <2>2, <2>3 DEF DepositsNext, Forget, SetAutoRollover, Abort, Place, CloseDeposit,
                                 ReadToClose
<1>7. clerk' \in [Clerks -> Clerk]
  <2>1. ASSUME NEW k \in Clerks, NEW d \in Deposits, Place(k, d) PROVE clerk' \in [Clerks -> Clerk]
    <3>1. [NoClerk EXCEPT !.at = "placing", !.deposit = d] \in Clerk
      BY <1>3 DEF Clerk
    <3> QED BY <1>1, <2>1, <3>1 DEF Place
  <2>2. ASSUME NEW k \in Clerks, NEW d \in Deposits, NEW movement \in Movements,
               ReadToClose(k, d, movement)
        PROVE  clerk' \in [Clerks -> Clerk]
    <3>1. [NoClerk EXCEPT !.at = "read", !.deposit = d, !.movement = movement] \in Clerk
      BY <1>3 DEF Clerk
    <3> QED BY <1>1, <2>2, <3>1 DEF ReadToClose
  <2>3. ASSUME NEW k \in Clerks, NEW d \in Deposits, CloseDeposit(k, d)
        PROVE  clerk' \in [Clerks -> Clerk]
    <3>1. clerk' = [clerk EXCEPT ![k].at = "closing", ![k].renewed = d]
      BY <2>3 DEF CloseDeposit
    <3> QED BY <1>1, <3>1 DEF Clerk
  <2>4. ASSUME NEW k \in Clerks, clerk' = [clerk EXCEPT ![k] = NoClerk]
        PROVE  clerk' \in [Clerks -> Clerk]
    BY <1>1, <1>3, <2>4
  <2>5. CASE Forget
    BY <1>3, <2>5 DEF Forget
  <2>6. CASE UNCHANGED clerk
    BY <1>1, <2>6
  <2> QED BY <2>1, <2>2, <2>3, <2>4, <2>5, <2>6 DEF DepositsNext, SetAutoRollover, CommitPlacement,
                                                   CommitClosing, Abort
<1> QED BY <1>5, <1>6, <1>7 DEF DepositsTypeOK, DepositRecord, Clerk

-----------------------------------------------------------------------------
(* The services together.                                                  *)

(* The account stays above its floor and below its bound, and what is held *)
(* of it is none of the services' doing.                                   *)
FundsKept == balance' \in Funds /\ UNCHANGED held

(* So it is after a debit that finds as much above the floor, or a credit  *)
(* within the bound.                                                       *)
LEMMA FundsStay ==
  ASSUME AccountTypeOK, NEW m \in Nat, \/ AboveFloor(m) /\ Debit(m)
                                       \/ Credit(m)
  PROVE  FundsKept
<1>1. MaxFunds \in Nat /\ balance \in 0..MaxFunds /\ Funds = 0..MaxFunds
  BY AccountAssumption DEF AccountTypeOK, Funds
<1>2. CASE AboveFloor(m) /\ Debit(m)
  BY <1>1, <1>2 DEF AboveFloor, Debit, FundsKept
<1>3. CASE Credit(m)
  BY <1>1, <1>3 DEF Credit, FundsKept
<1> QED BY <1>2, <1>3

(* What is spent is above the floor: the check counts holds in.            *)
LEMMA CoveredIsAbove ==
  ASSUME AccountTypeOK, NEW m \in Nat, Covers(m)
  PROVE  AboveFloor(m)
<1>1. balance \in Nat /\ held \in Nat
  BY AccountAssumption DEF AccountTypeOK, Funds, Holds
<1> QED BY <1>1 DEF Covers, AboveFloor

(* An entry moves its amount, or nothing when it is there already.         *)
LEMMA MovedValue ==
  ASSUME NEW entry, NEW m \in Nat
  PROVE  Moved(entry, m) \in Nat /\ Moved(entry, m) <= m /\ Moved(entry, m) \in {0, m}
BY DEF Moved

(* A debit of no more than what was found to be covered keeps the account  *)
(* above its floor.                                                        *)
LEMMA LessFunds ==
  ASSUME AccountTypeOK, NEW m \in Nat, NEW moved \in Nat, moved <= m, Covers(m), Debit(moved)
  PROVE  FundsKept
<1>1. balance \in Nat /\ balance >= m
  BY AccountAssumption, CoveredIsAbove DEF AccountTypeOK, Funds, AboveFloor
<1>2. AboveFloor(moved)
  BY <1>1 DEF AboveFloor
<1> QED BY <1>2, FundsStay

(* A collection or a refund keeps the account above its floor.     *)
LEMMA MandatesFunds ==
  ASSUME AccountTypeOK, MandatesTypeOK, MandatesNext
  PROVE  FundsKept
<1>1. AccountTypeOK
  OBVIOUS
<1>2. \A w \in Collectors : collector[w].amount \in Nat
  BY DEF MandatesTypeOK
<1>3. ASSUME NEW w \in Collectors, Collect(w) PROVE FundsKept
  <2> DEFINE x == collector[w].amount
             moved == Moved(debited[collector[w].mandate][today], x)
  <2>1. Covers(x) /\ Debit(moved)
    BY <1>3 DEF Collect, Taken
  <2>2. x \in Nat /\ moved \in Nat /\ moved <= x
    BY <1>2, MovedValue
  <2> HIDE DEF x, moved
  <2> QED BY <1>1, <2>1, <2>2, LessFunds
<1>4. ASSUME NEW w \in Collectors, Refund(w) PROVE FundsKept
  <2> DEFINE x == collector[w].amount
             moved == Moved(refunded[collector[w].mandate][collector[w].day], x)
  <2>1. Credit(moved)
    BY <1>4 DEF Refund
  <2>2. moved \in Nat
    BY <1>2, MovedValue
  <2> HIDE DEF moved
  <2> QED BY <1>1, <2>1, <2>2, FundsStay
<1>5. CASE UNCHANGED account
  BY <1>1, <1>5 DEF account, FundsKept, AccountTypeOK
<1> QED BY <1>3, <1>4, <1>5 DEF MandatesNext, SetUp, SetStatus, List, Ask, Dispute, GiveUp

(* Paying a request keeps the account above its floor.             *)
LEMMA RequestsFunds ==
  ASSUME AccountTypeOK, RequestsTypeOK, RequestsNext
  PROVE  FundsKept
<1>1. AccountTypeOK
  OBVIOUS
<1>2. ASSUME NEW r \in Requests, Pay(r) PROVE FundsKept
  <2> DEFINE m == RequestAmount[r]
             moved == Moved(paid[r], m)
  <2>1. m \in Nat
    BY RequestAssumption
  <2>2. Covers(m) /\ Debit(moved) /\ moved \in Nat /\ moved <= m
    BY <1>2, <2>1, MovedValue DEF Pay
  <2> HIDE DEF m, moved
  <2> QED BY <1>1, <2>1, <2>2, LessFunds
<1>3. CASE UNCHANGED account
  BY <1>1, <1>3 DEF account, FundsKept, AccountTypeOK
<1> QED BY <1>2, <1>3 DEF RequestsNext, Raise, Expire, Close, Nudge, CheckNudge

(* A movement of a goal keeps the account above its floor.         *)
LEMMA GoalsFunds ==
  ASSUME AccountTypeOK, GoalsNext
  PROVE  FundsKept
BY DEF AccountTypeOK, FundsKept, GoalsNext, Create, CloseGoal, SetAutoSave, Withdraw, Contribute, DebitVault,
       CreditVault, Settled, Reschedule, AbandonSaving, SaveOne, StartSaving, account

(* A provisional credit, its reversal or a payout leaves the account with  *)
(* funds it can have.                                                      *)
LEMMA DisputesFunds ==
  ASSUME AccountTypeOK, DisputesTypeOK, DisputesNext
  PROVE  FundsKept
<1>1. AccountTypeOK
  OBVIOUS
<1>2. /\ \A p \in Disputed : DisputedAmount[p] \in Nat
      /\ \A h \in Handlers : handler[h].payment \in Disputed /\ handler[h].read.provisionalCredit \in Nat
  BY DisputeAssumption DEF DisputesTypeOK, CaseFields
<1>3. ASSUME NEW p \in Disputed, OpenCase(p) PROVE FundsKept
  BY <1>1, <1>2, <1>3, FundsStay DEF OpenCase
<1>4. ASSUME NEW h \in Handlers, Win(h) PROVE FundsKept
  <2>1. CASE OwedPayout(handler[h].read)
    <3> DEFINE m == IF resolution[handler[h].payment] = "none"
                    THEN DisputedAmount[handler[h].payment] ELSE 0
    <3>1. m \in Nat
      BY <1>2
    <3>2. Credit(m)
      BY <1>4, <2>1 DEF Win
    <3> HIDE DEF m
    <3> QED BY <1>1, <3>1, <3>2, FundsStay
  <2>2. CASE ~OwedPayout(handler[h].read)
    BY <1>1, <1>4, <2>2 DEF Win, FundsKept, AccountTypeOK
  <2> QED BY <2>1, <2>2
<1>5. ASSUME NEW h \in Handlers, NEW outcome, NEW reverse \in BOOLEAN, Lose(h, outcome, reverse)
      PROVE  FundsKept
  <2> DEFINE parked == handler[h].read.provisionalCredit
  <2>1. parked \in Nat
    BY <1>2
  <2>2. (AboveFloor(parked) /\ Debit(parked)) \/ UNCHANGED <<balance, held>>
    BY <1>5 DEF Lose
  <2> HIDE DEF parked
  <2> QED BY <1>1, <2>1, <2>2, FundsStay DEF FundsKept, AccountTypeOK
<1>6. CASE UNCHANGED <<balance, held>>
  BY <1>1, <1>6 DEF FundsKept, AccountTypeOK
<1> QED BY <1>3, <1>4, <1>5, <1>6 DEF DisputesNext, Settle, Represent, Attach, WriteStatus, PutDown,
                                     Handle, account

(* Placing or closing a deposit keeps the account above its floor. *)
LEMMA DepositsFunds ==
  ASSUME AccountTypeOK, DepositsTypeOK, DepositsNext
  PROVE  FundsKept
<1>1. AccountTypeOK
  OBVIOUS
<1>2. /\ \A d \in Deposits : Principal[d] \in Nat /\ deposit[d].principal \in Nat
      /\ \A k \in Clerks : clerk[k].deposit \in Deposits /\ clerk[k].movement \in Movements
      /\ Yield \in Nat
  BY DepositAssumption DEF DepositsTypeOK
<1>3. ASSUME NEW k \in Clerks, CommitPlacement(k) PROVE FundsKept
  BY <1>1, <1>2, <1>3, FundsStay, CoveredIsAbove DEF CommitPlacement
<1>4. ASSUME NEW k \in Clerks, CommitClosing(k) PROVE FundsKept
  <2>1. PICK m \in Nat : Credit(m)
    <3> DEFINE p == deposit[clerk[k].deposit].principal
    <3>1. p \in Nat
      BY <1>2
    <3>2. Credit(0) \/ Credit(p) \/ Credit(p + Yield) \/ Credit(Yield)
      BY <1>2, <1>4 DEF CommitClosing, Movements
    <3> HIDE DEF p
    <3>3. 0 \in Nat /\ p + Yield \in Nat
      BY <1>2, <3>1
    <3> QED BY <1>2, <3>1, <3>2, <3>3
  <2> QED BY <1>1, <2>1, FundsStay
<1>5. CASE UNCHANGED account
  BY <1>1, <1>5 DEF account, FundsKept, AccountTypeOK
<1> QED BY <1>3, <1>4, <1>5 DEF DepositsNext, Forget, SetAutoRollover, Abort, Place, CloseDeposit,
                               ReadToClose

(* A charge keeps the account above its floor.                     *)
LEMMA FeesFunds ==
  ASSUME AccountTypeOK, FeesTypeOK, FeesNext
  PROVE  FundsKept
<1>1. AccountTypeOK
  OBVIOUS
<1>2. ASSUME NEW v \in Assessors, Charge(v) PROVE FundsKept
  <2> DEFINE fee == IF assessor[v].free THEN 0 ELSE Fee[assessor[v].key]
             moved == Moved(posted[assessor[v].key], fee)
  <2>1. fee \in Nat
    BY FeeAssumption DEF FeesTypeOK
  <2>2. AboveFloor(moved) /\ Debit(moved)
    BY <1>2 DEF Charge
  <2>3. moved \in Nat
    BY <2>1, MovedValue
  <2> HIDE DEF moved
  <2> QED BY <1>1, <2>2, <2>3, FundsStay
<1>3. CASE UNCHANGED account
  BY <1>1, <1>3 DEF account, FundsKept, AccountTypeOK
<1> QED BY <1>2, <1>3 DEF FeesNext, Assess, OpenWindow, Price, Count, Restart,
                               EndAssessment, NothingBooked

(* A capitalisation keeps the account above its floor.             *)
LEMMA InterestFunds ==
  ASSUME AccountTypeOK, InterestTypeOK, InterestNext
  PROVE  FundsKept
<1>1. AccountTypeOK
  OBVIOUS
<1>2. ASSUME NEW r \in Accruers, PostInterest(r) PROVE FundsKept
  <2> DEFINE m == Payable(accruer[r].read.numerator)
             moved == Moved(payout[accruer[r].for], m)
  <2>1. m \in Nat
    <3>1. accruer[r].read.numerator \in Nat
      BY DEF InterestTypeOK, AccrualState
    <3> QED BY <3>1, InterestAssumption DEF Payable
  <2>2. Credit(moved)
    BY <1>2 DEF PostInterest
  <2>3. moved \in Nat
    BY <2>1, MovedValue
  <2> HIDE DEF moved
  <2> QED BY <1>1, <2>2, <2>3, FundsStay
<1>3. CASE UNCHANGED account
  BY <1>1, <1>3 DEF account, FundsKept, AccountTypeOK
<1> QED BY <1>2, <1>3 DEF InterestNext, Accrue, Stamp, EndRun, StartAccrual, StartCapitalisation

(* Whatever is done keeps the account above its floor.             *)
LEMMA AccountKept ==
  ASSUME AccountTypeOK, MandatesTypeOK, RequestsTypeOK, DisputesTypeOK, DepositsTypeOK, FeesTypeOK,
         InterestTypeOK, [Next]_vars
  PROVE  AccountTypeOK'
<1>1. balance \in Funds /\ held \in Holds /\ today \in Days
  BY DEF AccountTypeOK
<1>2. today' \in Days
  BY <1>1, ClockTurns
<1>3. balance' \in Funds /\ held' \in Holds
  <2>1. CASE MandateStep \/ RequestStep \/ GoalStep \/ DisputeStep \/ DepositStep \/ FeeStep
             \/ InterestStep
    <3>1. FundsKept
      BY <2>1, MandatesFunds, RequestsFunds, GoalsFunds, DisputesFunds, DepositsFunds, FeesFunds,
         InterestFunds
         DEF MandateStep, RequestStep, GoalStep, DisputeStep, DepositStep, FeeStep, InterestStep
    <3> QED BY <1>1, <3>1 DEF FundsKept
  <2>2. CASE AuditStep \/ OtherStep \/ UNCHANGED vars
    BY <1>1, <2>2 DEF AuditStep, OtherStep, ForAll, NextDay, Elsewhere, vars, account
  <2> QED BY <2>1, <2>2 DEF Next
<1> QED BY <1>2, <1>3 DEF AccountTypeOK

(* What the services with an invariant of their own keep, and the rest of  *)
(* the type.                                                               *)
ServicesInv ==
  /\ RequestsInv /\ DisputesInv /\ InterestInv /\ GoalsInv /\ MandatesInv /\ FeesInv /\ AuditInv
Rest == used \in Customers /\ AccountTypeOK /\ DepositsTypeOK

(* A customer uses the same services from start to end.                    *)
LEMMA UsedStays ==
  ASSUME [Next]_vars
  PROVE  used' = used
BY DEF Next, vars, MandateStep, RequestStep, GoalStep, DisputeStep, DepositStep, AuditStep, FeeStep,
   InterestStep, OtherStep, ForAll, Serving

(* The services together stay within their types. What it says beyond that *)
(* is about the one account they share: no interleaving of collections,    *)
(* refunds, payments, savings, disputes, deposits, fees and interest takes *)
(* its ledger balance below the floor, whatever is held of it meanwhile: a *)
(* service that spends checks in its own step that the account covers it   *)
(* (assertSufficientFunds), and a fee or a reversal meets the floor of the *)
(* posting.  What is held may exceed the balance after either.             *)
THEOREM ServicesTypeCorrect == Spec => []TypeOK
<1>1. Spec => []ServicesInv
  BY RequestsInvariant, DisputesInvariant, InterestInvariant, GoalsInvariant, MandatesInvariant,
     FeesInvariant, AuditInvariant, PTL DEF ServicesInv
<1>2. Init => Rest
  <2> SUFFICES ASSUME Init PROVE Rest
    OBVIOUS
  <2>1. AccountTypeOK
    BY AccountAssumption DEF Init, AccountInit, AccountTypeOK, Days, Funds, Holds
  <2>2. NoClerk \in Clerk /\ NoDeposit \in DepositRecord
    BY DepositAssumption DEF NoClerk, NoDeposit, Clerk, DepositRecord, SomeDeposit, Movements,
      DepositStatuses
  <2>3. DepositsTypeOK
    BY <2>2 DEF Init, DepositsInit, DepositsTypeOK, Clerk, DepositRecord
  <2> QED BY <2>1, <2>3 DEF Init, Rest
<1>3. ServicesInv /\ Rest /\ [Next]_vars => Rest'
  <2> SUFFICES ASSUME ServicesInv, Rest, [Next]_vars PROVE Rest'
    OBVIOUS
  <2>1. used' \in Customers
    BY UsedStays DEF Rest
  <2>2. AccountTypeOK'
    BY AccountKept DEF Rest, ServicesInv, RequestsInv, DisputesInv, InterestInv, MandatesInv, FeesInv
  <2>3. DepositsTypeOK'
    <3>1. CASE DepositsNext
      BY <3>1, DepositsKept DEF Rest, AccountTypeOK
    <3>2. CASE UNCHANGED termDeposits
      BY <3>2 DEF Rest, DepositsTypeOK, termDeposits
    <3> QED BY <3>1, <3>2, DepositsAlone
  <2> QED BY <2>1, <2>2, <2>3 DEF Rest
<1>4. ServicesInv /\ Rest => TypeOK
  BY DEF ServicesInv, Rest, TypeOK, RequestsInv, DisputesInv, InterestInv, GoalsInv, MandatesInv,
     FeesInv, AuditInv
<1> QED BY <1>1, <1>2, <1>3, <1>4, PTL DEF Spec
=============================================================================
