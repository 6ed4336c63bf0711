---------------------------- MODULE PaymentRequests ----------------------------
(***************************************************************************)
(* Payment requests (payment-requests/): a customer asks to be paid, and   *)
(* somebody pays from the account, declines, or lets the request lapse.    *)
(*                                                                         *)
(* What a request needs to be paid is checked twice: on the request as     *)
(* read, and by the condition of the write that ends the transaction; the  *)
(* first check can only refuse, so a payment is one step here.  A reminder *)
(* is a check and a write that does not repeat it, and so two steps.  The  *)
(* requests of a split bill are requests like any other.                   *)
(***************************************************************************)
EXTENDS CustomerAccount

CONSTANTS
  Requests,
  RequestAmount,  \* RequestAmount[r]: PaymentRequest.amount
  RequestLife,    \* days from its creation to expiresAt
  MaxNudges,      \* MAX_NUDGES
  Reminders       \* reminders being sent at the same time

ASSUME RequestAssumption ==
  /\ RequestAmount \in [Requests -> Nat \ {0}]
  /\ RequestLife \in Nat \ {0} /\ MaxNudges \in Nat

VARIABLES
  request,   \* the documents
  paid,      \* paid[r]: amount of entry req:r, Unposted if there is none
  reminder   \* the request a reminder was found in order for, None otherwise

requests == <<request, paid, reminder>>

LIVE_STATUSES        == {"OPEN"}
PaymentRequestStatus == {"NONE", "OPEN", "PAID", "DECLINED", "CANCELLED", "EXPIRED"}
NoDay     == 0
NoRequest == [status |-> "NONE", expiresAt |-> NoDay, nudgeCount |-> 0, lastNudgedAt |-> NoDay]
NotSent   == "none"

ASSUME NotSentAssumption == NotSent \notin Requests

-----------------------------------------------------------------------------
(* Plausible mistakes, each named after the definition it would replace.   *)

Transition_AnyStatus(r, status, live) == live
Transition_Unexpired(r, status, live) ==
  request[r].status \in LIVE_STATUSES /\ live /\ request[r].expiresAt > today

-----------------------------------------------------------------------------
(* create; early enough to see the end of its life (a bound).              *)
Raise(r) ==
  /\ request[r].status = "NONE" /\ today + RequestLife <= MaxDay
  /\ request' = [request EXCEPT ![r].status = "OPEN", ![r].expiresAt = today + RequestLife]
  /\ UNCHANGED <<account, paid, reminder>>

(* PaymentRequestRepository.transition: a write under a condition on the   *)
(* status, and on the expiry where the caller asks for it.                 *)
Live(r)   == request[r].expiresAt > today
Lapsed(r) == request[r].expiresAt <= today
Transition(r, status, live) == request[r].status \in LIVE_STATUSES /\ live

(* pay: the transfer under the request's reference, and PAID, in one       *)
(* transaction.                                                            *)
Pay(r) ==
  /\ request[r].status # "NONE"
  /\ Covers(RequestAmount[r])
  /\ Transition(r, "PAID", Live(r))
  /\ Debit(Moved(paid[r], RequestAmount[r])) /\ UNCHANGED today
  /\ paid' = [paid EXCEPT ![r] = Posting(@, RequestAmount[r])]
  /\ request' = [request EXCEPT ![r].status = "PAID"]
  /\ UNCHANGED reminder

(* close: by who raised it, or by who was asked.  Reading it first ends a  *)
(* request that has lapsed; the write does not ask whether it has since.   *)
Close(r, status) ==
  /\ status \in {"CANCELLED", "DECLINED"}
  /\ request[r].status # "NONE" /\ Transition(r, status, TRUE)
  /\ request' = [request EXCEPT ![r].status = status]
  /\ UNCHANGED <<account, paid, reminder>>

(* expireLapsed, and settleLapsed of whoever reads the request.  What has  *)
(* lapsed when it is listed still has when it is written.                  *)
Expire(r) ==
  /\ request[r].status # "NONE" /\ Lapsed(r) /\ Transition(r, "EXPIRED", TRUE)
  /\ request' = [request EXCEPT ![r].status = "EXPIRED"]
  /\ UNCHANGED <<account, paid, reminder>>

(* nudge: the count and the time of the last are checked on what was read, *)
(* and the write asks for neither.                                         *)
CheckNudge(n, r) ==
  /\ reminder[n] = NotSent
  /\ request[r].status \in LIVE_STATUSES /\ Live(r)
  /\ request[r].nudgeCount < MaxNudges /\ request[r].lastNudgedAt < today
  /\ reminder' = [reminder EXCEPT ![n] = r]
  /\ UNCHANGED <<account, request, paid>>

Nudge(n) ==
  LET r == reminder[n] IN
  /\ r # NotSent
  /\ \/ /\ request[r].status \in LIVE_STATUSES
        /\ request' = [request EXCEPT ![r].nudgeCount = @ + 1, ![r].lastNudgedAt = today]
     \/ request[r].status \notin LIVE_STATUSES /\ UNCHANGED request
  /\ reminder' = [reminder EXCEPT ![n] = NotSent]
  /\ UNCHANGED <<account, paid>>

-----------------------------------------------------------------------------
RequestsInit ==
  /\ request = [r \in Requests |-> NoRequest]
  /\ paid = [r \in Requests |-> Unposted]
  /\ reminder = [n \in Reminders |-> NotSent]

RequestsNext ==
  \/ \E r \in Requests : \/ Raise(r) \/ Pay(r) \/ Expire(r)
                         \/ \E s \in PaymentRequestStatus : Close(r, s)
  \/ \E n \in Reminders : Nudge(n) \/ \E r \in Requests : CheckNudge(n, r)

RequestsTypeOK ==
  /\ request \in [Requests -> [status : PaymentRequestStatus, expiresAt : Nat,
                               nudgeCount : Nat, lastNudgedAt : {NoDay} \cup Days]]
  /\ paid \in [Requests -> Nat]
  /\ reminder \in [Reminders -> Requests \cup {NotSent}]

(* A request is PAID exactly when its transfer is in the journal, for what *)
(* was asked: of a payment, a refusal, a withdrawal and an expiry at the   *)
(* same time, one happens, and only a payment moves money.                 *)
PaidExactly ==
  \A r \in Requests :
    paid[r] = IF request[r].status = "PAID" THEN RequestAmount[r] ELSE Unposted

(* A request that was raised ends: it is answered, or the expiry task does *)
(* it once its life is over.  A request is raised once, so they all end if *)
(* time and again there is none that is open.                              *)
RequestsEnd == []<>(\A r \in Requests : request[r].status # "OPEN")
=============================================================================
