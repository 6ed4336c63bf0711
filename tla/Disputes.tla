-------------------------------- MODULE Disputes --------------------------------
(***************************************************************************)
(* Disputes (disputes/): the bank credits a disputed payment provisionally *)
(* when the case is raised, and a decision keeps that credit or takes it   *)
(* back.                                                                   *)
(*                                                                         *)
(* Whoever acts on a case - the customer withdrawing or sending evidence,  *)
(* an investigator deciding, a reader who brings in the merchant's answer  *)
(* once it is due - reads it, checks that it is open, and later writes,    *)
(* under no condition.  A decision is one transaction with the entries it  *)
(* owes, worked out from the case as it was read.  Entries have references *)
(* made of the case, so each is there once.                                *)
(***************************************************************************)
EXTENDS CustomerAccount

CONSTANTS
  Disputed,         \* payments the customer may dispute, one case for each
  DisputedAmount,   \* DisputedAmount[p]: DisputeRecord.disputedAmount
  MerchantDays,     \* MERCHANT_RESPONSE_DAYS
  Handlers          \* those acting on cases at the same time

ASSUME DisputeAssumption ==
  /\ Disputed # {}
  /\ DisputedAmount \in [Disputed -> Nat \ {0}] /\ MerchantDays \in Nat

VARIABLES
  case,        \* the documents
  credited,    \* credited[p]: entry DSP-PC-p is posted
  takenBack,   \* takenBack[p]: DSP-PC-p has been reversed
  resolution,  \* resolution[p]: what entry DSP-RS-p is, none if there is none
  handler      \* what those who act have read

disputeEntries == <<credited, takenBack, resolution>>
disputes       == <<case, credited, takenBack, resolution, handler>>

AWAITING_MERCHANT_STATUSES == {"SUBMITTED", "UNDER_REVIEW", "EVIDENCE_REQUESTED"}
OPEN_STATUSES     == AWAITING_MERCHANT_STATUSES \cup {"REPRESENTED", "ARBITRATION"}
TERMINAL_STATUSES == {"WON", "LOST", "WITHDRAWN"}
DisputeStatus     == {"NONE"} \cup OPEN_STATUSES \cup TERMINAL_STATUSES

Resolutions == {"none", "recovered", "absorbed", "paid out"}
CaseFields  == [status : DisputeStatus, provisionalCredit : Nat, responseDueAt : Nat,
                contested : BOOLEAN]
NoCase      == [status |-> "NONE", provisionalCredit |-> 0, responseDueAt |-> 0,
                contested |-> FALSE]
Acts        == {"nothing", "withdraw", "decide", "advance", "attach"}
NoHandler   == [act |-> "nothing", payment |-> CHOOSE p \in Disputed : TRUE, read |-> NoCase]

-----------------------------------------------------------------------------
(* Plausible mistakes, each named after the definition it would replace.   *)

OwedPayout_Always(read) == TRUE

-----------------------------------------------------------------------------
(* open: the case, the credit and UNDER_REVIEW in one transaction; one     *)
(* case to a payment (unique transactionId).  The id minted for the case   *)
(* settles what the simulated merchant will answer.                        *)
OpenCase(p) ==
  /\ case[p].status = "NONE"
  /\ Credit(DisputedAmount[p]) /\ UNCHANGED today
  /\ credited' = [credited EXCEPT ![p] = TRUE]
  /\ \E answer \in BOOLEAN :
       case' = [case EXCEPT ![p] = [status |-> "UNDER_REVIEW", contested |-> answer,
                                    provisionalCredit |-> DisputedAmount[p],
                                    responseDueAt |-> today + MerchantDays]]
  /\ UNCHANGED <<takenBack, resolution, handler>>

(* The case as whoever is about to act finds it: open, or, for the         *)
(* merchant's answer, waiting for it and due.                              *)
AnswerDue(p) ==
  case[p].status \in AWAITING_MERCHANT_STATUSES /\ case[p].responseDueAt <= today
Handle(h, p, act) ==
  /\ handler[h].act = "nothing" /\ act # "nothing"
  /\ IF act = "advance" THEN AnswerDue(p) ELSE case[p].status \in OPEN_STATUSES
  /\ handler' = [handler EXCEPT ![h] = [act |-> act, payment |-> p, read |-> case[p]]]
  /\ UNCHANGED <<account, case, disputeEntries>>

(* represent; attach, which answers a representment.                       *)
statusAfterEvidenceOn(s) == IF s = "REPRESENTED" THEN "ARBITRATION" ELSE s
WriteStatus(h, s) ==
  /\ case' = [case EXCEPT ![handler[h].payment].status = s]
  /\ handler' = [handler EXCEPT ![h] = NoHandler]
  /\ UNCHANGED <<account, disputeEntries>>
Represent(h) ==
  /\ handler[h].act = "advance" /\ handler[h].read.contested
  /\ WriteStatus(h, "REPRESENTED")
Attach(h) ==
  /\ handler[h].act = "attach"
  /\ WriteStatus(h, statusAfterEvidenceOn(handler[h].read.status))

-----------------------------------------------------------------------------
(* settle: what a decision owes (book), and the decision, in one           *)
(* transaction; all but the fields written is as it is by now.             *)

Resolve(p, kind) == resolution' = [resolution EXCEPT ![p] = IF @ = "none" THEN kind ELSE @]
Decided(h, outcome, credit) ==
  /\ case' = [case EXCEPT ![handler[h].payment] =
                [@ EXCEPT !.status = outcome, !.provisionalCredit = credit]]
  /\ handler' = [handler EXCEPT ![h] = NoHandler]
  /\ UNCHANGED <<credited, today>>

(* settleWon: the credit becomes permanent, or, when it was taken back     *)
(* already, the amount is paid out.                                        *)
OwedPayout(read) == read.provisionalCredit = 0
Win(h) ==
  LET p == handler[h].payment IN
  /\ IF OwedPayout(handler[h].read)
     THEN /\ Resolve(p, "paid out")
          /\ Credit(IF resolution[p] = "none" THEN DisputedAmount[p] ELSE 0)
     ELSE Resolve(p, "recovered") /\ UNCHANGED <<balance, held>>
  /\ Decided(h, "WON", case[p].provisionalCredit)
  /\ UNCHANGED takenBack

(* Not won, nothing to take back; absorbLoss; reverseProvisionalCredit,    *)
(* which nothing but the floor of the ledger balance may refuse.           *)
Lose(h, outcome, reverse) ==
  LET p == handler[h].payment
      parked == handler[h].read.provisionalCredit
  IN
  \/ /\ parked = 0
     /\ Decided(h, outcome, case[p].provisionalCredit)
     /\ UNCHANGED <<balance, held, takenBack, resolution>>
  \/ /\ parked > 0 /\ ~reverse
     /\ Resolve(p, "absorbed")
     /\ Decided(h, outcome, case[p].provisionalCredit)
     /\ UNCHANGED <<balance, held, takenBack>>
  \/ /\ parked > 0 /\ reverse
     /\ ~takenBack[p] /\ AboveFloor(parked) /\ Debit(parked)
     /\ takenBack' = [takenBack EXCEPT ![p] = TRUE]
     /\ Decided(h, outcome, 0)
     /\ UNCHANGED resolution

(* decide; withdraw; upholdAgainstMerchant.                                *)
Settle(h) ==
  \/ /\ handler[h].act = "decide"
     /\ \/ Win(h)
        \/ \E outcome \in {"LOST", "WITHDRAWN"}, reverse \in BOOLEAN : Lose(h, outcome, reverse)
  \/ handler[h].act = "withdraw" /\ Lose(h, "WITHDRAWN", TRUE)
  \/ handler[h].act = "advance" /\ ~handler[h].read.contested /\ Win(h)

(* A refused reversal, a failed write, the death of the process.           *)
PutDown(h) ==
  /\ handler[h].act # "nothing"
  /\ handler' = [handler EXCEPT ![h] = NoHandler]
  /\ UNCHANGED <<account, case, disputeEntries>>

-----------------------------------------------------------------------------
DisputesInit ==
  /\ case = [p \in Disputed |-> NoCase]
  /\ credited = [p \in Disputed |-> FALSE] /\ takenBack = [p \in Disputed |-> FALSE]
  /\ resolution = [p \in Disputed |-> "none"]
  /\ handler = [h \in Handlers |-> NoHandler]

DisputesNext ==
  \/ \E p \in Disputed : OpenCase(p)
  \/ \E h \in Handlers :
       \/ Represent(h) \/ Attach(h) \/ Settle(h) \/ PutDown(h)
       \/ \E p \in Disputed, act \in Acts : Handle(h, p, act)

DisputesTypeOK ==
  /\ case \in [Disputed -> CaseFields]
  /\ credited \in [Disputed -> BOOLEAN] /\ takenBack \in [Disputed -> BOOLEAN]
  /\ resolution \in [Disputed -> Resolutions]
  /\ handler \in [Handlers -> [act : Acts, payment : Disputed, read : CaseFields]]

(* Although decisions, withdrawals, answers and evidence write over each   *)
(* other, and can open a decided case again, the customer is never given   *)
(* the disputed amount twice and never loses what was not given: it is     *)
(* paid out only after it was taken back, and what the case says is parked *)
(* with the customer still is.                                             *)
CreditedOnce ==
  \A p \in Disputed :
    /\ takenBack[p] => credited[p]
    /\ resolution[p] = "paid out" => takenBack[p]
    /\ case[p].provisionalCredit =
         IF credited[p] /\ ~takenBack[p] THEN DisputedAmount[p] ELSE 0
=============================================================================
