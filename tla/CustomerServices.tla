---------------------------- MODULE CustomerServices ----------------------------
(***************************************************************************)
(* The services around one current account, together: they share the       *)
(* business day and the account's balance and holds, and otherwise keep to *)
(* their own collections and their own journal references.  Every step of  *)
(* any of them may come between two steps of another.                      *)
(*                                                                         *)
(* The customer of a behaviour uses one set of services from start to end. *)
(***************************************************************************)
EXTENDS Mandates, PaymentRequests, SavingsGoals, Disputes, TermDeposits, AuditTrail,
        Fees, Interest

CONSTANT Customers   \* bound: the sets of services that customers use

Services == {"mandates", "requests", "goals", "disputes", "deposits", "audit", "fees", "interest"}

ASSUME CustomersAssumption == Customers \subseteq SUBSET Services

VARIABLE used        \* the services of this customer

vars == <<used, account, mandates, requests, goals, disputes, termDeposits, audit, fees,
          interest>>

(* A step of one service, which leaves the books of the others alone.      *)
Serving(service) ==
  /\ service \in used
  /\ UNCHANGED used

-----------------------------------------------------------------------------
MandateStep ==
  /\ Serving("mandates") /\ MandatesNext
  /\ UNCHANGED <<requests, goals, disputes, termDeposits, audit, fees, interest>>
RequestStep ==
  /\ Serving("requests") /\ RequestsNext
  /\ UNCHANGED <<mandates, goals, disputes, termDeposits, audit, fees, interest>>
GoalStep ==
  /\ Serving("goals") /\ GoalsNext
  /\ UNCHANGED <<mandates, requests, disputes, termDeposits, audit, fees, interest>>
DisputeStep ==
  /\ Serving("disputes") /\ DisputesNext
  /\ UNCHANGED <<mandates, requests, goals, termDeposits, audit, fees, interest>>
DepositStep ==
  /\ Serving("deposits") /\ DepositsNext
  /\ UNCHANGED <<mandates, requests, goals, disputes, audit, fees, interest>>
AuditStep ==
  /\ Serving("audit") /\ AuditNext
  /\ UNCHANGED <<account, mandates, requests, goals, disputes, termDeposits, fees, interest>>
FeeStep ==
  /\ Serving("fees") /\ FeesNext
  /\ UNCHANGED <<mandates, requests, goals, disputes, termDeposits, audit, interest>>
InterestStep ==
  /\ Serving("interest") /\ InterestNext
  /\ UNCHANGED <<mandates, requests, goals, disputes, termDeposits, audit, fees>>

(* The day turns, or other money comes or goes, for all of them alike.     *)
ForAll(step) ==
  step /\ UNCHANGED <<used, mandates, requests, goals, disputes, termDeposits, audit, fees,
                      interest>>
OtherStep == ForAll(NextDay) \/ ForAll(Elsewhere)

Init ==
  /\ used \in Customers /\ AccountInit
  /\ MandatesInit /\ RequestsInit /\ GoalsInit /\ DisputesInit /\ DepositsInit
  /\ AuditInit /\ FeesInit /\ InterestInit

Next ==
  \/ MandateStep \/ RequestStep \/ GoalStep \/ DisputeStep \/ DepositStep
  \/ AuditStep \/ FeeStep \/ InterestStep \/ OtherStep

(* Days pass, and PaymentRequestExpiryTask, which the scheduler starts at  *)
(* an interval, comes to every request that has lapsed.                    *)
ExpiryStep(r) ==
  /\ Serving("requests") /\ Expire(r)
  /\ UNCHANGED <<mandates, goals, disputes, termDeposits, audit, fees, interest>>
Fairness == WF_vars(ForAll(NextDay)) /\ \A r \in Requests : WF_vars(ExpiryStep(r))

Spec == Init /\ [][Next]_vars /\ Fairness

TypeOK ==
  /\ used \in Customers /\ AccountTypeOK
  /\ MandatesTypeOK /\ RequestsTypeOK /\ GoalsTypeOK /\ DisputesTypeOK /\ DepositsTypeOK
  /\ AuditTypeOK /\ FeesTypeOK /\ InterestTypeOK
=============================================================================
