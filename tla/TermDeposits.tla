------------------------------ MODULE TermDeposits ------------------------------
(***************************************************************************)
(* Term deposits (deposits/): placed from the account for a term, broken   *)
(* early, paid out or renewed when they mature.                            *)
(*                                                                         *)
(* Every movement is one transaction of a record and an entry.  The module *)
(* binds DepositStore to InMemoryDepositStore, which keeps the records in  *)
(* the process and ignores the session: a record is written at once, the   *)
(* entry when the transaction commits, and an abort undoes only the entry. *)
(* A retry of the transaction is another call.  Interest on a broken       *)
(* deposit is taken to be none.                                            *)
(***************************************************************************)
EXTENDS CustomerAccount

CONSTANTS
  Deposits,
  Principal,     \* Principal[d]: DepositRecord.principal
  Yield,         \* interest at maturity
  Term,          \* days from placedOn to maturesOn
  Clerks         \* calls under way at the same time

ASSUME DepositAssumption ==
  /\ Deposits # {}
  /\ Principal \in [Deposits -> Nat \ {0}] /\ Yield \in Nat /\ Term \in Nat \ {0}

VARIABLES
  deposit,   \* the records in InMemoryDepositStore
  liability, \* liability[d]: what the journal holds for d in GL Term Deposits
  releases,  \* releases[d]: references of committed entries that paid d out
  clerk      \* the transactions

termDeposits == <<deposit, liability, releases, clerk>>

DepositStatuses == {"NONE", "ACTIVE", "MATURED", "BROKEN", "ROLLED_OVER"}
Movements == {"BREAK", "MATURITY", "ROLLOVER"}
NoDeposit == [status |-> "NONE", maturesOn |-> 0, autoRollover |-> FALSE, principal |-> 0]
SomeDeposit == CHOOSE d \in Deposits : TRUE
NoClerk   == [at |-> "idle", deposit |-> SomeDeposit, movement |-> "BREAK", renewed |-> SomeDeposit]

Active(d) == deposit[d].status = "ACTIVE"
Unused(d) == deposit[d].status = "NONE" /\ liability[d] = 0 /\ releases[d] = {}

-----------------------------------------------------------------------------
(* placeWithin: the funds are checked and the record inserted; the posting *)
(* checks again, and the account's status only then.                       *)
NewDeposit(m, roll) ==
  [status |-> "ACTIVE", maturesOn |-> today + Term, autoRollover |-> roll, principal |-> m]
Place(k, d) ==
  /\ clerk[k].at = "idle" /\ Unused(d)
  /\ Covers(Principal[d])
  /\ \E roll \in BOOLEAN :
       deposit' = [deposit EXCEPT ![d] = NewDeposit(Principal[d], roll)]
  /\ clerk' = [clerk EXCEPT ![k] = [NoClerk EXCEPT !.at = "placing", !.deposit = d]]
  /\ UNCHANGED <<account, liability, releases>>

CommitPlacement(k) ==
  LET d == clerk[k].deposit IN
  /\ clerk[k].at = "placing"
  /\ Covers(Principal[d]) /\ Debit(Principal[d]) /\ UNCHANGED today
  /\ liability' = [liability EXCEPT ![d] = Principal[d]]
  /\ clerk' = [clerk EXCEPT ![k] = NoClerk]
  /\ UNCHANGED <<deposit, releases>>

SetAutoRollover(d, roll) ==
  /\ Active(d)
  /\ deposit' = [deposit EXCEPT ![d].autoRollover = roll]
  /\ UNCHANGED <<account, liability, releases, clerk>>

-----------------------------------------------------------------------------
(* breakWithin and matureWithin: the deposit is read and must be active;   *)
(* a maturity run has listed it as due.                                    *)
ReadToClose(k, d, movement) ==
  /\ clerk[k].at = "idle" /\ Active(d)
  /\ movement # "BREAK" =>
       /\ deposit[d].maturesOn <= today
       /\ movement = IF deposit[d].autoRollover THEN "ROLLOVER" ELSE "MATURITY"
  /\ clerk' = [clerk EXCEPT ![k] = [NoClerk EXCEPT !.at = "read", !.deposit = d,
                                                   !.movement = movement]]
  /\ UNCHANGED <<account, deposit, liability, releases>>

(* The entry is posted in the transaction - two that write the account at  *)
(* the same time conflict - and then the records are: the renewed deposit  *)
(* and the old one.                                                        *)
CloseDeposit(k, d2) ==
  LET d == clerk[k].deposit
      closed == CASE clerk[k].movement = "BREAK" -> "BROKEN"
                  [] clerk[k].movement = "MATURITY" -> "MATURED"
                  [] clerk[k].movement = "ROLLOVER" -> "ROLLED_OVER"
      Patched == [deposit EXCEPT ![d].status = closed,
                                 ![d].autoRollover = @ /\ closed # "BROKEN"]
  IN
  /\ clerk[k].at = "read"
  /\ \A j \in Clerks : clerk[j].at # "closing"
  /\ deposit[d].status # "NONE"
  /\ IF clerk[k].movement = "ROLLOVER"
     THEN /\ Unused(d2)
          /\ deposit' = [Patched EXCEPT ![d2] = NewDeposit(deposit[d].principal, TRUE)]
     ELSE d2 = d /\ deposit' = Patched
  /\ clerk' = [clerk EXCEPT ![k].at = "closing", ![k].renewed = d2]
  /\ UNCHANGED <<account, liability, releases>>

DepositReference(movement) == [movement |-> movement, day |-> today]
CommitClosing(k) ==
  LET d == clerk[k].deposit
      movement == clerk[k].movement
      fresh == DepositReference(movement) \notin releases[d]
      paid == IF ~fresh THEN 0
              ELSE CASE movement = "BREAK" -> deposit[d].principal
                     [] movement = "MATURITY" -> deposit[d].principal + Yield
                     [] movement = "ROLLOVER" -> Yield
  IN
  /\ clerk[k].at = "closing"
  /\ Credit(paid) /\ UNCHANGED today
  /\ releases' = [releases EXCEPT ![d] = @ \cup {DepositReference(movement)}]
  /\ liability' = IF movement = "ROLLOVER"
                  THEN [liability EXCEPT ![d] = 0, ![clerk[k].renewed] = liability[d]]
                  ELSE [liability EXCEPT ![d] = IF fresh THEN @ - deposit[d].principal ELSE @]
  /\ clerk' = [clerk EXCEPT ![k] = NoClerk]
  /\ UNCHANGED deposit

(* A refused posting, an exhausted transaction: nothing is posted, and     *)
(* the records stay as they were written.                                  *)
Abort(k) ==
  /\ clerk[k].at # "idle"
  /\ clerk' = [clerk EXCEPT ![k] = NoClerk]
  /\ UNCHANGED <<account, deposit, liability, releases>>

(* The process restarts: the records are gone.                             *)
Forget ==
  /\ \E d \in Deposits : deposit[d].status # "NONE"
  /\ deposit' = [d \in Deposits |-> NoDeposit]
  /\ clerk' = [k \in Clerks |-> NoClerk]
  /\ UNCHANGED <<account, liability, releases>>

-----------------------------------------------------------------------------
DepositsInit ==
  /\ deposit = [d \in Deposits |-> NoDeposit]
  /\ liability = [d \in Deposits |-> 0]
  /\ releases = [d \in Deposits |-> {}]
  /\ clerk = [k \in Clerks |-> NoClerk]

DepositsNext ==
  \/ Forget
  \/ \E d \in Deposits, roll \in BOOLEAN : SetAutoRollover(d, roll)
  \/ \E k \in Clerks :
       \/ CommitPlacement(k) \/ CommitClosing(k) \/ Abort(k)
       \/ \E d \in Deposits :
            \/ Place(k, d) \/ CloseDeposit(k, d)
            \/ \E movement \in Movements : ReadToClose(k, d, movement)

DepositsTypeOK ==
  /\ deposit \in [Deposits -> [status : DepositStatuses, maturesOn : Nat,
                               autoRollover : BOOLEAN, principal : Nat]]
  /\ liability \in [Deposits -> Int]
  /\ releases \in [Deposits -> SUBSET [movement : Movements, day : Days]]
  /\ clerk \in [Clerks -> [at : {"idle", "placing", "read", "closing"}, deposit : Deposits,
                           movement : Movements, renewed : Deposits]]

(* "The record and the posting share one transaction and neither survives  *)
(* the other failing" (deposit.service.ts): an active deposit is funded,   *)
(* but for the moment in which its transaction is under way.               *)
EveryDepositFunded ==
  \A d \in Deposits : Active(d) =>
    \/ liability[d] = deposit[d].principal
    \/ \E k \in Clerks : \/ clerk[k].at = "placing" /\ clerk[k].deposit = d
                         \/ clerk[k].at = "closing" /\ clerk[k].renewed = d
=============================================================================
