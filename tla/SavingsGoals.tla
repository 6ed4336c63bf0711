------------------------------ MODULE SavingsGoals ------------------------------
(***************************************************************************)
(* Savings goals (savings-goals/): pots of money beside the account, which *)
(* the customer fills and empties, round-ups and automatic savings fill,   *)
(* and closing empties.                                                    *)
(*                                                                         *)
(* Every movement is one transaction: an entry under a reference made of   *)
(* the goal, the kind, the day and the number of the movement, and the     *)
(* goal's amount.  An automatic saving pass makes one such transaction for *)
(* every occurrence it missed and writes the next date at the end, as the  *)
(* goal's schedule was when the last transaction returned it.              *)
(***************************************************************************)
EXTENDS CustomerAccount

CONSTANTS
  Goals,
  Savers,        \* automatic saving passes under way at the same time
  Contributions, \* amounts moved
  SavePeriod,        \* days between automatic savings
  MaxMovements   \* bound: movements of a goal

ASSUME GoalAssumption ==
  /\ Goals # {} /\ Contributions \subseteq Nat \ {0}
  /\ SavePeriod \in Nat \ {0} /\ MaxMovements \in Nat

VARIABLES
  goal,    \* the documents
  vault,   \* vault[g]: what the journal holds in the goal's name
  booked,  \* booked[g]: references of its entries
  saver    \* the automatic saving passes

goals == <<goal, vault, booked, saver>>

NoSchedule == 0
Kinds      == {"CONT", "AUTO", "WDR"}
References == [kind : Kinds, day : Days, sequence : 1..MaxMovements]
NoGoal     == [status |-> "NONE", currentAmount |-> 0, movementCount |-> 0,
               nextRunOn |-> NoSchedule]
NoPass     == [at |-> "idle", goal |-> CHOOSE g \in Goals : TRUE, left |-> 0,
               lastRun |-> 1, nextRunOn |-> NoSchedule]

-----------------------------------------------------------------------------
(* Plausible mistakes, each named after the definition it would replace.   *)

Reference_OfDay(g, kind) == [kind |-> kind, day |-> today, sequence |-> 1]

-----------------------------------------------------------------------------
(* Vault movements.                                                        *)

Open(g) == goal[g].status = "OPEN"
Reference(g, kind) == [kind |-> kind, day |-> today, sequence |-> goal[g].movementCount + 1]

(* moveWithin: the entry, once under its reference, and the goal under a   *)
(* condition that it is open and as it was read (in this transaction).     *)
Settled(g, kind, m) ==
  LET ref == Reference(g, kind)
      moved == IF ref \in booked[g] THEN 0 ELSE m
  IN
  /\ Open(g) /\ goal[g].movementCount < MaxMovements
  /\ booked' = [booked EXCEPT ![g] = @ \cup {ref}]
  /\ vault' = [vault EXCEPT ![g] = @ + moved]
  /\ balance' = balance - moved /\ balance' \in Funds
  /\ UNCHANGED <<today, held>>

CreditVault(g, kind, m) ==
  /\ Covers(m) /\ Settled(g, kind, m)
  /\ goal' = [goal EXCEPT ![g].currentAmount = @ + m, ![g].movementCount = @ + 1]
DebitVault(g, m) ==
  /\ m <= goal[g].currentAmount /\ Settled(g, "WDR", -m)
  /\ goal' = [goal EXCEPT ![g].currentAmount = @ - m, ![g].movementCount = @ + 1]

(* contribute, and applyRoundUps, whose references have a prefix of their  *)
(* own but are numbered in the same sequence; withdraw.                    *)
Contribute(g, m) == CreditVault(g, "CONT", m) /\ UNCHANGED saver
Withdraw(g, m) == DebitVault(g, m) /\ UNCHANGED saver

-----------------------------------------------------------------------------
(* The life of a goal.                                                     *)

Create(g) ==
  /\ goal[g].status = "NONE"
  /\ goal' = [goal EXCEPT ![g].status = "OPEN"]
  /\ UNCHANGED <<account, vault, booked, saver>>

(* close: the vault drained and the goal closed in one transaction.        *)
CloseGoal(g) ==
  LET m == goal[g].currentAmount
      n == goal[g].movementCount
  IN
  /\ Open(g)
  /\ \/ m = 0 /\ UNCHANGED <<account, vault, booked>>
     \/ m > 0 /\ Settled(g, "WDR", -m)
  /\ goal' = [goal EXCEPT ![g] = [status |-> "CLOSED", currentAmount |-> 0,
                movementCount |-> IF m > 0 THEN n + 1 ELSE n, nextRunOn |-> NoSchedule]]
  /\ UNCHANGED saver

(* setAutoSave: from a day on, or not any more.                            *)
SetAutoSave(g, day) ==
  /\ Open(g)
  /\ goal' = [goal EXCEPT ![g].nextRunOn = day]
  /\ UNCHANGED <<account, vault, booked, saver>>

-----------------------------------------------------------------------------
(* Automatic savings.                                                      *)

(* listAutoSaveDue and dueRuns: every occurrence up to today.              *)
DueRuns(from) == 1 + (today - from) \div SavePeriod
StartSaving(w, g) ==
  LET from == goal[g].nextRunOn IN
  /\ saver[w].at = "idle"
  /\ Open(g) /\ from # NoSchedule /\ from <= today
  /\ saver' = [saver EXCEPT ![w] = [at |-> "saving", goal |-> g, left |-> DueRuns(from),
                                    lastRun |-> from + (DueRuns(from) - 1) * SavePeriod,
                                    nextRunOn |-> from]]
  /\ UNCHANGED <<account, goal, vault, booked>>

(* One occurrence, and the schedule the goal has with it.                  *)
SaveOne(w, m) ==
  LET g == saver[w].goal IN
  /\ saver[w].at = "saving" /\ saver[w].left > 0
  /\ CreditVault(g, "AUTO", m)
  /\ saver' = [saver EXCEPT ![w].left = @ - 1, ![w].nextRunOn = goal[g].nextRunOn]

(* reschedule: a write under no condition.                                 *)
Reschedule(w) ==
  LET g == saver[w].goal IN
  /\ saver[w].at = "saving" /\ saver[w].left = 0
  /\ goal' = IF saver[w].nextRunOn = NoSchedule THEN goal
             ELSE [goal EXCEPT ![g].nextRunOn = saver[w].lastRun + SavePeriod]
  /\ saver' = [saver EXCEPT ![w] = NoPass]
  /\ UNCHANGED <<account, vault, booked>>

(* A refused occurrence ends the pass, and so does a crash.                *)
AbandonSaving(w) ==
  /\ saver[w].at = "saving"
  /\ saver' = [saver EXCEPT ![w] = NoPass]
  /\ UNCHANGED <<account, goal, vault, booked>>

-----------------------------------------------------------------------------
GoalsInit ==
  /\ goal = [g \in Goals |-> NoGoal]
  /\ vault = [g \in Goals |-> 0]
  /\ booked = [g \in Goals |-> {}]
  /\ saver = [w \in Savers |-> NoPass]

GoalsNext ==
  \/ \E g \in Goals :
       \/ Create(g) \/ CloseGoal(g)
       \/ \E d \in {NoSchedule} \cup Days : SetAutoSave(g, d)
       \/ \E m \in Contributions : Withdraw(g, m) \/ Contribute(g, m)
  \/ \E w \in Savers :
       \/ Reschedule(w) \/ AbandonSaving(w)
       \/ \E m \in Contributions : SaveOne(w, m)
       \/ \E g \in Goals : StartSaving(w, g)

GoalsTypeOK ==
  /\ goal \in [Goals -> [status : {"NONE", "OPEN", "CLOSED"}, currentAmount : Nat,
                         movementCount : Nat, nextRunOn : Nat]]
  /\ vault \in [Goals -> Int]
  /\ \A g \in Goals : booked[g] \subseteq References
  /\ saver \in [Savers -> [at : {"idle", "saving"}, goal : Goals, left : Nat,
                           lastRun : Days, nextRunOn : Nat]]

(* A goal shows what the journal holds for it, whatever movements, passes  *)
(* and closings overlap, and holds nothing once it is closed: no entry is  *)
(* taken for a repetition of another (the reference's sequence), and none  *)
(* lands in a goal that was closed meanwhile.                              *)
VaultExact ==
  \A g \in Goals :
    /\ goal[g].currentAmount = vault[g]
    /\ goal[g].status # "OPEN" => vault[g] = 0
=============================================================================
