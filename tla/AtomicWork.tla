----------------------------- MODULE AtomicWork -----------------------------
(***************************************************************************)
(* What a caller of TransactionRunner.run is promised: its work happens to *)
(* every account it touches at once and at most one time, and the answer   *)
(* it gets is the truth about it.  Only an answer that claims to know      *)
(* nothing leaves open whether the work has happened, or still will.       *)
(***************************************************************************)
EXTENDS Naturals

CONSTANTS Callers, Accounts, Touches

VARIABLES
  book,   \* book[a][c]: how many times c's work is in account a
  told    \* what the caller has been told

Answers == {"pending", "done", "failed", "unsure"}

Applied(c) == \A a \in Touches[c] : book[a][c] = 1
Absent(c)  == \A a \in Touches[c] : book[a][c] = 0

Init ==
  /\ book = [a \in Accounts |-> [c \in Callers |-> 0]]
  /\ told = [c \in Callers |-> "pending"]

Apply(c) ==
  /\ told[c] \in {"pending", "unsure"} /\ Absent(c)
  /\ book' = [a \in Accounts |-> IF a \in Touches[c] THEN [book[a] EXCEPT ![c] = 1] ELSE book[a]]
  /\ told' = told

Tell(c, answer) ==
  /\ told[c] = "pending"
  /\ answer = "done" => Applied(c)
  /\ answer = "failed" => Absent(c)
  /\ told' = [told EXCEPT ![c] = answer]
  /\ book' = book

Next == \E c \in Callers : Apply(c) \/ \E answer \in Answers : Tell(c, answer)

Spec == Init /\ [][Next]_<<book, told>>
=============================================================================
