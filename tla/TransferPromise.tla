---------------------------- MODULE TransferPromise ----------------------------
(***************************************************************************)
(* What transfers promise the clients that ask for them, with nothing      *)
(* about how: a quote is paid once, while somebody waits for it or was     *)
(* left in doubt about it, and only if the account, and its limits at the  *)
(* moment it is counted at, bear it after all that was paid before; and    *)
(* nobody is told of a payment that was not made.  Keys, transactions,     *)
(* snapshots, counters, retries and crashes are none of the client's       *)
(* business: Transfers implements this.                                    *)
(*                                                                         *)
(* A payment in doubt is made later or comes to nothing.  It is counted at *)
(* a moment that may have passed when it is made.  It is not promised that *)
(* a client is told of every payment, nor that a quote has not lapsed      *)
(* between the check and the payment.                                      *)
(***************************************************************************)
EXTENDS Totals

CONSTANTS Clients, NumQuotes, Amount, Funds, DayLength, MonthLength,
          PerTransaction, DailyAmount, DailyCount, MonthlyAmount

VARIABLES
  clock,
  paidAt,   \* when each quote was paid; 0 while it is not
  waiting,  \* the clients that wait for an answer
  asked,    \* what each client asked for last
  told,     \* the payment it was told of then; Nothing until it is, or otherwise
  doubt     \* quotes that may yet be paid though nobody waits for them

Quotes  == 1..NumQuotes
Nothing == 0

Paid(q)   == paidAt[q] # 0
AllPaid   == {q \in Quotes : Paid(q)}
PaidOn(t) == {q \in AllPaid : paidAt[q] \div DayLength = t \div DayLength}
PaidInMonth(t) == {q \in AllPaid : paidAt[q] \div MonthLength = t \div MonthLength}

Sum(S)   == Total([q \in Quotes |-> IF q \in S THEN Amount[q] ELSE 0], NumQuotes)
Count(S) == Total([q \in Quotes |-> IF q \in S THEN 1 ELSE 0], NumQuotes)

Borne(q, t) ==
  /\ Sum(AllPaid) + Amount[q] <= Funds
  /\ Amount[q] <= PerTransaction
  /\ Sum(PaidOn(t)) + Amount[q] <= DailyAmount
  /\ Count(PaidOn(t)) + 1 <= DailyCount
  /\ Sum(PaidInMonth(t)) + Amount[q] <= MonthlyAmount

-----------------------------------------------------------------------------
(* A client asks, and waits.                                               *)
Ask(c, q) ==
  /\ c \notin waiting /\ waiting' = waiting \cup {c}
  /\ asked' = [asked EXCEPT ![c] = q]
  /\ told' = [told EXCEPT ![c] = Nothing]
  /\ UNCHANGED <<clock, paidAt, doubt>>

(* It has its answer, which says nothing if it does not say of a payment,  *)
(* and may leave the payment in doubt then.                                *)
Tells(c, q) ==
  \/ told' = [told EXCEPT ![c] = Nothing]
  \/ Paid(q) /\ told' = [told EXCEPT ![c] = q]
Doubtful(q) == ~Paid(q) /\ doubt' = doubt \cup {q}
Answer(c) ==
  /\ c \in waiting /\ waiting' = waiting \ {c}
  /\ Tells(c, asked[c])
  /\ UNCHANGED doubt \/ Doubtful(asked[c])
  /\ UNCHANGED <<clock, paidAt, asked>>

(* It asks, and has its answer at once.                                    *)
AskAnswered(c, q) ==
  /\ c \notin waiting /\ UNCHANGED waiting
  /\ asked' = [asked EXCEPT ![c] = q] /\ Tells(c, q)
  /\ UNCHANGED <<clock, paidAt, doubt>>

(* Its payment is in doubt already while it still waits for the answer.    *)
LeaveInDoubt(c) ==
  /\ c \in waiting /\ Doubtful(asked[c])
  /\ UNCHANGED <<clock, paidAt, waiting, asked, told>>

Pay(q) ==
  /\ ~Paid(q)
  /\ \E t \in 1..clock : paidAt' = [paidAt EXCEPT ![q] = t] /\ Borne(q, t)
  /\ q \in doubt \/ \E c \in waiting : asked[c] = q
  /\ doubt' = doubt \ {q}
  /\ UNCHANGED <<clock, waiting, asked, told>>

ComesToNothing(q) ==
  /\ q \in doubt /\ doubt' = doubt \ {q}
  /\ UNCHANGED <<clock, paidAt, waiting, asked, told>>

Pass == clock' = clock + 1 /\ UNCHANGED <<paidAt, waiting, asked, told, doubt>>

Init ==
  /\ clock = 1
  /\ paidAt = [q \in Quotes |-> 0]
  /\ waiting = {} /\ doubt = {}
  /\ asked = [c \in Clients |-> Nothing] /\ told = [c \in Clients |-> Nothing]

Next ==
  \/ \E c \in Clients : \/ Answer(c) \/ LeaveInDoubt(c)
                        \/ \E q \in Quotes : Ask(c, q) \/ AskAnswered(c, q)
  \/ \E q \in Quotes : Pay(q) \/ ComesToNothing(q)
  \/ Pass

Spec == Init /\ [][Next]_<<clock, paidAt, waiting, asked, told, doubt>>
=============================================================================
