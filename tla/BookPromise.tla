------------------------------ MODULE BookPromise ------------------------------
(***************************************************************************)
(* What the books promise, worked out from the entries and the holds       *)
(* alone: there is no stored balance, availability or total of holds here, *)
(* so nothing that could drift.  An entry once booked stands as it is, in  *)
(* its place, under a reference no other has; it moves open accounts only, *)
(* and takes none beyond its limit; and an account is closed empty, for    *)
(* good.  AccountBook implements this with its projections.                *)
(*                                                                         *)
(* It does not promise that what a hold keeps can still be paid when it is *)
(* captured: an entry is borne by the balance, not by what is available.   *)
(***************************************************************************)
EXTENDS Sequences, Totals

CONSTANTS NumAccounts, NumHolds, Requests, Recipes, Limits, Owner

VARIABLES
  life,     \* NONE, OPEN, FROZEN or CLOSED, of each account
  limit,    \* how far each account may be overdrawn
  reserve,  \* the account and the amount each hold keeps; 0 when it keeps nothing
  entries   \* what was booked, in order

Accounts == 1..NumAccounts
Holds    == 1..NumHolds

Balance(a)  == Total([i \in 1..Len(entries) |-> entries[i].effects[a]], Len(entries))
Kept(a)     == [h \in Holds |-> IF reserve[h].accountId = a THEN reserve[h].amount ELSE 0]
Reserved(a) == Total(Kept(a), NumHolds)
Spendable(a) == Balance(a) - Reserved(a) + limit[a]

-----------------------------------------------------------------------------
Original(kind, n) == [base |-> <<kind, n>>, reversals |-> 0]
Reversal(r)       == [r EXCEPT !.reversals = @ + 1]
Mirror(e)         == [a \in Accounts |-> -e[a]]

Taken(a, m)   == [x \in Accounts |-> IF x = a THEN -m ELSE 0]
Swept(a, b)   == [x \in Accounts |-> IF x = a THEN -Balance(a)
                                     ELSE IF x = b THEN Balance(a) ELSE 0]

Borne(e) ==
  \A a \in Accounts :
    /\ e[a] # 0 => life[a] = "OPEN"
    /\ e[a] < 0 => Balance(a) + e[a] >= -limit[a]

Known(r) == \E i \in DOMAIN entries : entries[i].reference = r

Book(r, e) ==
  /\ ~Known(r) /\ Borne(e)
  /\ entries' = Append(entries, [reference |-> r, effects |-> e])

Post(n, e) == Book(Original("POST", n), e) /\ UNCHANGED <<life, limit, reserve>>

Reverse(i) ==
  /\ Book(Reversal(entries[i].reference), Mirror(entries[i].effects))
  /\ UNCHANGED <<life, limit, reserve>>

-----------------------------------------------------------------------------
Place(h, a, m) ==
  /\ reserve[h].amount = 0
  /\ life[a] = "OPEN"
  /\ reserve' = [reserve EXCEPT ![h] = [accountId |-> a, amount |-> m]]
  /\ UNCHANGED <<life, limit, entries>>

Emptied(h) == reserve[h].amount # 0 /\ reserve' = [reserve EXCEPT ![h].amount = 0]

Free(h) == Emptied(h) /\ UNCHANGED <<life, limit, entries>>

(* In whole or in part; what is not taken is free again.                   *)
Capture(h, m) ==
  /\ Book(Original("CAPTURE", h), Taken(reserve[h].accountId, m))
  /\ Emptied(h)
  /\ UNCHANGED <<life, limit>>

-----------------------------------------------------------------------------
Becomes(a, from, to) == life[a] \in from /\ life' = [life EXCEPT ![a] = to]

Turn(a) ==
  /\ Becomes(a, {"NONE", "FROZEN"}, "OPEN") \/ Becomes(a, {"OPEN"}, "FROZEN")
  /\ UNCHANGED <<limit, reserve, entries>>

CloseEmpty(a) ==
  /\ Becomes(a, {"OPEN", "FROZEN"}, "CLOSED")
  /\ Balance(a) = 0 /\ Reserved(a) = 0
  /\ UNCHANGED <<limit, reserve, entries>>

CloseSweeping(a, b) ==
  /\ Becomes(a, {"OPEN"}, "CLOSED")
  /\ Balance(a) > 0 /\ Reserved(a) = 0
  /\ b # a /\ Owner[b] = Owner[a]
  /\ Book(Original("CLOSE", a), Swept(a, b))
  /\ UNCHANGED <<limit, reserve>>

Grant(a, l) ==
  /\ limit[a] = 0 /\ limit' = [limit EXCEPT ![a] = l]
  /\ UNCHANGED <<life, reserve, entries>>

Withdraw(a) == limit' = [limit EXCEPT ![a] = 0] /\ UNCHANGED <<life, reserve, entries>>

-----------------------------------------------------------------------------
Init ==
  /\ life = [a \in Accounts |-> "NONE"]
  /\ limit = [a \in Accounts |-> 0]
  /\ reserve = [h \in Holds |-> [accountId |-> 1, amount |-> 0]]
  /\ entries = << >>

(* An entry is booked; else a hold, an account or a limit changes.         *)
Books ==
  \/ \E n \in Requests, e \in Recipes : Post(n, e)
  \/ \E i \in DOMAIN entries : Reverse(i)
  \/ \E h \in Holds : \E m \in 1..reserve[h].amount : Capture(h, m)
  \/ \E a, b \in Accounts : CloseSweeping(a, b)
Keeps ==
  \E h \in Holds :
    \/ Free(h)
    \/ \E a \in Accounts : \E m \in 1..Spendable(a) : Place(h, a, m)
Turns == \E a \in Accounts : Turn(a) \/ CloseEmpty(a)
Lends == \E a \in Accounts : Withdraw(a) \/ \E l \in Limits : Grant(a, l)

Next ==
  \/ entries' # entries /\ Books
  \/ reserve' # reserve /\ Keeps
  \/ life' # life /\ Turns
  \/ limit' # limit /\ Lends

Spec == Init /\ [][Next]_<<life, limit, reserve, entries>>
=============================================================================
