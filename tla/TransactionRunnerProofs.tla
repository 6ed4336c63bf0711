----------------------- MODULE TransactionRunnerProofs -----------------------
(***************************************************************************)
(* Theorems about TransactionRunner for any callers, any accounts and any  *)
(* numbers of attempts.                                                    *)
(*                                                                         *)
(* The argument: an account that an open transaction has written is still  *)
(* what its snapshot shows, and nobody else's (Locked); so the commit puts *)
(* in place exactly what is there and its own work.  And the runner starts *)
(* over only when the server has given the transaction up (Linked), so the *)
(* books hold a work exactly when its latest transaction committed         *)
(* (Booked).                                                               *)
(***************************************************************************)
EXTENDS TransactionRunner, TLAPS

(* What run knows agrees with what the server knows.                       *)
LinkedAt(c) ==
  /\ at[c] \in {"backoff", "refused"} => server[c] \in {"none", "aborted"}
  /\ at[c] \in {"working", "rejected"} => server[c] \in {"open", "aborted"} /\ sent[c] = 0
  /\ at[c] = "settled" => server[c] = "committed"
  /\ at[c] = "backoff" => attempt[c] < MaxAttempts
  /\ at[c] = "committing" => sent[c] < CommitAttempts
  /\ at[c] \in {"committing", "awaiting", "settled"} => sent[c] > 0
  /\ sent[c] > 0 => written[c] = Touches[c]
  /\ server[c] = "committed" => sent[c] > 0
Linked == \A c \in Callers : LinkedAt(c)

(* A work is in every account it touches once its transaction committed.   *)
Booked ==
  \A c \in Callers, a \in Accounts :
    store[a].by[c] = IF server[c] = "committed" /\ a \in Touches[c] THEN 1 ELSE 0

(* A snapshot is behind the books, or shows them as they are.              *)
Fresh ==
  \A c \in Callers, a \in Accounts : server[c] = "open" =>
    /\ snap[c][a].version <= store[a].version
    /\ snap[c][a].version = store[a].version => snap[c][a] = store[a]

(* What an open transaction has written nobody else has, or will commit.   *)
Locked ==
  \A c \in Callers : server[c] = "open" =>
    \A a \in written[c] :
      /\ a \in Touches[c] /\ snap[c][a].version = store[a].version
      /\ \A d \in Callers \ {c} : server[d] = "open" => a \notin written[d]

IInv == TypeOK /\ Linked /\ Booked /\ Fresh /\ Locked

(* Works touch accounts, at least one, and the budgets are not zero.       *)
LEMMA Constants ==
  /\ \A c \in Callers : Touches[c] \subseteq Accounts /\ Touches[c] # {}
  /\ MaxAttempts \in Nat /\ MaxAttempts >= 1 /\ CommitAttempts \in Nat /\ CommitAttempts >= 1
<1>1. ASSUME NEW c \in Callers PROVE Touches[c] \subseteq Accounts /\ Touches[c] # {}
  <2>1. Touches[c] \in (SUBSET Accounts) \ {{}}
    BY RunnerAssumption
  <2> QED BY <2>1
<1>2. MaxAttempts \in Nat \ {0} /\ CommitAttempts \in Nat \ {0}
  BY RunnerAssumption
<1> QED BY <1>1, <1>2

-----------------------------------------------------------------------------

(* The invariant holds at first.                                           *)
LEMMA InitInv == Init => IInv
<1> SUFFICES ASSUME Init PROVE IInv
  OBVIOUS
<1>1. TypeOK
  BY Constants DEF Init, TypeOK, Account, Where
<1>2. ASSUME NEW c \in Callers PROVE LinkedAt(c)
  <2>1. at[c] = "backoff" /\ server[c] = "none" /\ attempt[c] = 0 /\ sent[c] = 0
    BY DEF Init
  <2> QED BY <2>1, Constants DEF LinkedAt
<1>3. Booked /\ Fresh /\ Locked
  BY DEF Init, Booked, Fresh, Locked
<1> QED BY <1>1, <1>2, <1>3 DEF IInv, Linked

(* Steps that change neither the books nor a transaction, but possibly     *)
(* that the server gave one up.                                            *)
LEMMA BooksStand ==
  ASSUME IInv, store' = store, snap' = snap, written' = written,
         \A c \in Callers : server'[c] = server[c] \/ (server[c] = "open" /\ server'[c] = "aborted")
  PROVE  Booked' /\ Fresh' /\ Locked'
<1>1. \A c \in Callers : /\ server'[c] = "open" => server[c] = "open"
                         /\ server'[c] = "committed" <=> server[c] = "committed"
  OBVIOUS
<1>2. Booked' /\ Fresh'
  BY <1>1 DEF IInv, Booked, Fresh
<1>3. Locked'
  BY <1>1 DEF IInv, Locked
<1> QED BY <1>2, <1>3

(* What a step leaves alone of a caller stays linked.                      *)
LEMMA OthersLinked ==
  ASSUME NEW d, LinkedAt(d), at'[d] = at[d], server'[d] = server[d], sent'[d] = sent[d],
         attempt'[d] = attempt[d], written'[d] = written[d]
  PROVE  LinkedAt(d)'
BY DEF LinkedAt

(* The steps that leave the books and the snapshots alone keep it.         *)
LEMMA ClientStep ==
  ASSUME IInv, NEW c \in Callers,
         \/ Conflicted(c) \/ Aborted(c) \/ Reject(c) \/ Commit(c) \/ Committed(c)
         \/ Unknown(c) \/ Die(c) \/ GiveUp(c)
  PROVE  IInv'
<1> USE DEF IInv
<1>0. /\ at[c] \in Where /\ attempt[c] \in 0..MaxAttempts /\ sent[c] \in 0..CommitAttempts
      /\ server[c] \in {"none", "open", "committed", "aborted"} /\ LinkedAt(c)
      /\ MaxAttempts \in Nat /\ CommitAttempts \in Nat /\ CommitAttempts >= 1
      /\ Touches[c] # {}
  BY Constants DEF TypeOK, Linked
<1>1. TypeOK'
  <2>1. CASE Commit(c)
    <3>1. sent[c] + 1 \in 0..CommitAttempts
      BY <1>0, <2>1 DEF LinkedAt, Commit
    <3> QED BY <2>1, <3>1 DEF TypeOK, Where, Commit
  <2> QED BY <2>1 DEF TypeOK, Where, Outcomes, Conflicted, Aborted, Replay, Reject, Committed,
                      Unknown, Die, GiveUp
<1>2. ASSUME NEW d \in Callers PROVE LinkedAt(d)'
  <2>1. CASE d # c
    <3>1. /\ at'[d] = at[d] /\ server'[d] = server[d] /\ sent'[d] = sent[d]
          /\ attempt'[d] = attempt[d] /\ written'[d] = written[d]
      BY <2>1 DEF TypeOK, Conflicted, Aborted, Replay, Reject, Commit, Committed, Unknown, Die, GiveUp
    <3> QED BY <3>1, OthersLinked DEF Linked
  <2>2. LinkedAt(c)'
    <3>1. CASE Conflicted(c)
      <4>1. /\ at'[c] \in {"refused", "backoff"} /\ server'[c] = "aborted" /\ UNCHANGED <<sent, attempt, written>>
            /\ at'[c] = "backoff" => attempt[c] # MaxAttempts
        BY <3>1 DEF TypeOK, Conflicted, Replay, Exhausted
      <4> QED BY ONLY <1>0, <4>1 DEF LinkedAt
    <3>2. CASE Aborted(c)
      <4>1. /\ at'[c] \in {"refused", "backoff"} /\ server'[c] = "aborted" /\ UNCHANGED <<sent, attempt, written>>
            /\ at'[c] = "backoff" => attempt[c] # MaxAttempts
        BY <3>2 DEF TypeOK, Aborted, Replayable, Replay, Exhausted
      <4> QED BY ONLY <1>0, <4>1 DEF LinkedAt
    <3>3. CASE Reject(c)
      <4>1. /\ at[c] = "working" /\ at'[c] = "rejected" /\ server'[c] \in {server[c], "aborted"}
            /\ UNCHANGED <<sent, attempt, written>>
        BY <3>3 DEF TypeOK, Reject
      <4> QED BY ONLY <1>0, <4>1 DEF LinkedAt
    <3>4. CASE Commit(c)
      <4>1. /\ at[c] = "committing" \/ (at[c] = "working" /\ written[c] = Touches[c])
            /\ at'[c] = "awaiting" /\ sent'[c] = sent[c] + 1
            /\ UNCHANGED <<server, attempt, written>>
        BY <3>4 DEF TypeOK, Commit
      <4> QED BY ONLY <1>0, <4>1 DEF LinkedAt
    <3>5. CASE Committed(c)
      <4>1. at[c] = "awaiting" /\ at'[c] = "settled" /\ server[c] = "committed" /\ UNCHANGED <<server, sent, attempt, written>>
        BY <3>5 DEF TypeOK, Committed
      <4> QED BY ONLY <1>0, <4>1 DEF LinkedAt
    <3>6. CASE Unknown(c)
      <4>1. /\ at[c] = "awaiting" /\ at'[c] \in {"unsure", "committing"} /\ UNCHANGED <<server, sent, attempt, written>>
            /\ at'[c] = "committing" => sent[c] # CommitAttempts
        BY <3>6 DEF TypeOK, Unknown
      <4> QED BY ONLY <1>0, <4>1 DEF LinkedAt
    <3>7. CASE Die(c)
      <4>1. at'[c] = "dead" /\ UNCHANGED <<server, sent, attempt, written>>
        BY <3>7 DEF TypeOK, Die
      <4> QED BY ONLY <1>0, <4>1 DEF LinkedAt
    <3>8. CASE GiveUp(c)
      <4>1. server[c] = "open" /\ server'[c] = "aborted" /\ UNCHANGED <<at, sent, attempt, written>>
        BY <3>8 DEF TypeOK, GiveUp
      <4> QED BY ONLY <1>0, <4>1 DEF LinkedAt
    <3> QED BY <3>1, <3>2, <3>3, <3>4, <3>5, <3>6, <3>7, <3>8
  <2> QED BY <2>1, <2>2
<1>3. /\ store' = store /\ snap' = snap /\ written' = written
      /\ \A d \in Callers : server'[d] = server[d] \/ (server[d] = "open" /\ server'[d] = "aborted")
  <2>1. CASE Reject(c)
    BY <2>1, <1>0 DEF TypeOK, LinkedAt, Reject
  <2> QED BY <2>1 DEF TypeOK, Conflicted, Aborted, Commit, Committed, Unknown, Die, GiveUp
<1> QED BY <1>1, <1>2, <1>3, BooksStand DEF Linked

(* A new attempt keeps it: nothing of the last one was committed.          *)
LEMMA BeginStep == ASSUME IInv, NEW c \in Callers, Begin(c) PROVE IInv'
<1>0. /\ LinkedAt(c) /\ attempt[c] \in 0..MaxAttempts /\ MaxAttempts \in Nat /\ 0 \in 0..CommitAttempts
      /\ at[c] = "backoff"
  BY Constants DEF IInv, TypeOK, Linked, Begin
<1>1. TypeOK'
  <2>1. attempt[c] + 1 \in 0..MaxAttempts
    BY <1>0 DEF LinkedAt
  <2>2. store' \in [Accounts -> Account] /\ snap' \in [Callers -> [Accounts -> Account]]
    BY DEF IInv, TypeOK, Begin
  <2>3. /\ server' \in [Callers -> {"none", "open", "committed", "aborted"}]
        /\ written' \in [Callers -> SUBSET Accounts] /\ at' \in [Callers -> Where]
    BY DEF IInv, TypeOK, Begin, Where
  <2>4. attempt' \in [Callers -> 0..MaxAttempts] /\ sent' \in [Callers -> 0..CommitAttempts]
    BY <1>0, <2>1 DEF IInv, TypeOK, Begin
  <2> QED BY <2>2, <2>3, <2>4 DEF TypeOK
<1>2. ASSUME NEW d \in Callers PROVE LinkedAt(d)'
  <2>1. CASE d # c
    <3>1. /\ at'[d] = at[d] /\ server'[d] = server[d] /\ sent'[d] = sent[d]
          /\ attempt'[d] = attempt[d] /\ written'[d] = written[d]
      BY <2>1 DEF IInv, TypeOK, Begin
    <3> QED BY <3>1, OthersLinked DEF IInv, Linked
  <2>2. CASE d = c
    <3>1. at'[c] = "working" /\ server'[c] = "open" /\ sent'[c] = 0
      BY DEF IInv, TypeOK, Begin
    <3> QED BY <2>2, <3>1 DEF LinkedAt
  <2> QED BY <2>1, <2>2
<1>3. /\ server[c] # "committed" /\ server' = [server EXCEPT ![c] = "open"]
      /\ snap' = [snap EXCEPT ![c] = store] /\ written' = [written EXCEPT ![c] = {}] /\ store' = store
  BY <1>0 DEF LinkedAt, Begin
<1>4. Booked'
  BY <1>3 DEF IInv, TypeOK, Booked
<1>5. Fresh'
  <2>1. ASSUME NEW a \in Accounts PROVE store[a].version <= store[a].version
    BY DEF IInv, TypeOK, Account
  <2> QED BY <1>3, <2>1 DEF IInv, TypeOK, Fresh
<1>6. Locked'
  BY <1>3 DEF IInv, TypeOK, Locked
<1> QED BY <1>1, <1>2, <1>4, <1>5, <1>6 DEF IInv, Linked

(* A write keeps it: nobody else has written the account.                  *)
LEMMA WriteStep == ASSUME IInv, NEW c \in Callers, NEW a \in Accounts, Write(c, a) PROVE IInv'
<1>1. TypeOK'
  BY DEF IInv, TypeOK, Write
<1>2. ASSUME NEW d \in Callers PROVE LinkedAt(d)'
  <2>1. CASE d # c
    <3>1. /\ at'[d] = at[d] /\ server'[d] = server[d] /\ sent'[d] = sent[d]
          /\ attempt'[d] = attempt[d] /\ written'[d] = written[d]
      BY <2>1 DEF IInv, TypeOK, Write
    <3> QED BY <3>1, OthersLinked DEF IInv, Linked
  <2>2. CASE d = c
    <3>1. at[c] = "working" /\ sent[c] = 0 /\ UNCHANGED <<at, server, sent, attempt>> /\ LinkedAt(c)
      BY DEF IInv, Linked, LinkedAt, Write
    <3> QED BY <2>2, <3>1 DEF LinkedAt
  <2> QED BY <2>1, <2>2
<1>3. Booked' /\ Fresh'
  BY DEF IInv, Booked, Fresh, Write
<1>4. Locked'
  <2>1. /\ written' = [written EXCEPT ![c] = @ \cup {a}] /\ server' = server /\ snap' = snap /\ store' = store
        /\ a \in Touches[c] /\ snap[c][a].version = store[a].version
        /\ \A d \in Callers \ {c} : server[d] = "open" => a \notin written[d]
    BY DEF Write, Conflict
  <2> QED BY <2>1 DEF IInv, TypeOK, Locked
<1> QED BY <1>1, <1>2, <1>3, <1>4 DEF IInv, Linked

(* A commit puts in place what was there and its own work.                 *)
LEMMA LandExact ==
  ASSUME IInv, NEW c \in Callers, Land(c)
  PROVE  /\ written[c] = Touches[c]
         /\ \A a \in Touches[c] :
              /\ a \in Accounts
              /\ store'[a] = [version |-> store[a].version + 1, by |-> [store[a].by EXCEPT ![c] = 1]]
         /\ \A a \in Accounts \ Touches[c] : store'[a] = store[a]
<1>1. server[c] = "open" /\ sent[c] > 0 /\ written[c] = Touches[c] /\ Touches[c] \subseteq Accounts
  BY Constants DEF IInv, Linked, LinkedAt, Land
<1>2. ASSUME NEW a \in Touches[c] PROVE snap[c][a] = store[a] /\ store[a].by[c] = 0
  BY <1>1 DEF IInv, Locked, Fresh, Booked
<1>3. ASSUME NEW a \in Touches[c]
      PROVE  store'[a] = [version |-> store[a].version + 1, by |-> [store[a].by EXCEPT ![c] = 1]]
  <2>1. store'[a] = Version(c, a)
    BY <1>1 DEF Land
  <2>2. Version(c, a) = [version |-> store[a].version + 1, by |-> [store[a].by EXCEPT ![c] = store[a].by[c] + 1]]
    BY <1>2 DEF Version
  <2>3. store[a].by[c] + 1 = 1
    BY <1>2
  <2> QED BY <2>1, <2>2, <2>3
<1>4. \A a \in Accounts \ Touches[c] : store'[a] = store[a]
  BY <1>1 DEF Land
<1> QED BY <1>1, <1>3, <1>4

(* A commit that takes effect keeps it.                                    *)
LEMMA LandStep == ASSUME IInv, NEW c \in Callers, Land(c) PROVE IInv'
<1>0. /\ server[c] = "open" /\ sent[c] > 0 /\ written[c] = Touches[c] /\ Touches[c] \subseteq Accounts
      /\ server' = [server EXCEPT ![c] = "committed"] /\ UNCHANGED <<snap, written, at, attempt, sent>>
      /\ store' = [a \in Accounts |-> IF a \in written[c] THEN Version(c, a) ELSE store[a]]
  BY LandExact, Constants DEF Land
<1>a. ASSUME NEW a \in Accounts PROVE store[a] \in Account /\ store[a].version \in Nat /\ store[a].by \in [Callers -> Nat]
  BY DEF IInv, TypeOK, Account
<1>b. ASSUME NEW a \in Touches[c]
      PROVE  /\ store'[a].version = store[a].version + 1
             /\ store'[a].by = [store[a].by EXCEPT ![c] = 1]
  <2>1. store'[a] = [version |-> store[a].version + 1, by |-> [store[a].by EXCEPT ![c] = 1]]
    BY LandExact
  <2> QED BY ONLY <2>1
<1>c. \A a \in Accounts \ Touches[c] : store'[a] = store[a]
  BY LandExact
<1>1. TypeOK'
  <2>1. ASSUME NEW a \in Accounts PROVE store'[a] \in Account
    <3>1. CASE a \in Touches[c]
      <4>1. store'[a] = [version |-> store[a].version + 1, by |-> [store[a].by EXCEPT ![c] = 1]]
        BY <3>1, LandExact
      <4> QED BY <4>1, <1>a DEF Account
    <3> QED BY <3>1, <1>a, <1>c
  <2> QED BY <1>0, <2>1 DEF IInv, TypeOK
<1>2. ASSUME NEW d \in Callers PROVE LinkedAt(d)'
  <2>1. CASE d # c
    <3>1. server'[d] = server[d]
      BY <1>0, <2>1 DEF IInv, TypeOK
    <3> QED BY <1>0, <3>1, OthersLinked DEF IInv, Linked
  <2>2. CASE d = c
    <3>1. server'[c] = "committed" /\ LinkedAt(c)
      BY <1>0 DEF IInv, TypeOK, Linked
    <3> QED BY <1>0, <2>2, <3>1 DEF LinkedAt
  <2> QED BY <2>1, <2>2
<1>3. ASSUME NEW d \in Callers
      PROVE /\ d # c => server'[d] = server[d]
            /\ server'[c] = "committed"
  BY <1>0 DEF IInv, TypeOK
<1>4. ASSUME NEW d \in Callers, NEW a \in Accounts
      PROVE  store'[a].by[d] = IF server'[d] = "committed" /\ a \in Touches[d] THEN 1 ELSE 0
  <2>1. store[a].by[d] = IF server[d] = "committed" /\ a \in Touches[d] THEN 1 ELSE 0
    BY DEF IInv, Booked
  <2>2. CASE a \in Touches[c] /\ d = c
    BY <2>2, <1>a, <1>b, <1>3
  <2>3. CASE a \in Touches[c] /\ d # c
    BY <2>1, <2>3, <1>a, <1>b, <1>3
  <2>4. CASE a \notin Touches[c] /\ d = c
    BY <2>1, <2>4, <1>0, <1>c, <1>3
  <2>5. CASE a \notin Touches[c] /\ d # c
    BY <2>1, <2>5, <1>c, <1>3
  <2> QED BY <2>2, <2>3, <2>4, <2>5
<1>5. ASSUME NEW d \in Callers, NEW a \in Accounts, server'[d] = "open"
      PROVE  /\ snap'[d][a].version <= store'[a].version
             /\ snap'[d][a].version = store'[a].version => snap'[d][a] = store'[a]
  <2>1. server[d] = "open" /\ snap' = snap
    BY <1>0, <1>3, <1>5
  <2>2. /\ snap[d][a].version <= store[a].version /\ snap[d][a].version \in Nat
        /\ snap[d][a].version = store[a].version => snap[d][a] = store[a]
    BY <2>1 DEF IInv, TypeOK, Fresh, Account
  <2>3. CASE a \in Touches[c]
    <3>1. store'[a].version = store[a].version + 1 /\ store[a].version \in Nat
      BY <2>3, <1>a, <1>b
    <3>2. snap[d][a].version <= store'[a].version /\ snap[d][a].version # store'[a].version
      BY ONLY <2>2, <3>1
    <3> QED BY <2>1, <3>2
  <2>4. CASE a \notin Touches[c]
    BY <2>1, <2>2, <2>4, <1>c
  <2> QED BY <2>3, <2>4
<1>6. ASSUME NEW d \in Callers, server'[d] = "open", NEW a \in written'[d]
      PROVE  /\ a \in Touches[d] /\ snap'[d][a].version = store'[a].version
             /\ \A e \in Callers \ {d} : server'[e] = "open" => a \notin written'[e]
  <2>1. server[d] = "open" /\ d # c /\ snap' = snap /\ written' = written
    BY <1>0, <1>3, <1>6
  <2>2. /\ a \in Touches[d] /\ snap[d][a].version = store[a].version
        /\ \A e \in Callers \ {d} : server[e] = "open" => a \notin written[e]
    BY <1>6, <2>1 DEF IInv, Locked
  <2>3. a \in Accounts \ Touches[c]
    BY <1>0, <2>1, <2>2, Constants
  <2> QED BY <2>1, <2>2, <2>3, <1>3, <1>c
<1> QED BY <1>1, <1>2, <1>4, <1>5, <1>6 DEF IInv, Linked, Booked, Fresh, Locked

(* A write outside transactions keeps it.                                  *)
LEMMA PatchStep == ASSUME IInv, NEW a \in Accounts, Patch(a) PROVE IInv'
<1>0. /\ UNCHANGED <<server, snap, written, at, attempt, sent>>
      /\ \A c \in Callers : server[c] = "open" => a \notin written[c]
      /\ store' = [store EXCEPT ![a].version = @ + 1]
  BY DEF Patch
<1>1. ASSUME NEW b \in Accounts
      PROVE  /\ store[b] \in Account /\ store'[b] \in Account /\ store'[b].by = store[b].by
             /\ store[b].version \in Nat /\ store'[b].version = store[b].version + (IF a = b THEN 1 ELSE 0)
             /\ b # a => store'[b] = store[b]
  <2>1. store \in [Accounts -> Account] /\ store[b] \in Account /\ store[b].version \in Nat
    BY DEF IInv, TypeOK, Account
  <2>2. CASE b # a
    BY <1>0, <2>1, <2>2
  <2>3. CASE b = a
    <3>1. store'[a] = [store[a] EXCEPT !.version = @ + 1]
      BY <1>0, <2>1, <2>3
    <3> HIDE DEF Account
    <3>2. store'[a] = [store[a] EXCEPT !.version = @ + 1] => store'[a] \in Account /\ store'[a].by = store[a].by
                     /\ store'[a].version = store[a].version + 1
      BY <2>1, <2>3 DEF Account
    <3> QED BY <2>1, <2>3, <3>1, <3>2
  <2> QED BY <2>1, <2>2, <2>3
<1>2. TypeOK'
  BY <1>0, <1>1 DEF IInv, TypeOK
<1>3. Linked' /\ Booked'
  <2>1. Linked'
    BY <1>0 DEF IInv, Linked, LinkedAt
  <2>2. Booked'
    BY <1>0, <1>1 DEF IInv, Booked
  <2> QED BY <2>1, <2>2
<1>4. Fresh'
  <2> SUFFICES ASSUME NEW c \in Callers, NEW b \in Accounts, server'[c] = "open"
               PROVE  /\ snap'[c][b].version <= store'[b].version
                      /\ snap'[c][b].version = store'[b].version => snap'[c][b] = store'[b]
    BY DEF Fresh
  <2>1. /\ snap[c][b].version <= store[b].version /\ snap[c][b].version \in Nat
        /\ snap[c][b].version = store[b].version => snap[c][b] = store[b]
    BY <1>0 DEF IInv, TypeOK, Fresh, Account
  <2> QED BY <1>0, <1>1, <2>1
<1>5. Locked'
  <2> SUFFICES ASSUME NEW c \in Callers, server'[c] = "open", NEW b \in written'[c]
               PROVE  /\ b \in Touches[c] /\ snap'[c][b].version = store'[b].version
                      /\ \A d \in Callers \ {c} : server'[d] = "open" => b \notin written'[d]
    BY DEF Locked
  <2>1. b \in Accounts /\ b # a
    BY <1>0 DEF IInv, TypeOK
  <2> QED BY <1>0, <1>1, <2>1 DEF IInv, Locked
<1> QED BY <1>2, <1>3, <1>4, <1>5 DEF IInv

(* Every step keeps the invariant.                                         *)
LEMMA NextInv == IInv /\ [Next]_vars => IInv'
<1> SUFFICES ASSUME IInv, [Next]_vars PROVE IInv'
  OBVIOUS
<1>1. ASSUME NEW c \in Callers, Begin(c) PROVE IInv'
  BY <1>1, BeginStep
<1>2. ASSUME NEW c \in Callers, NEW a \in Accounts, Write(c, a) PROVE IInv'
  BY <1>2, WriteStep
<1>3. ASSUME NEW c \in Callers,
             \/ Conflicted(c) \/ Aborted(c) \/ Reject(c) \/ Commit(c) \/ Committed(c)
             \/ Unknown(c) \/ Die(c) \/ GiveUp(c)
      PROVE  IInv'
  BY <1>3, ClientStep
<1>4. ASSUME NEW c \in Callers, Land(c) PROVE IInv'
  BY <1>4, LandStep
<1>5. ASSUME NEW a \in Accounts, Patch(a) PROVE IInv'
  BY <1>5, PatchStep
<1>6. CASE UNCHANGED vars
  BY <1>6 DEF vars, IInv, TypeOK, Linked, LinkedAt, Booked, Fresh, Locked
<1> QED BY <1>1, <1>2, <1>3, <1>4, <1>5, <1>6 DEF Next, Progress

(* The invariant is one.                                                   *)
LEMMA Invariant == Spec => []IInv
BY InitInv, NextInv, PTL DEF Spec

-----------------------------------------------------------------------------
(* Every variable keeps its type; no call uses more attempts or commits    *)
(* than it has (transaction.runner.ts:52 and :106).                        *)
THEOREM TypeCorrect == Spec => []TypeOK
<1>1. IInv => TypeOK
  BY DEF IInv
<1> QED BY <1>1, Invariant, PTL

(* However calls interleave, conflict, lose their answers or die, a work   *)
(* is in all the accounts it touches once, or in none; its caller is told  *)
(* so when it is told anything (transaction.runner.ts:12-26).              *)
THEOREM AtMostOnce == Spec => []AppliedOnce
<1>1. ASSUME IInv PROVE AppliedOnce
  <2> SUFFICES ASSUME NEW c \in Callers, NEW a \in Accounts
      PROVE  /\ a \notin Touches[c] => store[a].by[c] = 0
             /\ \A b \in Touches[c] : a \in Touches[c] => store[a].by[c] = store[b].by[c]
             /\ store[a].by[c] <= 1
             /\ at[c] = "settled" /\ a \in Touches[c] => store[a].by[c] = 1
             /\ at[c] \in {"refused", "rejected"} => store[a].by[c] = 0
    BY DEF AppliedOnce
  <2>1. \A b \in Accounts : store[b].by[c] = IF server[c] = "committed" /\ b \in Touches[c] THEN 1 ELSE 0
    BY <1>1 DEF IInv, Booked
  <2>2. LinkedAt(c) /\ Touches[c] \subseteq Accounts
    BY <1>1, Constants DEF IInv, Linked
  <2> QED BY <2>1, <2>2 DEF LinkedAt
<1> QED BY <1>1, Invariant, PTL

(* A step of the runner leaves the books alone and tells its caller        *)
(* nothing, or the truth.                                                  *)
LEMMA ClientTells ==
  ASSUME IInv, NEW c \in Callers,
         \/ Begin(c) \/ Conflicted(c) \/ Aborted(c) \/ Reject(c) \/ Commit(c) \/ Committed(c)
         \/ Unknown(c) \/ Die(c)
  PROVE  (\E answer \in Atomic!Answers : Atomic!Tell(c, answer))
           \/ UNCHANGED <<[a \in Accounts |-> store[a].by], [d \in Callers |-> Told(d)]>>
<1> DEFINE told == [d \in Callers |-> Told(d)]
<1>1. LinkedAt(c) /\ Touches[c] \subseteq Accounts /\ at \in [Callers -> Where] /\ store' = store
  BY Constants DEF IInv, TypeOK, Linked, Begin, Conflicted, Aborted, Reject, Commit, Committed, Unknown, Die
<1>2. \A a \in Touches[c] : store[a].by[c] = IF server[c] = "committed" THEN 1 ELSE 0
  BY <1>1 DEF IInv, Booked
<1>3. at' = [at EXCEPT ![c] = at'[c]]
  BY <1>1 DEF Begin, Conflicted, Aborted, Replay, Reject, Commit, Committed, Unknown, Die
<1>4. told' = [told EXCEPT ![c] = Told(c)']
  <2>1. ASSUME NEW d \in Callers, d # c PROVE Told(d)' = Told(d)
    BY <1>1, <1>3, <2>1 DEF Told
  <2> QED BY <2>1
<1>5. Told(c) = "pending"
  BY <1>1 DEF LinkedAt, Told, Outcomes, Begin, Conflicted, Aborted, Reject, Commit, Committed, Unknown, Die
<1>6. Told(c)' = "pending" => told' = told
  BY <1>4, <1>5
<1>7. CASE at'[c] \in {"backoff", "working", "committing", "awaiting"}
  <2>1. Told(c)' = "pending"
    BY <1>7 DEF Told
  <2> QED BY <1>1, <1>6, <2>1
<1>8. CASE at'[c] \in Outcomes
  <2> DEFINE answer == Told(c)'
  <2>1. answer \in {"done", "failed", "unsure"}
    BY <1>8 DEF Told, Outcomes
  <2>2. at'[c] = "settled" => server[c] = "committed"
    <3>1. CASE Committed(c)
      BY <3>1 DEF Committed
    <3> QED BY <1>1, <3>1 DEF Begin, Conflicted, Aborted, Replay, Reject, Commit, Unknown, Die
  <2>3. at'[c] \in {"refused", "rejected"} => server[c] # "committed"
    <3>1. CASE Conflicted(c) \/ Aborted(c)
      BY <3>1 DEF Conflicted, Aborted, Replayable
    <3>2. CASE Reject(c)
      BY <1>1, <3>2 DEF LinkedAt, Reject
    <3> QED BY <1>1, <3>1, <3>2 DEF Begin, Commit, Committed, Unknown, Die
  <2>4. answer = "done" => at'[c] = "settled"
    BY <1>8 DEF Told, Outcomes
  <2>5. answer = "failed" => at'[c] \in {"refused", "rejected"}
    BY <1>8 DEF Told, Outcomes
  <2>6. answer \in Atomic!Answers
    BY <2>1 DEF Atomic!Answers
  <2>7. told' = [told EXCEPT ![c] = answer] /\ told[c] = "pending"
    BY <1>4, <1>5
  <2> HIDE DEF answer
  <2>8. answer = "done" => \A a \in Touches[c] : [b \in Accounts |-> store[b].by][a][c] = 1
    BY <1>1, <1>2, <2>2, <2>4
  <2>9. answer = "failed" => \A a \in Touches[c] : [b \in Accounts |-> store[b].by][a][c] = 0
    BY <1>1, <1>2, <2>3, <2>5
  <2>10. PICK said \in Atomic!Answers : said = answer
    BY <2>6
  <2>11. Atomic!Tell(c, said)
    BY <1>1, <2>7, <2>8, <2>9, <2>10 DEF Atomic!Tell, Atomic!Applied, Atomic!Absent
  <2> QED BY <2>11
<1>9. at'[c] \in Where
  BY <1>1 DEF Where, Outcomes, Begin, Conflicted, Aborted, Replay, Reject, Commit, Committed, Unknown, Die
<1> QED BY <1>7, <1>8, <1>9 DEF Where

(* A commit that takes effect is the moment the whole work happens.        *)
LEMMA LandApplies == ASSUME IInv, NEW c \in Callers, Land(c) PROVE Atomic!Apply(c)
<1> DEFINE book == [a \in Accounts |-> store[a].by]
<1>1. /\ LinkedAt(c) /\ server[c] = "open" /\ sent[c] > 0 /\ sent[c] \in Nat /\ at' = at
      /\ Touches[c] \subseteq Accounts
  BY Constants DEF IInv, TypeOK, Linked, Land
<1>2. Told(c) \in {"pending", "unsure"}
  BY <1>1 DEF LinkedAt, Told
<1>3. \A a \in Touches[c] : book[a][c] = 0
  BY <1>1 DEF IInv, Booked
<1>4. ASSUME NEW a \in Accounts
      PROVE  book'[a] = IF a \in Touches[c] THEN [book[a] EXCEPT ![c] = 1] ELSE book[a]
  <2>1. CASE a \in Touches[c]
    <3>1. store'[a] = [version |-> store[a].version + 1, by |-> [store[a].by EXCEPT ![c] = 1]]
      BY <2>1, LandExact
    <3>2. store'[a].by = [store[a].by EXCEPT ![c] = 1]
      BY ONLY <3>1
    <3> QED BY <2>1, <3>2
  <2>2. CASE a \notin Touches[c]
    BY <2>2, LandExact
  <2> QED BY <2>1, <2>2
<1>5. book' = [a \in Accounts |-> IF a \in Touches[c] THEN [book[a] EXCEPT ![c] = 1] ELSE book[a]]
  BY <1>4
<1>6. [d \in Callers |-> Told(d)]' = [d \in Callers |-> Told(d)]
  BY <1>1 DEF Told
<1> QED BY <1>2, <1>3, <1>5, <1>6 DEF Atomic!Apply, Atomic!Absent

(* The runner implements work that happens at once                         *)
(* (transaction.runner.ts:10-31).                                          *)
THEOREM Implements == Spec => WorksAtOnce
<1> DEFINE image == <<[a \in Accounts |-> store[a].by], [c \in Callers |-> Told(c)]>>
<1>1. Init => Atomic!Init
  BY DEF Init, Atomic!Init, Told
<1>2. ASSUME IInv, [Next]_vars PROVE Atomic!Next \/ UNCHANGED image
  <2>1. ASSUME NEW c \in Callers,
               \/ Begin(c) \/ Conflicted(c) \/ Aborted(c) \/ Reject(c) \/ Commit(c) \/ Committed(c)
               \/ Unknown(c) \/ Die(c)
        PROVE  Atomic!Next \/ UNCHANGED image
    BY <1>2, <2>1, ClientTells DEF Atomic!Next
  <2>2. ASSUME NEW c \in Callers, Land(c) PROVE Atomic!Next
    BY <1>2, <2>2, LandApplies DEF Atomic!Next
  <2>3. ASSUME NEW c \in Callers, GiveUp(c) \/ \E a \in Accounts : Write(c, a) PROVE UNCHANGED image
    <3>1. store' = store /\ at' = at
      BY <2>3 DEF GiveUp, Write
    <3> QED BY <3>1 DEF Told
  <2>4. ASSUME NEW a \in Accounts, Patch(a) PROVE UNCHANGED image
    <3>1. at' = at /\ store' = [store EXCEPT ![a].version = @ + 1] /\ store \in [Accounts -> Account]
      BY <1>2, <2>4 DEF IInv, TypeOK, Patch
    <3>2. ASSUME NEW b \in Accounts PROVE store'[b].by = store[b].by
      BY <3>1 DEF Account
    <3> QED BY <3>1, <3>2 DEF Told
  <2>5. CASE UNCHANGED vars
    BY <2>5 DEF vars, Told
  <2> QED BY <1>2, <2>1, <2>2, <2>3, <2>4, <2>5 DEF Next, Progress
<1>3. ASSUME IInv, [Next]_vars PROVE [Atomic!Next]_image
  BY <1>2, <1>3
<1> QED BY <1>1, <1>3, Invariant, PTL DEF Spec, WorksAtOnce, Atomic!Spec
=============================================================================
