------------------------- MODULE TransactionRunner -------------------------
(***************************************************************************)
(* TransactionRunner.run (database/transaction.runner.ts), the loop around *)
(* every money movement of the bank, over MongoDB transactions.            *)
(*                                                                         *)
(* A caller's work reads and writes the accounts it touches; what the work *)
(* computes is left out, and an account only remembers whose work is in    *)
(* it.  The database is modelled from how the runner uses it: a snapshot   *)
(* taken when the transaction starts, a write conflict as soon as a        *)
(* transaction writes what another has written, a commit that takes effect *)
(* on the server at some moment the client may not hear of.                *)
(***************************************************************************)
EXTENDS Integers

CONSTANTS
  Callers,         \* concurrent calls of run, of any number of processes
  Accounts,        \* the documents they write
  Touches,         \* Touches[c]: the accounts the work of c writes
  MaxAttempts,     \* DEFAULT_MAX_ATTEMPTS
  CommitAttempts,  \* COMMIT_ATTEMPTS
  MaxVersion,      \* bound: a rename outside transactions is not made beyond it
  Faults           \* may replies get lost, the server abort, a process die?

ASSUME RunnerAssumption ==
  /\ Touches \in [Callers -> (SUBSET Accounts) \ {{}}]
  /\ MaxAttempts \in Nat \ {0} /\ CommitAttempts \in Nat \ {0} /\ MaxVersion \in Nat
  /\ Faults \in BOOLEAN

VARIABLES
  store,    \* the committed accounts
  server,   \* what the server knows of the latest transaction of each caller
  snap,     \* the accounts as that transaction sees them
  written,  \* the accounts it has written
  at,       \* where run is
  attempt,  \* attempts begun
  sent      \* commits sent in this attempt

vars == <<store, server, snap, written, at, attempt, sent>>

Account    == [version : Nat, by : [Callers -> Nat]]
Outcomes   == {"settled", "refused", "rejected", "unsure", "dead"}
Where      == {"backoff", "working", "committing", "awaiting"} \cup Outcomes

-----------------------------------------------------------------------------
(* Plausible mistakes, each named after the definition it would replace.   *)

Replayable_Unknown(c) == server[c] = "aborted" \/ sent[c] > 0
Conflict_Locks(c, a)  == \E d \in Callers \ {c} : server[d] = "open" /\ a \in written[d]
Collides_Waits(c)     == \E a \in Touches[c] \ written[c] : store[a].version # snap[c][a].version

-----------------------------------------------------------------------------
(* The database.                                                           *)

(* A write conflict: another open transaction has written the account, or  *)
(* somebody committed it since the snapshot.  writeBalances' own condition *)
(* on the version (BalanceWriteConflictError) fails in the second case and *)
(* carries the same label.                                                 *)
Conflict(c, a) ==
  \/ \E d \in Callers \ {c} : server[d] = "open" /\ a \in written[d]
  \/ store[a].version # snap[c][a].version

(* What the transaction puts in the place of an account: what it read and  *)
(* its own work.                                                           *)
Version(c, a) ==
  [version |-> snap[c][a].version + 1, by |-> [snap[c][a].by EXCEPT ![c] = @ + 1]]

(* A commit that was sent takes effect.                                    *)
Land(c) ==
  /\ server[c] = "open" /\ sent[c] > 0
  /\ store' = [a \in Accounts |-> IF a \in written[c] THEN Version(c, a) ELSE store[a]]
  /\ server' = [server EXCEPT ![c] = "committed"]
  /\ UNCHANGED <<snap, written, at, attempt, sent>>

(* The server gives a transaction up: an election, or nobody came back.    *)
GiveUp(c) ==
  /\ server[c] = "open"
  /\ Faults \/ at[c] \in Outcomes
  /\ server' = [server EXCEPT ![c] = "aborted"]
  /\ UNCHANGED <<store, snap, written, at, attempt, sent>>

(* AccountRepository.patch without a session: it waits for whoever has     *)
(* written the account.                                                    *)
Patch(a) ==
  /\ store[a].version < MaxVersion
  /\ \A c \in Callers : server[c] = "open" => a \notin written[c]
  /\ store' = [store EXCEPT ![a].version = @ + 1]
  /\ UNCHANGED <<server, snap, written, at, attempt, sent>>

-----------------------------------------------------------------------------
(* The runner.                                                             *)

(* A session and its snapshot for every attempt.                           *)
Begin(c) ==
  /\ at[c] = "backoff"
  /\ at' = [at EXCEPT ![c] = "working"]
  /\ attempt' = [attempt EXCEPT ![c] = @ + 1]
  /\ server' = [server EXCEPT ![c] = "open"]
  /\ snap' = [snap EXCEPT ![c] = store]
  /\ written' = [written EXCEPT ![c] = {}]
  /\ sent' = [sent EXCEPT ![c] = 0]
  /\ store' = store

(* One write of the work, in whatever order it makes them.                 *)
Write(c, a) ==
  /\ at[c] = "working" /\ server[c] = "open"
  /\ a \in Touches[c] \ written[c] /\ ~Conflict(c, a)
  /\ written' = [written EXCEPT ![c] = @ \cup {a}]
  /\ UNCHANGED <<store, server, snap, at, attempt, sent>>

(* An attempt that failed for good or for now.                             *)
Exhausted(c) == attempt[c] = MaxAttempts
Replay(c)    == at' = [at EXCEPT ![c] = IF Exhausted(c) THEN "refused" ELSE "backoff"]

(* The work ran into a conflict: abort, and once more.                     *)
Collides(c) == \E a \in Touches[c] \ written[c] : Conflict(c, a)
Conflicted(c) ==
  /\ at[c] = "working" /\ server[c] = "open" /\ Collides(c)
  /\ server' = [server EXCEPT ![c] = "aborted"]
  /\ Replay(c)
  /\ UNCHANGED <<store, snap, written, attempt, sent>>

(* isTransient: nothing was committed.                                     *)
Replayable(c) == server[c] = "aborted"

(* An operation, or a commit, finds the transaction gone.                  *)
Aborted(c) ==
  /\ at[c] \in {"working", "awaiting"} /\ Replayable(c)
  /\ Replay(c)
  /\ UNCHANGED <<store, server, snap, written, attempt, sent>>

(* The work throws an error of its own; the abort may not arrive.          *)
Reject(c) ==
  /\ at[c] = "working"
  /\ at' = [at EXCEPT ![c] = "rejected"]
  /\ \/ server' = [server EXCEPT ![c] = "aborted"]
     \/ Faults /\ server' = server
  /\ UNCHANGED <<store, snap, written, attempt, sent>>

(* commit: the call.                                                       *)
Commit(c) ==
  /\ \/ at[c] = "committing"
     \/ at[c] = "working" /\ written[c] = Touches[c]
  /\ at' = [at EXCEPT ![c] = "awaiting"]
  /\ sent' = [sent EXCEPT ![c] = @ + 1]
  /\ UNCHANGED <<store, server, snap, written, attempt>>

(* Its answer; a commit that landed before is answered again.              *)
Committed(c) ==
  /\ at[c] = "awaiting" /\ server[c] = "committed"
  /\ at' = [at EXCEPT ![c] = "settled"]
  /\ UNCHANGED <<store, server, snap, written, attempt, sent>>

(* No answer: the commit alone is tried again, a bounded number of times.  *)
Unknown(c) ==
  /\ Faults /\ at[c] = "awaiting"
  /\ at' = [at EXCEPT ![c] = IF sent[c] = CommitAttempts THEN "unsure" ELSE "committing"]
  /\ UNCHANGED <<store, server, snap, written, attempt, sent>>

Die(c) ==
  /\ Faults /\ at[c] \notin Outcomes
  /\ at' = [at EXCEPT ![c] = "dead"]
  /\ UNCHANGED <<store, server, snap, written, attempt, sent>>

-----------------------------------------------------------------------------
Init ==
  /\ store   = [a \in Accounts |-> [version |-> 0, by |-> [c \in Callers |-> 0]]]
  /\ server  = [c \in Callers |-> "none"]
  /\ snap    = [c \in Callers |-> store]
  /\ written = [c \in Callers |-> {}]
  /\ at      = [c \in Callers |-> "backoff"]
  /\ attempt = [c \in Callers |-> 0]
  /\ sent    = [c \in Callers |-> 0]

Progress(c) ==
  \/ Begin(c) \/ \E a \in Accounts : Write(c, a)
  \/ Conflicted(c) \/ Aborted(c) \/ Commit(c) \/ Committed(c)

Next ==
  \/ \E c \in Callers : Progress(c) \/ Reject(c) \/ Unknown(c) \/ Die(c) \/ Land(c) \/ GiveUp(c)
  \/ \E a \in Accounts : Patch(a)

Spec == Init /\ [][Next]_vars

(* A live process goes on; the server carries out the commits it gets and  *)
(* times out the transactions nobody comes back to.                        *)
Fairness == \A c \in Callers :
  WF_vars(Progress(c)) /\ WF_vars(Land(c)) /\ WF_vars(GiveUp(c) /\ at[c] \in Outcomes)

LiveSpec == Spec /\ Fairness

-----------------------------------------------------------------------------
(* What the runner promises.                                               *)

TypeOK ==
  /\ store \in [Accounts -> Account]
  /\ server \in [Callers -> {"none", "open", "committed", "aborted"}]
  /\ snap \in [Callers -> [Accounts -> Account]]
  /\ written \in [Callers -> SUBSET Accounts]
  /\ at \in [Callers -> Where]
  /\ attempt \in [Callers -> 0..MaxAttempts]
  /\ sent \in [Callers -> 0..CommitAttempts]

(* A work that settled is in every account it touches, once; one that was  *)
(* refused is in none; and no work is ever in some of them or twice, even  *)
(* when the process died or the commit's fate is unknown                   *)
(* (transaction.runner.ts:10-27).                                          *)
AppliedOnce ==
  \A c \in Callers, a \in Accounts :
    /\ a \notin Touches[c] => store[a].by[c] = 0
    /\ \A b \in Touches[c] : a \in Touches[c] => store[a].by[c] = store[b].by[c]
    /\ store[a].by[c] <= 1
    /\ at[c] = "settled" /\ a \in Touches[c] => store[a].by[c] = 1
    /\ at[c] \in {"refused", "rejected"} => store[a].by[c] = 0

(* Every call is answered, however often it loses to another, and no       *)
(* transaction keeps its accounts locked for ever.                         *)
Answered ==
  \A c \in Callers : <>(at[c] \in Outcomes) /\ []<>(server[c] # "open")

(* Seen by its callers, this is work that happens at once.                 *)
Told(c) ==
  CASE at[c] = "settled" -> "done"
    [] at[c] \in {"refused", "rejected"} -> "failed"
    [] at[c] \in {"unsure", "dead"} -> "unsure"
    [] OTHER -> "pending"

Atomic == INSTANCE AtomicWork WITH
  book <- [a \in Accounts |-> store[a].by], told <- [c \in Callers |-> Told(c)]
WorksAtOnce == Atomic!Spec
=============================================================================
