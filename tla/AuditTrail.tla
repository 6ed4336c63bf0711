------------------------------- MODULE AuditTrail -------------------------------
(***************************************************************************)
(* The audit trail (audit/): events chained by hashes, appended by any     *)
(* number of processes at the same time, and verified meanwhile.           *)
(*                                                                         *)
(* A writer reads the latest event, makes its own with the next sequence   *)
(* number and the latest one's hash, and inserts it; the unique sequence   *)
(* decides between writers, and who loses starts over, a few times.  The   *)
(* hash of an event stands for its content, so it is the event's id here.  *)
(***************************************************************************)
EXTENDS Naturals, FiniteSets

CONSTANTS
  Events,       \* what is to be recorded
  Genesis,      \* genesisHash
  MaxAppends,   \* MAX_APPEND_ATTEMPTS
  VerifyBatch   \* VERIFY_BATCH_SIZE

ASSUME AuditAssumption ==
  Genesis \notin Events /\ MaxAppends \in Nat \ {0} /\ VerifyBatch \in Nat \ {0}

VARIABLES
  trail,     \* the stored events
  writer,    \* the call of AuditService.record for each event
  verifier   \* a verification of the chain

audit == <<trail, writer, verifier>>

FIRST_SEQUENCE == 1
AuditEvent == [sequence : Nat, id : Events, previousHash : Events \cup {Genesis}]
TrailEnd   == [sequence : Nat, hash : Events \cup {Genesis}]
NoTail     == [sequence |-> FIRST_SEQUENCE - 1, hash |-> Genesis]
NoWriter   == [at |-> "waiting", attempt |-> 1, tail |-> NoTail, began |-> 0]

-----------------------------------------------------------------------------
(* Plausible mistakes, each named after the definition it would replace.   *)

SequenceTaken_Never(s) == FALSE

-----------------------------------------------------------------------------
(* findLatest.                                                             *)
Latest ==
  IF trail = {} THEN NoTail
  ELSE LET e == CHOOSE x \in trail : \A y \in trail : y.sequence <= x.sequence
       IN  [sequence |-> e.sequence, hash |-> e.id]

(* AuditService.append: read the tail.                                     *)
ReadTail(e) ==
  LET fresh == writer[e].at = "waiting" IN
  /\ fresh \/ writer[e].at = "again"
  /\ writer' = [writer EXCEPT
       ![e] = [at |-> "chained", attempt |-> writer[e].attempt, tail |-> Latest,
               began |-> IF fresh THEN Cardinality(trail) ELSE writer[e].began]]
  /\ UNCHANGED <<trail, verifier>>

(* Insert what was chained onto it, unless the sequence number is taken.   *)
(* A call that has ended keeps nothing.                                    *)
SequenceTaken(s) == \E x \in trail : x.sequence = s
AppendEvent(e) ==
  LET next == writer[e].tail.sequence + 1 IN
  /\ writer[e].at = "chained" /\ ~SequenceTaken(next)
  /\ trail' = trail \cup {[sequence |-> next, id |-> e, previousHash |-> writer[e].tail.hash]}
  /\ writer' = [writer EXCEPT ![e] = [NoWriter EXCEPT !.at = "saved"]]
  /\ UNCHANGED verifier

(* Somebody was faster: once more, or CONFLICT after the last attempt.     *)
LastAttempt(e) == writer[e].attempt = MaxAppends
LoseRace(e) ==
  /\ writer[e].at = "chained" /\ SequenceTaken(writer[e].tail.sequence + 1)
  /\ writer' = IF LastAttempt(e)
               THEN [writer EXCEPT ![e].at = "conflict"]
               ELSE [writer EXCEPT ![e].at = "again", ![e].attempt = @ + 1]
  /\ UNCHANGED <<trail, verifier>>

(* A lost connection or a crash, before or after the insert took effect:   *)
(* AuditInterceptor lets the request it belongs to succeed all the same.   *)
Swallow(e) ==
  /\ writer[e].at \in {"again", "chained", "saved"}
  /\ writer' = [writer EXCEPT ![e] = [NoWriter EXCEPT !.at = "swallowed"]]
  /\ UNCHANGED <<trail, verifier>>

-----------------------------------------------------------------------------
(* verifyAuditChain: a batch at a time, each read when the last is done.   *)

NoVerification == [expected |-> FIRST_SEQUENCE, previousHash |-> Genesis, verdict |-> "running"]
Batch(from) ==
  {e \in trail : /\ e.sequence >= from
                 /\ Cardinality({x \in trail : from <= x.sequence /\ x.sequence < e.sequence})
                      < VerifyBatch}

(* checkChainLink along the batch, in the order of the sequence numbers.   *)
Links(batch, from, hash) ==
  \A e \in batch :
    LET before == {x \in batch : x.sequence < e.sequence} IN
    /\ e.sequence = from + Cardinality(before)
    /\ e.previousHash = IF before = {} THEN hash
                        ELSE (CHOOSE x \in before : \A y \in before : y.sequence <= x.sequence).id

VerifyNext ==
  LET batch == Batch(verifier.expected)
      good  == Links(batch, verifier.expected, verifier.previousHash)
      last  == CHOOSE e \in batch : \A x \in batch : x.sequence <= e.sequence
  IN
  /\ verifier.verdict = "running"
  /\ verifier' =
       IF ~good THEN [verifier EXCEPT !.verdict = "broken"]
       ELSE [expected |-> verifier.expected + Cardinality(batch),
             previousHash |-> IF batch = {} THEN verifier.previousHash ELSE last.id,
             verdict |-> IF Cardinality(batch) < VerifyBatch THEN "verified" ELSE "running"]
  /\ UNCHANGED <<trail, writer>>

VerifyAgain ==
  /\ verifier.verdict # "running"
  /\ verifier' = NoVerification
  /\ UNCHANGED <<trail, writer>>

-----------------------------------------------------------------------------
AuditInit ==
  /\ trail = {}
  /\ writer = [e \in Events |-> NoWriter]
  /\ verifier = NoVerification

AuditNext ==
  \/ \E e \in Events : ReadTail(e) \/ AppendEvent(e) \/ LoseRace(e) \/ Swallow(e)
  \/ VerifyNext \/ VerifyAgain

AuditTypeOK ==
  /\ trail \subseteq AuditEvent
  /\ writer \in [Events -> [at : {"waiting", "again", "chained", "saved", "conflict", "swallowed"},
                            attempt : 1..MaxAppends, tail : TrailEnd, began : Nat]]
  /\ verifier \in [expected : Nat, previousHash : Events \cup {Genesis},
                   verdict : {"running", "verified", "broken"}]

(* The trail is one unbroken chain however many writers race for its end,  *)
(* and a verification that runs meanwhile never reports it broken; an      *)
(* event is recorded once, and a writer gives up only when others did      *)
(* record as many events as it had attempts.                               *)
ChainUnbroken ==
  /\ \A e \in trail :
       \/ e.sequence = FIRST_SEQUENCE /\ e.previousHash = Genesis
       \/ \E x \in trail : x.sequence = e.sequence - 1 /\ e.previousHash = x.id
  /\ \A e, x \in trail : e.sequence = x.sequence \/ e.id = x.id => e = x
  /\ verifier.verdict # "broken"
  /\ \A e \in Events :
       /\ writer[e].at = "saved" => \E x \in trail : x.id = e
       /\ writer[e].at = "conflict" =>
            /\ \A x \in trail : x.id # e
            /\ Cardinality(trail) >= writer[e].began + MaxAppends
=============================================================================
