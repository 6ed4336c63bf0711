---------------------------- MODULE IdempotencyKeys ----------------------------
(***************************************************************************)
(* Idempotency keys (idempotency/), the interceptor around every request   *)
(* that moves money.                                                       *)
(*                                                                         *)
(* A request claims its key, runs the handler, stores the handler's answer *)
(* under the key and answers; or it fails and gives the key back.  Each of *)
(* these is a write of its own, and a process may die between any two.     *)
(* Clients send a request again under the same key, under a fresh one, or  *)
(* under the key of another request by mistake.                            *)
(*                                                                         *)
(* What a handler does is left to the module that extends this one:        *)
(* Transfers here.  Keys are those of one user (the scope of the unique    *)
(* index), and a request body stands for its hash.                         *)
(***************************************************************************)
EXTENDS Naturals

CONSTANTS
  Calls,   \* places for requests that are served at the same time
  Keys,    \* Idempotency-Key values clients use
  Bodies   \* what requests ask for

None == 0

ASSUME BodiesAssumption == None \notin Bodies

VARIABLES
  key,     \* the stored keys
  call     \* the requests being served

interceptor == <<key, call>>

-----------------------------------------------------------------------------
(* Types.                                                                  *)

IdempotencyStatus == {"ABSENT", "IN_FLIGHT", "COMPLETED"}
Absent            == [status |-> "ABSENT", body |-> None, response |-> None]
KeyDocument       == [status : IdempotencyStatus, body : Bodies \cup {None},
                      response : Bodies \cup {None}]

(* answer: the body whose result the client was sent; None after an error. *)
Call == [at : {"idle", "executing", "executed", "failed"}, key : Keys,
         body : Bodies \cup {None}, answer : Bodies \cup {None}]

-----------------------------------------------------------------------------
(* Plausible mistakes, each named after the definition it would replace.   *)

Reused_Never(k, b)    == FALSE
Claimable_Finished(k) == key[k].status # "IN_FLIGHT"

-----------------------------------------------------------------------------
(* IdempotencyService.begin.                                               *)

At(c, where) == call[c].at = where

(* claim: an insert, which the unique index lets one request make.         *)
Claimable(k) == key[k].status = "ABSENT"
Claim(c, k, b) ==
  /\ At(c, "idle") /\ Claimable(k)
  /\ key' = [key EXCEPT ![k] = [status |-> "IN_FLIGHT", body |-> b, response |-> None]]
  /\ call' = [call EXCEPT ![c] = [at |-> "executing", key |-> k, body |-> b, answer |-> None]]

(* The answers of a key that is taken: the request is still being served,  *)
(* the key was used for another body, or here is what was answered then.   *)
Reused(k, b) == key[k].body # b
TurnedAway(c, k, b) ==
  /\ At(c, "idle") /\ ~Claimable(k)
  /\ Reused(k, b) \/ key[k].status = "IN_FLIGHT"
  /\ call' = [call EXCEPT ![c] = [at |-> "idle", key |-> k, body |-> b, answer |-> None]]
  /\ UNCHANGED key

Replay(c, k, b) ==
  /\ At(c, "idle") /\ ~Claimable(k)
  /\ ~Reused(k, b) /\ key[k].status = "COMPLETED"
  /\ call' = [call EXCEPT ![c] = [at |-> "idle", key |-> k, body |-> b,
                                  answer |-> key[k].response]]
  /\ UNCHANGED key

-----------------------------------------------------------------------------
(* IdempotencyInterceptor.execute, around the handler.                     *)

(* The handler returns the result of body b, or throws.                    *)
Returns(c, b) ==
  /\ At(c, "executing")
  /\ call' = [call EXCEPT ![c].at = "executed", ![c].answer = b]
Throws(c) ==
  /\ At(c, "executing")
  /\ call' = [call EXCEPT ![c].at = "failed"]

(* complete: the answer stored under the key, whoever holds it now.        *)
Stored(c) ==
  LET k == call[c].key IN
  key' = [key EXCEPT ![k] = IF @.status = "ABSENT" THEN @
                            ELSE [@ EXCEPT !.status = "COMPLETED",
                                           !.response = call[c].answer]]

Complete(c) ==
  /\ At(c, "executed")
  /\ Stored(c)
  /\ call' = [call EXCEPT ![c].at = "idle"]

(* Storing the answer fails, or its acknowledgement is lost: catchError    *)
(* takes it for a failure of the handler.                                  *)
CompleteFails(c) ==
  /\ At(c, "executed")
  /\ Stored(c) \/ UNCHANGED key
  /\ call' = [call EXCEPT ![c].at = "failed", ![c].answer = None]

(* release: the key is given back unless an answer is stored under it; and *)
(* when that fails too, the key is left to its TTL.                        *)
Releasable(k) == key[k].status = "IN_FLIGHT"
Release(c) ==
  LET k == call[c].key IN
  /\ At(c, "failed")
  /\ \/ key' = [key EXCEPT ![k] = IF Releasable(k) THEN Absent ELSE @]
     \/ UNCHANGED key
  /\ call' = [call EXCEPT ![c].at = "idle"]

-----------------------------------------------------------------------------
(* What happens around them.                                               *)

(* The process that serves a request dies; its client hears nothing.       *)
Dropped(c) ==
  /\ ~At(c, "idle")
  /\ call' = [call EXCEPT ![c].at = "idle", ![c].answer = None]

(* The TTL index removes a key a day after it was claimed.  No request is  *)
(* served for a day.                                                       *)
Held(k) == \E c \in Calls : ~At(c, "idle") /\ call[c].key = k
Expire(k) ==
  /\ key[k].status # "ABSENT" /\ ~Held(k)
  /\ key' = [key EXCEPT ![k] = Absent]
  /\ UNCHANGED call

InterceptorInit ==
  /\ key = [k \in Keys |-> Absent]
  /\ call \in [Calls -> {[at |-> "idle", key |-> k, body |-> None, answer |-> None] : k \in Keys}]
=============================================================================
