---------------------- MODULE CardAuthorisationsProofs ----------------------
(***************************************************************************)
(* Theorems about CardAuthorisations for any number of authorisations and  *)
(* of callers of the expiry pass, any amounts, any ceiling and any number  *)
(* of increments.                                                          *)
(*                                                                         *)
(* What has to be true of one authorisation, its holds and its entries is  *)
(* Sound, a statement about values.  A step changes at most one            *)
(* authorisation, so the argument is the same for all of them: the new     *)
(* values are Sound, and the account's reserve moves by what that          *)
(* authorisation's reserve moves by (OneChanges).                          *)
(***************************************************************************)
EXTENDS CardAuthorisations, TotalsProofs, TLAPS

USE DEF Auths, HoldIds, Amounts

-----------------------------------------------------------------------------
(* The inductive invariant.                                                *)

(* What the refunds booked under each suffix add up to.                    *)
RefundTotal(r) == Total([n \in 1..(MaxAmount + 1) |-> r[n - 1]], MaxAmount + 1)

Unbooked(a) == a.status \in {"NONE", "DECLINED"}

(* An authorisation names its latest hold, and holds are placed in order.  *)
HoldsSound(a, h, g) ==
  /\ Unbooked(a) => a.amount = 0 /\ a.holdId = 0 /\ a.incrementCount = 0
  /\ ~Unbooked(a) => a.holdId = a.incrementCount + 1 /\ a.amount \in Amounts
  /\ \A k \in HoldIds : k > a.holdId => h[k].status = "NONE"
  /\ \A k \in HoldIds : h[k].status = "ACTIVE" =>
       a.status \in {"APPROVED", "EXPIRED"} /\ k = a.holdId /\ h[k].amount = a.amount
  /\ a.status = "APPROVED" /\ g # "lapsed" => h[a.holdId].status = "ACTIVE"

(* The journal agrees with the record, and every suffix still to be used   *)
(* is free: the suffix of a refund is what was back before it.             *)
EntriesSound(a, c, r) ==
  /\ c = a.capturedAmount
  /\ a.status = "CAPTURED" => c \in 1..a.amount
  /\ a.status # "CAPTURED" => c = 0
  /\ a.refundedAmount <= c
  /\ \A n \in 0..MaxAmount : n >= a.refundedAmount => r[n] = 0
  /\ RefundTotal(r) = a.refundedAmount

Sound(a, h, g, c, r) == HoldsSound(a, h, g) /\ EntriesSound(a, c, r)

AllSound == \A p \in Auths : Sound(auth[p], hold[p], age[p], captureEntry[p], refundEntry[p])

(* A pass that is past its first write is on an authorisation it expired.  *)
PassesSound ==
  \A s \in Sweepers : sweep[s].at \in {"closed", "releasing"} =>
    auth[sweep[s].on].status = "EXPIRED" /\ sweep[s].read[sweep[s].on] # 0

(* What is decided and not yet booked is not in the collection.            *)
OffersSound == \A p \in Auths : offer[p] # 0 => auth[p].status = "NONE"

IInv == TypeOK /\ AllSound /\ PassesSound /\ OffersSound /\ HoldTotalExact /\ ReserveCovered

-----------------------------------------------------------------------------
(* Types of the pieces.                                                    *)

(* The constants are naturals, and there is at least one authorisation.    *)
LEMMA CardConstants ==
  /\ NumAuths \in Nat /\ NumAuths >= 1 /\ MaxAmount \in Nat /\ Funds \in Nat
  /\ DailyLimit \in Nat /\ MaxIncrements \in Nat
BY CardAssumption

(* What an authorisation holds, and how it may change.                     *)
LEMMA AuthFields ==
  ASSUME NEW a \in Authorisation
  PROVE  /\ a.status \in AuthorisationStatus /\ a.amount \in Nat
         /\ a.holdId \in 0..(MaxIncrements + 1) /\ a.incrementCount \in 0..MaxIncrements
         /\ a.capturedAmount \in Nat /\ a.refundedAmount \in Nat
         /\ \A s \in AuthorisationStatus : [a EXCEPT !.status = s] \in Authorisation
         /\ \A s \in AuthorisationStatus, m \in Nat :
              [a EXCEPT !.status = s, !.capturedAmount = m] \in Authorisation
         /\ \A s \in AuthorisationStatus, m \in Nat, k \in 0..(MaxIncrements + 1) :
              [a EXCEPT !.status = s, !.amount = m, !.holdId = k] \in Authorisation
         /\ \A m \in Nat, k \in 0..(MaxIncrements + 1), i \in 0..MaxIncrements :
              [a EXCEPT !.amount = m, !.holdId = k, !.incrementCount = i] \in Authorisation
         /\ \A m \in Nat : [a EXCEPT !.refundedAmount = m] \in Authorisation
BY DEF Authorisation

(* The holds of one authorisation, and how they may change.                *)
LEMMA HoldFields ==
  ASSUME NEW h \in [HoldIds -> Hold], NEW k \in HoldIds
  PROVE  /\ h[k].status \in HoldStatus /\ h[k].amount \in Nat
         /\ \A x \in Hold : [h EXCEPT ![k] = x] \in [HoldIds -> Hold]
BY DEF Hold

(* What a pass holds.                                                      *)
LEMMA SweepFields ==
  ASSUME NEW s \in Sweep
  PROVE  /\ s.at \in SweepAt /\ s.on \in Auths
         /\ \A p \in Auths : s.read[p] \in 0..(MaxIncrements + 1)
         /\ \A at \in SweepAt : [s EXCEPT !.at = at] \in Sweep
         /\ \A at \in SweepAt, p \in Auths : [s EXCEPT !.at = at, !.on = p] \in Sweep
         /\ \A p \in Auths : [at |-> "next", read |-> [s.read EXCEPT ![p] = 0], on |-> 1] \in Sweep
<1>1. 1 \in Auths
  BY CardConstants
<1>2. 0 \in 0..(MaxIncrements + 1) /\ "next" \in SweepAt
  BY CardConstants DEF SweepAt
<1> QED BY <1>1, <1>2 DEF Sweep

(* An idle pass is of its type.                                            *)
LEMMA IdleType == NoSweep \in Sweep /\ NoSweep.at = "idle"
<1>1. 1 \in Auths /\ 0 \in 0..(MaxIncrements + 1)
  BY CardConstants
<1> QED BY <1>1 DEF NoSweep, Sweep, SweepAt, Unread

(* The reserve of one authorisation.                                       *)
ReservedOf(a, h) == IF \E k \in HoldIds : h[k].status = "ACTIVE" THEN a.amount ELSE 0

(* What an authorisation reserves is a natural.                            *)
LEMMA ReservedType ==
  ASSUME NEW a \in Authorisation, NEW h
  PROVE  ReservedOf(a, h) \in Nat
BY AuthFields DEF ReservedOf

-----------------------------------------------------------------------------
(* One authorisation changes.                                              *)

OneChanges(p, a, h, g, c, r) ==
  /\ auth' = [auth EXCEPT ![p] = a]
  /\ hold' = [hold EXCEPT ![p] = h]
  /\ age'  = [age EXCEPT ![p] = g]
  /\ captureEntry' = [captureEntry EXCEPT ![p] = c]
  /\ refundEntry'  = [refundEntry EXCEPT ![p] = r]

(* The collections of a state with the right types.                        *)
Collections ==
  /\ auth \in [Auths -> Authorisation]
  /\ hold \in [Auths -> [HoldIds -> Hold]]
  /\ age \in [Auths -> Age]
  /\ captureEntry \in [Auths -> 0..MaxAmount]
  /\ refundEntry \in [Auths -> [0..MaxAmount -> 0..MaxAmount]]

(* When one authorisation takes sound values and the account's reserve     *)
(* follows it, every authorisation is sound and the reserve is still       *)
(* exact.                                                                  *)
LEMMA OneStep ==
  ASSUME TypeOK, AllSound, HoldTotalExact,
         NEW p \in Auths, NEW a \in Authorisation, NEW h \in [HoldIds -> Hold], NEW g \in Age,
         NEW c \in 0..MaxAmount, NEW r \in [0..MaxAmount -> 0..MaxAmount],
         OneChanges(p, a, h, g, c, r),
         Sound(a, h, g, c, r),
         holdTotal' = holdTotal - ReservedOf(auth[p], hold[p]) + ReservedOf(a, h)
  PROVE  Collections' /\ AllSound' /\ HoldTotalExact' /\ holdTotal' \in Nat
<1>1. Collections'
  BY DEF Collections, OneChanges, TypeOK
<1>2. AllSound'
  BY DEF AllSound, OneChanges, TypeOK
<1> DEFINE f == [q \in Auths |-> Reserved(q)]
<1>3. f \in [1..NumAuths -> Int]
  <2>1. \A q \in Auths : auth[q].amount \in Nat
    BY AuthFields DEF TypeOK
  <2> QED BY <2>1 DEF Reserved
<1>4. f[p] = ReservedOf(auth[p], hold[p])
  BY DEF Reserved, ReservedOf, Active
<1>5. ReservedOf(a, h) \in Nat
  BY ReservedType
<1>6. [q \in Auths |-> Reserved(q)'] = [f EXCEPT ![p] = ReservedOf(a, h)]
  <2>1. Reserved(p)' = ReservedOf(a, h)
    BY DEF Reserved, ReservedOf, Active, OneChanges, TypeOK
  <2>2. \A q \in Auths : q # p => Reserved(q)' = Reserved(q)
    BY DEF Reserved, Active, OneChanges, TypeOK
  <2> QED BY <2>1, <2>2
<1>10. f \in [1..NumAuths -> Nat]
  <2>1. \A q \in Auths : auth[q].amount \in Nat
    BY AuthFields DEF TypeOK
  <2> QED BY <2>1 DEF Reserved
<1>0. holdTotal = Total(f, NumAuths)
  BY DEF HoldTotalExact
<1> HIDE DEF f
<1>7. Total([f EXCEPT ![p] = ReservedOf(a, h)], NumAuths) =
        Total(f, NumAuths) - f[p] + ReservedOf(a, h)
  <2> DEFINE v == ReservedOf(a, h)
  <2>1. v \in Int
    BY <1>5
  <2> HIDE DEF v
  <2>2. Total([f EXCEPT ![p] = v], NumAuths) = Total(f, NumAuths) - f[p] + v
    BY <1>3, <2>1, TotalUpdate, CardConstants
  <2> QED BY <2>2 DEF v
<1>8. holdTotal' = Total([f EXCEPT ![p] = ReservedOf(a, h)], NumAuths)
  BY <1>4, <1>7, <1>0
<1>9. HoldTotalExact'
  BY <1>6, <1>8 DEF HoldTotalExact
<1>12. [f EXCEPT ![p] = ReservedOf(a, h)] \in [1..NumAuths -> Nat]
  BY <1>10, <1>5
<1>11. holdTotal' \in Nat
  BY <1>8, <1>12, TotalBounds, CardConstants
<1> QED BY <1>1, <1>2, <1>9, <1>11

(* What the invariant says of one authorisation.                           *)
LEMMA At ==
  ASSUME TypeOK, AllSound, NEW p \in Auths
  PROVE  /\ auth[p] \in Authorisation /\ hold[p] \in [HoldIds -> Hold] /\ age[p] \in Age
         /\ captureEntry[p] \in 0..MaxAmount
         /\ refundEntry[p] \in [0..MaxAmount -> 0..MaxAmount]
         /\ HoldsSound(auth[p], hold[p], age[p])
         /\ EntriesSound(auth[p], captureEntry[p], refundEntry[p])
BY DEF TypeOK, AllSound, Sound

(* When the passes hold still, they stay sound if nothing expired changes  *)
(* status; when the offers do, if the authorisation was asked for before.  *)
LEMMA PassesStand ==
  ASSUME TypeOK, PassesSound, NEW p \in Auths, NEW a \in Authorisation,
         auth' = [auth EXCEPT ![p] = a], auth[p].status = "EXPIRED" => a.status = "EXPIRED",
         sweep' = sweep
  PROVE  PassesSound'
<1> SUFFICES ASSUME NEW s \in Sweepers, sweep[s].at \in {"closed", "releasing"}
             PROVE  /\ auth'[sweep[s].on].status = "EXPIRED"
                    /\ sweep[s].read[sweep[s].on] # 0
  BY DEF PassesSound
<1>1. sweep[s].on \in Auths
  BY SweepFields DEF TypeOK
<1>2. auth[sweep[s].on].status = "EXPIRED" /\ sweep[s].read[sweep[s].on] # 0
  BY DEF PassesSound
<1> QED BY <1>1, <1>2 DEF TypeOK

(* The same for the offers (AuthorisationGuardService).                    *)
LEMMA OffersStand ==
  ASSUME TypeOK, OffersSound, NEW p \in Auths, NEW a,
         auth' = [auth EXCEPT ![p] = a], auth[p].status = a.status \/ auth[p].status # "NONE",
         offer' = offer
  PROVE  OffersSound'
BY DEF OffersSound, TypeOK

-----------------------------------------------------------------------------
(* The three things that happen to holds, as values.                       *)

(* A first hold makes a reserve out of none.                               *)
LEMMA PlaceValues ==
  ASSUME NEW a \in Authorisation, NEW h \in [HoldIds -> Hold], NEW g, HoldsSound(a, h, g),
         a.status = "NONE", NEW m \in Amounts,
         NEW b \in Authorisation, b.status = "APPROVED", b.amount = m, b.holdId = 1,
         b.incrementCount = a.incrementCount,
         NEW y \in [HoldIds -> Hold], y[1].status = "ACTIVE", y[1].amount = m,
         \A j \in HoldIds : j # 1 => y[j] = h[j]
  PROVE  HoldsSound(b, y, g) /\ ReservedOf(b, y) = m /\ ReservedOf(a, h) = 0
<1>1. 1 \in HoldIds /\ m \in Nat
  BY CardConstants
<1>2. \A k \in HoldIds : h[k].status = "NONE"
  BY CardConstants DEF HoldsSound, Unbooked
<1>3. b.incrementCount = 0
  BY DEF HoldsSound, Unbooked
<1>4. \A k \in HoldIds : k # 1 => y[k].status = "NONE"
  BY <1>1, <1>2
<1>5. HoldsSound(b, y, g)
  BY <1>1, <1>3, <1>4 DEF HoldsSound, Unbooked
<1> QED BY <1>1, <1>2, <1>4, <1>5 DEF ReservedOf

Resolves(a, h, g, k, b, y) ==
  /\ a \in Authorisation /\ h \in [HoldIds -> Hold] /\ HoldsSound(a, h, g)
  /\ k \in HoldIds /\ h[k].status = "ACTIVE"
  /\ b \in Authorisation /\ ~Unbooked(b) /\ (b.status = "APPROVED" => g = "lapsed")
  /\ b.amount = a.amount /\ b.holdId = a.holdId /\ b.incrementCount = a.incrementCount
  /\ y \in [HoldIds -> Hold] /\ y[k].status # "ACTIVE"
  /\ \A j \in HoldIds : j # k => y[j] = h[j]

(* A resolved hold leaves no reserve.                                      *)
LEMMA ResolveValues ==
  ASSUME NEW a, NEW h, NEW g, NEW k, NEW b, NEW y, Resolves(a, h, g, k, b, y)
  PROVE  HoldsSound(b, y, g) /\ ReservedOf(b, y) = 0 /\ ReservedOf(a, h) = h[k].amount
<1> USE DEF Resolves
<1>1. /\ ~Unbooked(a) /\ k = a.holdId
      /\ \A j \in HoldIds : j # k => h[j].status # "ACTIVE"
  BY DEF HoldsSound, Unbooked
<1>2. \A j \in HoldIds : y[j].status # "ACTIVE"
  BY <1>1
<1>3. \A j \in HoldIds : j > b.holdId => y[j].status = "NONE"
  <2> SUFFICES ASSUME NEW j \in HoldIds, j > b.holdId PROVE y[j].status = "NONE"
    OBVIOUS
  <2>1. j # k
    BY <1>1 DEF Authorisation
  <2> QED BY <2>1 DEF HoldsSound
<1>4. HoldsSound(b, y, g)
  BY <1>1, <1>2, <1>3 DEF HoldsSound
<1> QED BY <1>2, <1>4 DEF ReservedOf, HoldsSound

Replaces(a, h, g, k, m, b, y) ==
  /\ a \in Authorisation /\ h \in [HoldIds -> Hold] /\ HoldsSound(a, h, g)
  /\ k \in HoldIds /\ h[k].status = "ACTIVE" /\ k = a.holdId /\ a.status = "APPROVED"
  /\ k + 1 \in HoldIds /\ m \in Amounts
  /\ b \in Authorisation /\ b.status = "APPROVED" /\ b.amount = m /\ b.holdId = k + 1
  /\ b.incrementCount = a.incrementCount + 1
  /\ y \in [HoldIds -> Hold] /\ y[k].status = "RELEASED"
  /\ y[k + 1].status = "ACTIVE" /\ y[k + 1].amount = m
  /\ \A j \in HoldIds : j # k /\ j # k + 1 => y[j] = h[j]

(* An increment's new hold is the whole of the new reserve.                *)
LEMMA ReplaceValues ==
  ASSUME NEW a, NEW h, NEW g, NEW k, NEW m, NEW b, NEW y, Replaces(a, h, g, k, m, b, y)
  PROVE  HoldsSound(b, y, g) /\ ReservedOf(b, y) = m /\ ReservedOf(a, h) = h[k].amount
<1> USE DEF Replaces
<1>1. k = a.incrementCount + 1
  BY DEF HoldsSound, Unbooked
<1>2. \A j \in HoldIds : j > k + 1 => y[j].status = "NONE"
  BY DEF HoldsSound
<1>3. \A j \in HoldIds : j # k => h[j].status # "ACTIVE"
  BY DEF HoldsSound
<1>4. \A j \in HoldIds : y[j].status = "ACTIVE" => j = k + 1
  BY <1>3
<1>6. HoldsSound(b, y, g)
  BY <1>1, <1>2, <1>4 DEF HoldsSound, Unbooked
<1>7. ReservedOf(b, y) = m
  BY DEF ReservedOf
<1>8. ReservedOf(a, h) = h[k].amount
  BY DEF ReservedOf, HoldsSound
<1> QED BY <1>6, <1>7, <1>8

-----------------------------------------------------------------------------
(* The pieces of a step put together.                                      *)

Surroundings ==
  /\ offer \in [Auths -> 0..MaxAmount]
  /\ account \in {"ACTIVE", "FROZEN"}
  /\ balance \in Nat /\ charged \in Nat
  /\ sweep \in [Sweepers -> Sweep]

(* The parts of the invariant, put together.                               *)
LEMMA Together ==
  ASSUME Collections', holdTotal' \in Nat, Surroundings', AllSound', PassesSound', OffersSound',
         HoldTotalExact', ReserveCovered'
  PROVE  IInv'
BY DEF IInv, TypeOK, Collections, Surroundings

(* Steps that leave the collections alone, but for time within a window.   *)
LEMMA RecordsStand ==
  ASSUME IInv, auth' = auth, hold' = hold, holdTotal' = holdTotal, captureEntry' = captureEntry,
         refundEntry' = refundEntry, age' \in [Auths -> Age],
         \A p \in Auths : age[p] = "lapsed" => age'[p] = "lapsed"
  PROVE  Collections' /\ AllSound' /\ HoldTotalExact' /\ holdTotal' \in Nat
<1>1. Collections' /\ holdTotal' \in Nat
  BY DEF IInv, TypeOK, Collections
<1>2. AllSound'
  <2> SUFFICES ASSUME NEW p \in Auths
               PROVE  Sound(auth[p], hold[p], age'[p], captureEntry[p], refundEntry[p])
    BY DEF AllSound
  <2>1. Sound(auth[p], hold[p], age[p], captureEntry[p], refundEntry[p])
    BY DEF IInv, AllSound
  <2> QED BY <2>1 DEF Sound, HoldsSound
<1>3. HoldTotalExact'
  <2>1. \A p \in Auths : Reserved(p)' = Reserved(p)
    BY DEF Reserved, Active
  <2>2. [p \in Auths |-> Reserved(p)'] = [p \in Auths |-> Reserved(p)]
    BY <2>1
  <2> QED BY <2>2 DEF IInv, HoldTotalExact
<1> QED BY <1>1, <1>2, <1>3

(* A request that is declined changes a status that reserves nothing.      *)
LEMMA DeclineStep ==
  ASSUME IInv, NEW p \in Auths, NEW g \in Age, auth[p].status = "NONE", auth' = Declined(p),
         hold' = hold, age' = [age EXCEPT ![p] = g], holdTotal' = holdTotal,
         captureEntry' = captureEntry, refundEntry' = refundEntry, sweep' = sweep
  PROVE  Collections' /\ AllSound' /\ HoldTotalExact' /\ holdTotal' \in Nat /\ PassesSound'
<1> DEFINE a == [auth[p] EXCEPT !.status = "DECLINED"]
<1>1. /\ auth[p] \in Authorisation /\ hold[p] \in [HoldIds -> Hold] /\ captureEntry[p] \in 0..MaxAmount
      /\ refundEntry[p] \in [0..MaxAmount -> 0..MaxAmount]
      /\ HoldsSound(auth[p], hold[p], age[p])
      /\ EntriesSound(auth[p], captureEntry[p], refundEntry[p])
  BY At DEF IInv
<1>2. a \in Authorisation /\ a.status = "DECLINED"
      /\ a.amount = auth[p].amount /\ a.holdId = auth[p].holdId
      /\ a.incrementCount = auth[p].incrementCount
      /\ a.capturedAmount = auth[p].capturedAmount /\ a.refundedAmount = auth[p].refundedAmount
  BY <1>1 DEF Authorisation, AuthorisationStatus
<1>3. OneChanges(p, a, hold[p], g, captureEntry[p], refundEntry[p])
  BY DEF OneChanges, Declined, IInv, TypeOK
<1> HIDE DEF a
<1>4. Sound(a, hold[p], g, captureEntry[p], refundEntry[p])
  <2>1. HoldsSound(a, hold[p], g)
    BY <1>1, <1>2 DEF HoldsSound, Unbooked
  <2>2. EntriesSound(a, captureEntry[p], refundEntry[p])
    BY <1>1, <1>2 DEF EntriesSound
  <2> QED BY <2>1, <2>2 DEF Sound
<1>5. ReservedOf(a, hold[p]) = ReservedOf(auth[p], hold[p]) /\ ReservedOf(a, hold[p]) \in Nat
  BY <1>1, <1>2, ReservedType DEF ReservedOf
<1>6. holdTotal' = holdTotal - ReservedOf(auth[p], hold[p]) + ReservedOf(a, hold[p])
  BY <1>5 DEF IInv, TypeOK
<1>7. Collections' /\ AllSound' /\ HoldTotalExact' /\ holdTotal' \in Nat
  BY <1>1, <1>2, <1>3, <1>4, <1>6, OneStep DEF IInv
<1>8. PassesSound'
  BY <1>2, <1>3, PassesStand DEF IInv, OneChanges
<1> QED BY <1>7, <1>8

-----------------------------------------------------------------------------
(* Authorising.                                                            *)

(* What is decided is an amount that was asked for, or nothing.            *)
LEMMA DecisionType ==
  ASSUME IInv, NEW m \in Amounts, NEW partial \in BOOLEAN
  PROVE  Decision(m, partial) \in 0..MaxAmount
<1>1. Available(holdTotal) \in Nat
  BY DEF IInv, TypeOK, Available
<1>2. Spent \in Int
  <2>1. \A p \in Auths : SpendOf(p) \in Int
    <3>1. \A p \in Auths : auth[p] \in Authorisation
      BY DEF IInv, TypeOK
    <3>2. \A p \in Auths : auth[p].amount \in Nat /\ auth[p].capturedAmount \in Nat
      BY <3>1 DEF Authorisation
    <3> QED BY <3>2 DEF SpendOf
  <2>2. [p \in Auths |-> SpendOf(p)] \in [1..NumAuths -> Int]
    BY <2>1
  <2> QED BY <2>2, TotalType, CardConstants DEF Spent
<1>3. Headroom \in Nat
  BY <1>2, CardConstants DEF Headroom
<1>4. Ceiling \in Nat
  BY <1>1, <1>3 DEF Ceiling
<1> QED BY <1>4, CardConstants DEF Decision

(* Taking an offer back keeps the offers' type.                            *)
LEMMA OfferCleared ==
  ASSUME TypeOK, NEW p \in Auths
  PROVE  [offer EXCEPT ![p] = 0] \in [Auths -> 0..MaxAmount]
<1>1. 0 \in 0..MaxAmount
  BY CardConstants
<1>2. offer \in [Auths -> 0..MaxAmount]
  BY DEF TypeOK
<1> QED BY <1>1, <1>2

(* Deciding (evaluate and its caller) keeps the invariant.                 *)
LEMMA EvaluateStep ==
  ASSUME IInv, NEW p \in Auths, NEW m \in Amounts, NEW partial \in BOOLEAN,
         Evaluate(p, m, partial)
  PROVE  IInv'
<1> DEFINE d == Decision(m, partial)
<1>1. auth[p].status = "NONE" /\ "today" \in Age /\ d \in 0..MaxAmount
  BY DecisionType DEF Evaluate, Unasked, Age
<1>2. Surroundings'
  BY <1>1 DEF Evaluate, IInv, TypeOK, Surroundings, funds
<1>3. ReserveCovered'
  BY DEF Evaluate, IInv, ReserveCovered, funds
<1>4. CASE d > 0
  <2>1. auth' = auth /\ offer' = [offer EXCEPT ![p] = d]
    BY <1>4 DEF Evaluate
  <2>2. Collections' /\ AllSound' /\ HoldTotalExact' /\ holdTotal' \in Nat
    <3> DEFINE a == auth[p]
    <3>1. /\ a \in Authorisation /\ hold[p] \in [HoldIds -> Hold] /\ captureEntry[p] \in 0..MaxAmount
          /\ refundEntry[p] \in [0..MaxAmount -> 0..MaxAmount]
          /\ HoldsSound(a, hold[p], age[p])
          /\ EntriesSound(a, captureEntry[p], refundEntry[p])
      BY At DEF IInv
    <3>2. OneChanges(p, a, hold[p], "today", captureEntry[p], refundEntry[p])
      BY <2>1 DEF OneChanges, Evaluate, IInv, TypeOK, books
    <3>3. Sound(a, hold[p], "today", captureEntry[p], refundEntry[p])
      BY <3>1, <1>1 DEF Sound, HoldsSound
    <3>4. holdTotal' = holdTotal - ReservedOf(a, hold[p]) + ReservedOf(a, hold[p])
      BY <3>1, ReservedType DEF Evaluate, IInv, TypeOK
    <3> QED BY <3>1, <3>2, <3>3, <3>4, <1>1, OneStep DEF IInv
  <2>3. PassesSound'
    BY <2>1 DEF Evaluate, IInv, PassesSound
  <2>4. OffersSound'
    BY <2>1, <1>1 DEF IInv, OffersSound, TypeOK
  <2> QED BY <2>2, <2>3, <2>4, <1>2, <1>3, Together
<1>5. CASE ~(d > 0)
  <2>1. auth' = Declined(p) /\ offer' = offer
    BY <1>5 DEF Evaluate
  <2>2. Collections' /\ AllSound' /\ HoldTotalExact' /\ holdTotal' \in Nat /\ PassesSound'
    BY <2>1, <1>1, DeclineStep DEF Evaluate, books
  <2>3. OffersSound'
    BY <2>1, <1>1 DEF Evaluate, Unasked, Declined, IInv, OffersSound, TypeOK
  <2> QED BY <2>2, <2>3, <1>2, <1>3, Together
<1> QED BY <1>4, <1>5

(* A refusal for other reasons keeps the invariant.                        *)
LEMMA RefuseStep ==
  ASSUME IInv, NEW p \in Auths, Refuse(p)
  PROVE  IInv'
<1>1. auth[p].status = "NONE" /\ age[p] \in Age /\ age' = [age EXCEPT ![p] = age[p]]
  BY DEF Refuse, Unasked, IInv, TypeOK
<1>2. Surroundings'
  BY DEF Refuse, IInv, TypeOK, Surroundings, funds
<1>3. ReserveCovered'
  BY DEF Refuse, IInv, ReserveCovered, funds
<1>4. Collections' /\ AllSound' /\ HoldTotalExact' /\ holdTotal' \in Nat /\ PassesSound'
  BY <1>1, DeclineStep DEF Refuse, books
<1>5. OffersSound'
  BY DEF Refuse, Unasked, Declined, IInv, OffersSound, TypeOK
<1> QED BY <1>2, <1>3, <1>4, <1>5, Together

(* A decision that is never booked keeps the invariant.                    *)
LEMMA AbandonStep ==
  ASSUME IInv, NEW p \in Auths, Abandon(p)
  PROVE  IInv'
<1>1. Collections' /\ AllSound' /\ HoldTotalExact' /\ holdTotal' \in Nat
  BY RecordsStand DEF Abandon, books, IInv, TypeOK
<1>2. Surroundings'
  BY OfferCleared DEF Abandon, IInv, TypeOK, Surroundings, funds
<1>3. PassesSound' /\ OffersSound' /\ ReserveCovered'
  BY DEF Abandon, IInv, TypeOK, PassesSound, OffersSound, ReserveCovered, funds
<1> QED BY <1>1, <1>2, <1>3, Together

(* Booking an approval, or declining it after all, keeps the invariant.    *)
LEMMA ApproveStep ==
  ASSUME IInv, NEW p \in Auths, Approve(p)
  PROVE  IInv'
<1> DEFINE m == offer[p]
<1>1. auth[p].status = "NONE" /\ m \in Amounts /\ m \in Nat
  BY CardConstants DEF Approve, IInv, OffersSound, TypeOK
<1>2. Surroundings'
  BY OfferCleared DEF Approve, IInv, TypeOK, Surroundings, funds
<1>3. CASE Covers(holdTotal, m)
  <2> DEFINE a == [auth[p] EXCEPT !.status = "APPROVED", !.amount = m, !.holdId = 1]
             h == [hold[p] EXCEPT ![1] = [status |-> "ACTIVE", amount |-> m]]
  <2>1. /\ auth' = Approved(p) /\ hold' = Place(p, 1, m) /\ holdTotal' = holdTotal + m
        /\ age' = age /\ captureEntry' = captureEntry /\ refundEntry' = refundEntry
        /\ sweep' = sweep /\ offer' = [offer EXCEPT ![p] = 0] /\ balance' = balance
        /\ charged' = charged
    BY <1>3 DEF Approve, books, funds
  <2>2. /\ auth[p] \in Authorisation /\ hold[p] \in [HoldIds -> Hold] /\ age[p] \in Age
        /\ captureEntry[p] \in 0..MaxAmount /\ refundEntry[p] \in [0..MaxAmount -> 0..MaxAmount]
        /\ HoldsSound(auth[p], hold[p], age[p])
        /\ EntriesSound(auth[p], captureEntry[p], refundEntry[p])
    BY At DEF IInv
  <2>3. OneChanges(p, a, h, age[p], captureEntry[p], refundEntry[p])
    BY <2>1 DEF OneChanges, Approved, Place, IInv, TypeOK
  <2>4. a \in Authorisation /\ h \in [HoldIds -> Hold]
    <3>1. 1 \in 0..(MaxIncrements + 1) /\ 1 \in HoldIds
      BY CardConstants
    <3>2. [status |-> "ACTIVE", amount |-> m] \in Hold
      BY <1>1 DEF Hold, HoldStatus
    <3> QED BY <3>1, <3>2, <2>2, <1>1 DEF Authorisation, AuthorisationStatus
  <2>6. /\ a.status = "APPROVED" /\ a.amount = m /\ a.holdId = 1
        /\ a.incrementCount = auth[p].incrementCount
        /\ a.capturedAmount = auth[p].capturedAmount
        /\ a.refundedAmount = auth[p].refundedAmount
    BY <2>2 DEF Authorisation
  <2>61. /\ h[1].status = "ACTIVE" /\ h[1].amount = m
         /\ \A j \in HoldIds : j # 1 => h[j] = hold[p][j]
    <3>1. 1 \in HoldIds
      BY CardConstants
    <3>2. hold[p] \in [HoldIds -> Hold]
      BY <2>2
    <3> QED BY <3>1, <3>2
  <2> HIDE DEF a, h, m
  <2>5. HoldsSound(a, h, age[p]) /\ ReservedOf(a, h) = m /\ ReservedOf(auth[p], hold[p]) = 0
    <3> DEFINE b == auth[p]
               x == hold[p]
               g == age[p]
    <3>1. /\ b \in Authorisation /\ x \in [HoldIds -> Hold] /\ HoldsSound(b, x, g)
          /\ b.status = "NONE" /\ a.incrementCount = b.incrementCount
          /\ \A j \in HoldIds : j # 1 => h[j] = x[j]
      BY <1>1, <2>2, <2>6, <2>61
    <3> HIDE DEF b, x, g
    <3>2. HoldsSound(a, h, g) /\ ReservedOf(a, h) = m /\ ReservedOf(b, x) = 0
      BY <3>1, <1>1, <2>4, <2>6, <2>61, PlaceValues
    <3> QED BY <3>2 DEF b, x, g
  <2>7. EntriesSound(a, captureEntry[p], refundEntry[p])
    BY <1>1, <2>2, <2>6 DEF EntriesSound
  <2>8. holdTotal' = holdTotal - ReservedOf(auth[p], hold[p]) + ReservedOf(a, h)
    BY <1>1, <2>1, <2>5 DEF IInv, TypeOK
  <2>9. Collections' /\ AllSound' /\ HoldTotalExact' /\ holdTotal' \in Nat
    BY <2>2, <2>3, <2>4, <2>5, <2>7, <2>8, OneStep DEF IInv, Sound
  <2>10. PassesSound'
    BY <1>1, <2>1, <2>3, <2>4, PassesStand DEF IInv, OneChanges
  <2>11. OffersSound'
    BY <2>1, <2>3 DEF IInv, TypeOK, OffersSound, OneChanges
  <2>12. ReserveCovered'
    BY <1>1, <1>3, <2>1 DEF IInv, TypeOK, ReserveCovered, Covers, Available
  <2> QED BY <2>9, <2>10, <2>11, <2>12, <1>2, Together
<1>4. CASE ~Covers(holdTotal, m)
  <2>1. /\ auth' = Declined(p) /\ hold' = hold /\ holdTotal' = holdTotal
        /\ offer' = [offer EXCEPT ![p] = 0] /\ UNCHANGED <<age, funds, books, sweep>>
    BY <1>4 DEF Approve
  <2>2. age[p] \in Age /\ age' = [age EXCEPT ![p] = age[p]]
    BY <2>1 DEF IInv, TypeOK
  <2>3. Collections' /\ AllSound' /\ HoldTotalExact' /\ holdTotal' \in Nat /\ PassesSound'
    BY <2>1, <2>2, <1>1, DeclineStep DEF books
  <2>4. OffersSound'
    BY <2>1 DEF Declined, IInv, OffersSound, TypeOK
  <2>5. ReserveCovered'
    BY <2>1 DEF IInv, ReserveCovered, funds
  <2> QED BY <2>3, <2>4, <2>5, <1>2, Together
<1> QED BY <1>3, <1>4

-----------------------------------------------------------------------------
(* What becomes of an approval.                                            *)

(* A hold is resolved and its authorisation, if it changes at all, keeps   *)
(* its amount: what the reserve gives back is that amount.                 *)
LEMMA ResolveStep ==
  ASSUME IInv, NEW p \in Auths, NEW k \in HoldIds, Active(p, k),
         NEW s \in HoldStatus, s # "ACTIVE",
         NEW b \in Authorisation, ~Unbooked(b), b.status = "APPROVED" => age[p] = "lapsed",
         b.amount = auth[p].amount, b.holdId = auth[p].holdId,
         b.incrementCount = auth[p].incrementCount,
         NEW c \in 0..MaxAmount, EntriesSound(b, c, refundEntry[p]),
         auth' = [auth EXCEPT ![p] = b], hold' = Resolved(p, k, s), age' = age,
         holdTotal' = holdTotal - hold[p][k].amount,
         captureEntry' = [captureEntry EXCEPT ![p] = c], refundEntry' = refundEntry
  PROVE  Collections' /\ AllSound' /\ HoldTotalExact' /\ holdTotal' \in Nat
<1> DEFINE a == auth[p]
           x == hold[p]
           g == age[p]
           h == [x EXCEPT ![k].status = s]
<1>1. /\ a \in Authorisation /\ x \in [HoldIds -> Hold] /\ g \in Age
      /\ refundEntry[p] \in [0..MaxAmount -> 0..MaxAmount]
      /\ HoldsSound(a, x, g)
  BY At DEF IInv
<1>2. OneChanges(p, b, h, g, c, refundEntry[p])
  BY DEF OneChanges, Resolved, IInv, TypeOK
<1>3. x[k].status = "ACTIVE" /\ holdTotal' = holdTotal - x[k].amount /\ x[k].amount \in Nat
  BY <1>1, HoldFields DEF Active
<1>4. /\ b.status = "APPROVED" => g = "lapsed"
      /\ b.amount = a.amount /\ b.holdId = a.holdId /\ b.incrementCount = a.incrementCount
  OBVIOUS
<1> HIDE DEF a, x, g
<1>5. /\ h \in [HoldIds -> Hold] /\ h[k].status # "ACTIVE"
      /\ \A j \in HoldIds : j # k => h[j] = x[j]
  <2>1. /\ x \in [HoldIds -> Hold] /\ k \in HoldIds /\ s \in HoldStatus
        /\ h = [x EXCEPT ![k].status = s]
    BY <1>1
  <2>2. s # "ACTIVE"
    OBVIOUS
  <2> HIDE DEF h
  <2>3. h \in [HoldIds -> Hold] /\ h[k].status = s /\ \A j \in HoldIds : j # k => h[j] = x[j]
    BY ONLY <2>1 DEF Hold
  <2> QED BY <2>2, <2>3
<1> HIDE DEF h
<1>6. HoldsSound(b, h, g) /\ ReservedOf(b, h) = 0 /\ ReservedOf(a, x) = x[k].amount
  <2>1. Resolves(a, x, g, k, b, h)
    BY <1>1, <1>3, <1>4, <1>5 DEF Resolves
  <2> QED BY ONLY <2>1, ResolveValues
<1>7. holdTotal' = holdTotal - ReservedOf(a, x) + ReservedOf(b, h)
  BY <1>3, <1>6 DEF IInv, TypeOK
<1>8. holdTotal' = holdTotal - ReservedOf(auth[p], hold[p]) + ReservedOf(b, h)
  BY <1>7 DEF a, x
<1>9. Sound(b, h, g, c, refundEntry[p])
  BY <1>6 DEF Sound
<1> QED BY <1>1, <1>2, <1>5, <1>8, <1>9, OneStep DEF IInv

(* A reversal keeps the invariant.                                         *)
LEMMA ReverseStep ==
  ASSUME IInv, NEW p \in Auths, Reverse(p)
  PROVE  IInv'
<1> DEFINE k == auth[p].holdId
           b == [auth[p] EXCEPT !.status = "REVERSED"]
<1>1. /\ auth[p] \in Authorisation /\ captureEntry[p] \in 0..MaxAmount
      /\ HoldsSound(auth[p], hold[p], age[p])
      /\ EntriesSound(auth[p], captureEntry[p], refundEntry[p])
  BY At DEF IInv
<1>2. auth[p].status = "APPROVED" /\ k \in HoldIds /\ Active(p, k)
  BY <1>1, CardConstants DEF Reverse, Open, OPEN_STATUSES, HoldsSound, Unbooked, Authorisation
<1>3. /\ b \in Authorisation /\ b.status = "REVERSED" /\ b.amount = auth[p].amount
      /\ b.holdId = auth[p].holdId /\ b.incrementCount = auth[p].incrementCount
      /\ b.capturedAmount = auth[p].capturedAmount /\ b.refundedAmount = auth[p].refundedAmount
  BY <1>1 DEF Authorisation, AuthorisationStatus
<1>4. /\ auth' = [auth EXCEPT ![p] = b] /\ hold' = Resolved(p, k, "RELEASED") /\ age' = age
      /\ holdTotal' = holdTotal - hold[p][k].amount
      /\ captureEntry' = [captureEntry EXCEPT ![p] = captureEntry[p]] /\ refundEntry' = refundEntry
      /\ sweep' = sweep /\ offer' = offer /\ balance' = balance /\ charged' = charged
      /\ account' = account
  <2>1. auth' = [auth EXCEPT ![p] = b]
    BY DEF Reverse, IInv, TypeOK
  <2>2. captureEntry' = [captureEntry EXCEPT ![p] = captureEntry[p]]
    BY DEF Reverse, books, IInv, TypeOK
  <2> QED BY <2>1, <2>2 DEF Reverse, books, funds
<1> HIDE DEF b, k
<1>5. ~Unbooked(b) /\ EntriesSound(b, captureEntry[p], refundEntry[p])
  BY <1>1, <1>2, <1>3 DEF Unbooked, EntriesSound
<1>6. "RELEASED" \in HoldStatus /\ b.status # "APPROVED"
  BY <1>3 DEF HoldStatus
<1>7. Collections' /\ AllSound' /\ HoldTotalExact' /\ holdTotal' \in Nat
  BY <1>1, <1>2, <1>3, <1>4, <1>5, <1>6, ResolveStep
<1>8. Surroundings'
  BY <1>4 DEF IInv, TypeOK, Surroundings
<1>9. PassesSound'
  BY <1>2, <1>3, <1>4, PassesStand DEF IInv
<1>10. OffersSound'
  BY <1>2, <1>4, OffersStand DEF IInv
<1>11. ReserveCovered'
  <2>1. hold[p][k].amount \in Nat
    BY <1>2, HoldFields DEF IInv, TypeOK
  <2> QED BY <1>4, <2>1 DEF IInv, TypeOK, ReserveCovered
<1> QED BY <1>7, <1>8, <1>9, <1>10, <1>11, Together

(* A capture keeps the invariant.                                          *)
LEMMA CaptureStep ==
  ASSUME IInv, NEW p \in Auths, NEW m \in Amounts, Capture(p, m)
  PROVE  IInv'
<1> DEFINE k == auth[p].holdId
           b == [auth[p] EXCEPT !.status = "CAPTURED", !.capturedAmount = m]
<1>1. /\ auth[p] \in Authorisation /\ captureEntry[p] \in 0..MaxAmount
      /\ HoldsSound(auth[p], hold[p], age[p])
      /\ EntriesSound(auth[p], captureEntry[p], refundEntry[p])
  BY At DEF IInv
<1>2. /\ auth[p].status = "APPROVED" /\ k \in HoldIds /\ Active(p, k)
      /\ m <= hold[p][k].amount /\ balance >= m /\ m \in Nat /\ m >= 1 /\ m \in 0..MaxAmount
  BY <1>1, CardConstants DEF Capture, HoldsSound, Unbooked, Authorisation, WithinFloor
<1>3. /\ b \in Authorisation /\ b.status = "CAPTURED" /\ b.amount = auth[p].amount
      /\ b.holdId = auth[p].holdId /\ b.incrementCount = auth[p].incrementCount
      /\ b.capturedAmount = m /\ b.refundedAmount = auth[p].refundedAmount
  BY <1>1, <1>2 DEF Authorisation, AuthorisationStatus
<1>4. captureEntry[p] = 0 /\ Once(captureEntry[p], m) = m /\ hold[p][k].amount = auth[p].amount
      /\ auth[p].refundedAmount <= 0
  BY <1>1, <1>2 DEF EntriesSound, Once, HoldsSound, Active
<1>5. /\ auth' = [auth EXCEPT ![p] = b] /\ hold' = Resolved(p, k, "CAPTURED") /\ age' = age
      /\ holdTotal' = holdTotal - hold[p][k].amount
      /\ captureEntry' = [captureEntry EXCEPT ![p] = m] /\ refundEntry' = refundEntry
      /\ sweep' = sweep /\ offer' = offer /\ balance' = balance - m /\ charged' = charged
      /\ account' = account
  <2>1. auth' = [auth EXCEPT ![p] = b]
    BY DEF Capture, IInv, TypeOK
  <2>2. captureEntry[p] + Once(captureEntry[p], m) = m
    BY <1>2, <1>4
  <2>3. captureEntry' = [captureEntry EXCEPT ![p] = m] /\ balance' = balance - m
    BY <2>2, <1>4 DEF Capture
  <2> QED BY <2>1, <2>3 DEF Capture
<1> HIDE DEF b, k
<1>6. ~Unbooked(b) /\ EntriesSound(b, m, refundEntry[p])
  <2>1. b.refundedAmount <= m /\ m \in 1..b.amount
    BY <1>1, <1>2, <1>3, <1>4 DEF Authorisation
  <2> QED BY <1>1, <1>3, <2>1 DEF Unbooked, EntriesSound
<1>7. "CAPTURED" \in HoldStatus /\ b.status # "APPROVED"
  BY <1>3 DEF HoldStatus
<1>8. Collections' /\ AllSound' /\ HoldTotalExact' /\ holdTotal' \in Nat
  BY <1>1, <1>2, <1>3, <1>5, <1>6, <1>7, ResolveStep
<1>9. Surroundings'
  BY <1>2, <1>5 DEF IInv, TypeOK, Surroundings
<1>10. PassesSound'
  BY <1>2, <1>3, <1>5, PassesStand DEF IInv
<1>11. OffersSound'
  BY <1>2, <1>5, OffersStand DEF IInv
<1>12. ReserveCovered'
  <2>1. hold[p][k].amount \in Nat
    BY <1>2, HoldFields DEF IInv, TypeOK
  <2> QED BY <1>2, <1>5, <2>1 DEF IInv, TypeOK, ReserveCovered
<1> QED BY <1>8, <1>9, <1>10, <1>11, <1>12, Together

(* The hold sweep keeps the invariant, under any authorisation.            *)
LEMMA ExpireHoldStep ==
  ASSUME IInv, NEW p \in Auths, NEW k \in HoldIds, ExpireHold(p, k)
  PROVE  IInv'
<1>1. /\ auth[p] \in Authorisation /\ captureEntry[p] \in 0..MaxAmount
      /\ HoldsSound(auth[p], hold[p], age[p])
      /\ EntriesSound(auth[p], captureEntry[p], refundEntry[p])
  BY At DEF IInv
<1>2. age[p] = "lapsed" /\ Active(p, k) /\ ~Unbooked(auth[p])
  BY <1>1 DEF ExpireHold, HoldsSound, Unbooked, Active
<1>3. /\ auth' = [auth EXCEPT ![p] = auth[p]] /\ hold' = Resolved(p, k, "EXPIRED") /\ age' = age
      /\ holdTotal' = holdTotal - hold[p][k].amount
      /\ captureEntry' = [captureEntry EXCEPT ![p] = captureEntry[p]] /\ refundEntry' = refundEntry
  BY DEF ExpireHold, books, IInv, TypeOK
<1>4. "EXPIRED" \in HoldStatus
  BY DEF HoldStatus
<1>5. Collections' /\ AllSound' /\ HoldTotalExact' /\ holdTotal' \in Nat
  BY <1>1, <1>2, <1>3, <1>4, ResolveStep
<1>6. Surroundings' /\ PassesSound' /\ OffersSound'
  BY DEF ExpireHold, IInv, TypeOK, Surroundings, PassesSound, OffersSound, funds
<1>7. ReserveCovered'
  <2>1. hold[p][k].amount \in Nat
    BY HoldFields DEF IInv, TypeOK
  <2> QED BY <1>3, <2>1 DEF ExpireHold, funds, IInv, TypeOK, ReserveCovered
<1> QED BY <1>5, <1>6, <1>7, Together

(* An increment keeps the invariant.                                       *)
LEMMA IncrementStep ==
  ASSUME IInv, NEW p \in Auths, NEW m \in Amounts, Increment(p, m)
  PROVE  IInv'
<1> DEFINE a == auth[p]
           x == hold[p]
           g == age[p]
           k == a.holdId
           c == captureEntry[p]
           r == refundEntry[p]
           b == [a EXCEPT !.amount = m, !.holdId = k + 1, !.incrementCount = a.incrementCount + 1]
           h == [x EXCEPT ![k].status = "RELEASED",
                          ![k + 1] = [status |-> "ACTIVE", amount |-> m]]
<1>1. /\ a \in Authorisation /\ x \in [HoldIds -> Hold] /\ g \in Age
      /\ c \in 0..MaxAmount /\ r \in [0..MaxAmount -> 0..MaxAmount]
      /\ HoldsSound(a, x, g) /\ EntriesSound(a, c, r)
  BY At DEF IInv
<1>2. /\ a.status = "APPROVED" /\ a.incrementCount < MaxIncrements
      /\ x[k].status = "ACTIVE" /\ m > a.amount
      /\ Covers(holdTotal - x[k].amount, m)
      /\ holdTotal' = holdTotal - x[k].amount + m
  BY DEF Increment, Open, OPEN_STATUSES, Active
<1>3. /\ auth' = [auth EXCEPT ![p] = b] /\ hold' = [hold EXCEPT ![p] = h] /\ age' = age
      /\ sweep' = sweep /\ offer' = offer /\ balance' = balance /\ charged' = charged
      /\ account' = account /\ captureEntry' = captureEntry /\ refundEntry' = refundEntry
  <2>1. auth' = [auth EXCEPT ![p] = b]
    BY DEF Increment, IInv, TypeOK
  <2>2. hold' = [hold EXCEPT ![p] = h]
    BY DEF Increment, Replaced, IInv, TypeOK
  <2> QED BY <2>1, <2>2 DEF Increment, books, funds
<1>4. /\ k \in HoldIds /\ k + 1 \in HoldIds /\ k \in Nat
      /\ a.incrementCount + 1 \in 0..MaxIncrements
      /\ m \in Nat
  <2>1. k = a.incrementCount + 1 /\ a.incrementCount \in 0..MaxIncrements
    BY <1>1, <1>2, AuthFields DEF HoldsSound, Unbooked
  <2> QED BY <2>1, <1>2, CardConstants
<1>5. /\ b \in Authorisation /\ b.status = "APPROVED" /\ b.amount = m /\ b.holdId = k + 1
      /\ b.incrementCount = a.incrementCount + 1
      /\ b.capturedAmount = a.capturedAmount /\ b.refundedAmount = a.refundedAmount
  <2>1. k + 1 \in 0..(MaxIncrements + 1)
    BY <1>4
  <2> QED BY <2>1, <1>1, <1>2, <1>4 DEF Authorisation
<1>6. /\ h \in [HoldIds -> Hold] /\ h[k].status = "RELEASED"
      /\ h[k + 1].status = "ACTIVE" /\ h[k + 1].amount = m
      /\ \A j \in HoldIds : j # k /\ j # k + 1 => h[j] = x[j]
  <2> DEFINE new == [status |-> "ACTIVE", amount |-> m]
  <2>1. /\ new \in Hold /\ new.status = "ACTIVE" /\ new.amount = m /\ "RELEASED" \in HoldStatus
        /\ k # k + 1
    BY <1>4 DEF Hold, HoldStatus
  <2>2. h = [x EXCEPT ![k].status = "RELEASED", ![k + 1] = new]
    OBVIOUS
  <2> HIDE DEF a, x, h, k, new
  <2>3. x \in [HoldIds -> Hold] /\ k \in HoldIds /\ k + 1 \in HoldIds
    BY <1>1, <1>4
  <2> QED BY ONLY <2>1, <2>2, <2>3 DEF Hold
<1> HIDE DEF b, h
<1>7. Replaces(a, x, g, k, m, b, h)
  BY <1>1, <1>2, <1>4, <1>5, <1>6 DEF Replaces
<1>8. HoldsSound(b, h, g) /\ ReservedOf(b, h) = m /\ ReservedOf(a, x) = x[k].amount
  BY ONLY <1>7, ReplaceValues
<1>9. x[k].amount \in Nat
  BY <1>1, <1>4, HoldFields
<1>10. EntriesSound(b, c, r)
  BY <1>1, <1>2, <1>5 DEF EntriesSound
<1>11. OneChanges(p, b, h, g, c, r)
  BY <1>3 DEF OneChanges, IInv, TypeOK
<1>12. Sound(b, h, g, c, r) /\ holdTotal' = holdTotal - ReservedOf(a, x) + ReservedOf(b, h)
  BY <1>2, <1>8, <1>10 DEF Sound
<1>13. Collections' /\ AllSound' /\ HoldTotalExact' /\ holdTotal' \in Nat
  BY <1>1, <1>5, <1>6, <1>11, <1>12, OneStep DEF IInv
<1>14. Surroundings'
  BY <1>3 DEF IInv, TypeOK, Surroundings
<1>15. PassesSound'
  BY <1>2, <1>3, <1>5, PassesStand DEF IInv
<1>16. OffersSound'
  BY <1>2, <1>3, <1>5, OffersStand DEF IInv
<1>17. ReserveCovered'
  <2> DEFINE n == x[k].amount
             held == holdTotal - n
  <2>1. holdTotal' = held + m /\ Covers(held, m) /\ balance' = balance /\ charged' = charged
    BY <1>2, <1>3
  <2>2. held \in Int /\ balance \in Nat /\ charged \in Nat /\ m \in Nat /\ m >= 1
    BY <1>4, <1>9 DEF IInv, TypeOK
  <2> HIDE DEF held, n
  <2>3. held + m <= balance
    BY <2>1, <2>2 DEF Covers, Available
  <2>4. held + m <= balance + charged
    BY <2>2, <2>3
  <2> QED BY <2>1, <2>4 DEF ReserveCovered
<1> QED BY <1>13, <1>14, <1>15, <1>16, <1>17, Together
(* One suffix more: the refunds add up to what they did and the new one.   *)
RefundAdded(r, n, m, z) ==
  /\ r \in [0..MaxAmount -> 0..MaxAmount] /\ n \in 0..MaxAmount /\ m \in Nat /\ r[n] = 0
  /\ \A i \in 0..MaxAmount : z[i] = IF i = n THEN m ELSE r[i]

(* A refund under a free suffix adds its amount to the total.              *)
LEMMA RefundTotalUpdate ==
  ASSUME NEW r, NEW n, NEW m, NEW z, RefundAdded(r, n, m, z)
  PROVE  RefundTotal(z) = RefundTotal(r) + m
<1> USE DEF RefundAdded
<1> DEFINE N == MaxAmount + 1
           f == [i \in 1..N |-> r[i - 1]]
           e == [i \in 1..N |-> z[i - 1]]
<1>1. N \in Nat /\ n + 1 \in 1..N /\ m \in Int
  BY CardConstants
<1>2. f \in [1..N -> Int] /\ f[n + 1] = 0
  BY CardConstants
<1>3. e = [f EXCEPT ![n + 1] = m]
  <2>1. \A i \in 1..N : e[i] = IF i = n + 1 THEN m ELSE f[i]
    BY CardConstants
  <2> QED BY <2>1
<1>4. RefundTotal(z) = Total(e, N) /\ RefundTotal(r) = Total(f, N)
  BY DEF RefundTotal
<1> HIDE DEF N, f, e
<1>5. Total([f EXCEPT ![n + 1] = m], N) = Total(f, N) - f[n + 1] + m
  BY <1>1, <1>2, TotalUpdate
<1>6. Total(f, N) \in Int
  BY <1>1, <1>2, TotalType
<1> QED BY <1>1, <1>2, <1>3, <1>4, <1>5, <1>6

(* A refund keeps the invariant: its suffix is free.                       *)
LEMMA RefundStep ==
  ASSUME IInv, NEW p \in Auths, NEW m \in Amounts, Refund(p, m)
  PROVE  IInv'
<1> DEFINE a == auth[p]
           x == hold[p]
           g == age[p]
           c == captureEntry[p]
           r == refundEntry[p]
           n == a.refundedAmount
           b == [a EXCEPT !.refundedAmount = n + m]
           z == [r EXCEPT ![n] = m]
<1>1. /\ a \in Authorisation /\ x \in [HoldIds -> Hold] /\ g \in Age
      /\ c \in 0..MaxAmount /\ r \in [0..MaxAmount -> 0..MaxAmount]
      /\ HoldsSound(a, x, g) /\ EntriesSound(a, c, r)
  BY At DEF IInv
<1>2. a.status = "CAPTURED" /\ n + m <= a.capturedAmount /\ m \in Nat /\ m >= 1 /\ n \in Nat
  <2>1. a.status = "CAPTURED" /\ n + m <= a.capturedAmount
    BY DEF Refund, Refundable
  <2>2. n \in Nat
    BY <1>1, AuthFields
  <2>3. m \in Nat /\ m >= 1
    BY CardConstants
  <2> QED BY <2>1, <2>2, <2>3
<1>3. n \in 0..MaxAmount /\ r[n] = 0 /\ m \in 0..MaxAmount /\ n + m <= c
  <2>1. c = a.capturedAmount /\ \A i \in 0..MaxAmount : i >= n => r[i] = 0
    BY <1>1 DEF EntriesSound
  <2>2. n + m <= c
    BY <1>2, <2>1
  <2>3. c \in 0..MaxAmount
    BY <1>1
  <2> HIDE DEF a, c, r, n
  <2>4. n \in 0..MaxAmount /\ m \in 0..MaxAmount
    BY <1>2, <2>2, <2>3, CardConstants
  <2>5. r[n] = 0
    BY <1>2, <2>1, <2>4
  <2> QED BY <2>2, <2>4, <2>5
<1>4. /\ auth' = [auth EXCEPT ![p] = b] /\ hold' = hold /\ age' = age
      /\ holdTotal' = holdTotal /\ captureEntry' = captureEntry
      /\ refundEntry' = [refundEntry EXCEPT ![p] = z] /\ sweep' = sweep /\ offer' = offer
      /\ balance' = balance + m /\ charged' = charged /\ account' = account
  <2>1. Once(r[n], m) = m /\ r[n] + Once(r[n], m) = m
    BY <1>2, <1>3 DEF Once
  <2>2. auth' = [auth EXCEPT ![p] = b]
    BY DEF Refund, IInv, TypeOK
  <2>3. refundEntry' = [refundEntry EXCEPT ![p] = z] /\ balance' = balance + m
    BY <2>1 DEF Refund, referenceFor, IInv, TypeOK
  <2> QED BY <2>2, <2>3 DEF Refund
<1>5. /\ b \in Authorisation /\ b.status = a.status /\ b.amount = a.amount
      /\ b.holdId = a.holdId /\ b.incrementCount = a.incrementCount
      /\ b.capturedAmount = a.capturedAmount /\ b.refundedAmount = n + m
  BY <1>1, <1>2 DEF Authorisation
<1>6. /\ z \in [0..MaxAmount -> 0..MaxAmount]
      /\ \A i \in 0..MaxAmount : z[i] = IF i = n THEN m ELSE r[i]
  BY <1>1, <1>3
<1> HIDE DEF b, z
<1>7. EntriesSound(b, c, z)
  <2>1. RefundTotal(z) = n + m
    <3>1. RefundTotal(z) = RefundTotal(r) + m
      <4>1. RefundAdded(r, n, m, z)
        BY <1>1, <1>2, <1>3, <1>6 DEF RefundAdded
      <4> QED BY ONLY <4>1, RefundTotalUpdate
    <3>2. RefundTotal(r) = n
      BY <1>1 DEF EntriesSound
    <3> QED BY <3>1, <3>2, <1>2
  <2>2. \A i \in 0..MaxAmount : i >= n + m => z[i] = 0
    <3>1. \A i \in 0..MaxAmount : i >= n => r[i] = 0
      BY <1>1 DEF EntriesSound
    <3>2. n \in Nat /\ m \in Nat /\ m >= 1 /\ MaxAmount \in Nat
      BY <1>2, CardConstants
    <3> HIDE DEF a, c, r, n
    <3> QED BY ONLY <3>1, <3>2, <1>6
  <2> QED BY <2>1, <2>2, <1>1, <1>2, <1>3, <1>5 DEF EntriesSound
<1>8. HoldsSound(b, x, g) /\ ReservedOf(b, x) = ReservedOf(a, x)
  BY <1>1, <1>5 DEF HoldsSound, Unbooked, ReservedOf
<1>9. OneChanges(p, b, x, g, c, z)
  BY <1>4 DEF OneChanges, IInv, TypeOK
<1>10. Sound(b, x, g, c, z) /\ holdTotal' = holdTotal - ReservedOf(a, x) + ReservedOf(b, x)
  BY <1>1, <1>4, <1>7, <1>8, ReservedType DEF Sound, IInv, TypeOK
<1>11. Collections' /\ AllSound' /\ HoldTotalExact' /\ holdTotal' \in Nat
  BY <1>1, <1>5, <1>6, <1>9, <1>10, OneStep DEF IInv
<1>12. Surroundings'
  BY <1>2, <1>4 DEF IInv, TypeOK, Surroundings
<1>13. PassesSound'
  BY <1>2, <1>4, <1>5, PassesStand DEF IInv
<1>14. OffersSound'
  BY <1>2, <1>4, <1>5, OffersStand DEF IInv
<1>15. ReserveCovered'
  BY <1>2, <1>4 DEF IInv, TypeOK, ReserveCovered
<1> QED BY <1>11, <1>12, <1>13, <1>14, <1>15, Together

-----------------------------------------------------------------------------
(* The expiry pass.                                                        *)

(* A pass that moves on, or stops, is past no write.                       *)
LEMMA PassMoves ==
  ASSUME TypeOK, PassesSound, auth' = auth, NEW s \in Sweepers, NEW w \in Sweep,
         w.at \notin {"closed", "releasing"}, sweep' = [sweep EXCEPT ![s] = w]
  PROVE  sweep' \in [Sweepers -> Sweep] /\ PassesSound'
<1>1. sweep' \in [Sweepers -> Sweep]
  BY DEF TypeOK
<1>2. \A q \in Sweepers : sweep'[q] = IF q = s THEN w ELSE sweep[q]
  BY DEF TypeOK
<1> QED BY <1>1, <1>2 DEF PassesSound

(* Going on to the next record keeps the passes sound.                     *)
LEMMA OnwardStep ==
  ASSUME TypeOK, PassesSound, auth' = auth, NEW s \in Sweepers, NEW p \in Auths, Onward(s, p)
  PROVE  sweep' \in [Sweepers -> Sweep] /\ PassesSound'
<1> DEFINE next == [at |-> "next", read |-> [sweep[s].read EXCEPT ![p] = 0], on |-> 1]
           w == IF [sweep[s].read EXCEPT ![p] = 0] = Unread THEN NoSweep ELSE next
<1>1. sweep[s] \in Sweep
  BY DEF TypeOK
<1>2. next \in Sweep /\ next.at = "next"
  BY <1>1, SweepFields
<1>3. w \in Sweep /\ w.at \notin {"closed", "releasing"}
  BY <1>2, IdleType
<1>4. sweep' = [sweep EXCEPT ![s] = w]
  BY DEF Onward
<1> HIDE DEF w
<1> QED BY <1>3, <1>4, PassMoves

(* The first write of close keeps the invariant.                           *)
LEMMA CloseExpiredStep ==
  ASSUME IInv, NEW s \in Sweepers, NEW p \in Auths, CloseExpired(s, p)
  PROVE  IInv'
<1>1. sweep[s] \in Sweep /\ sweep[s].read[p] # 0
  BY DEF CloseExpired, IInv, TypeOK
<1>2. /\ hold' = hold /\ age' = age /\ offer' = offer /\ holdTotal' = holdTotal
      /\ account' = account /\ balance' = balance /\ charged' = charged
      /\ captureEntry' = captureEntry /\ refundEntry' = refundEntry
  BY DEF CloseExpired, funds, books
<1>3. ReserveCovered'
  BY <1>2 DEF IInv, ReserveCovered
<1>4. CASE Open(p)
  <2> DEFINE a == auth[p]
             x == hold[p]
             g == age[p]
             c == captureEntry[p]
             r == refundEntry[p]
             b == [a EXCEPT !.status = "EXPIRED"]
  <2>1. /\ a \in Authorisation /\ x \in [HoldIds -> Hold] /\ g \in Age
        /\ c \in 0..MaxAmount /\ r \in [0..MaxAmount -> 0..MaxAmount]
        /\ HoldsSound(a, x, g) /\ EntriesSound(a, c, r)
    BY At DEF IInv
  <2>2. /\ a.status = "APPROVED" /\ auth' = [auth EXCEPT ![p] = b]
        /\ sweep' = [sweep EXCEPT ![s].at = "closed", ![s].on = p]
    BY <1>4 DEF CloseExpired, Open, OPEN_STATUSES, IInv, TypeOK
  <2>3. /\ b \in Authorisation /\ b.status = "EXPIRED" /\ b.amount = a.amount
        /\ b.holdId = a.holdId /\ b.incrementCount = a.incrementCount
        /\ b.capturedAmount = a.capturedAmount /\ b.refundedAmount = a.refundedAmount
    BY <2>1 DEF Authorisation, AuthorisationStatus
  <2> HIDE DEF b
  <2>4. Sound(b, x, g, c, r) /\ ReservedOf(b, x) = ReservedOf(a, x)
    <3>1. HoldsSound(b, x, g)
      BY <2>1, <2>2, <2>3 DEF HoldsSound, Unbooked
    <3>2. EntriesSound(b, c, r)
      BY <2>1, <2>2, <2>3 DEF EntriesSound
    <3> QED BY <3>1, <3>2, <2>3 DEF Sound, ReservedOf
  <2>5. OneChanges(p, b, x, g, c, r)
    BY <1>2, <2>2 DEF OneChanges, IInv, TypeOK
  <2>6. holdTotal' = holdTotal - ReservedOf(a, x) + ReservedOf(b, x)
    BY <1>2, <2>1, <2>4, ReservedType DEF IInv, TypeOK
  <2>7. Collections' /\ AllSound' /\ HoldTotalExact' /\ holdTotal' \in Nat
    BY <2>1, <2>3, <2>4, <2>5, <2>6, OneStep DEF IInv
  <2> DEFINE w == [sweep[s] EXCEPT !.at = "closed", !.on = p]
  <2>8. sweep' = [sweep EXCEPT ![s] = w]
    BY <2>2 DEF IInv, TypeOK
  <2>9. w \in Sweep /\ w.at = "closed" /\ w.on = p /\ w.read = sweep[s].read
    BY <1>1 DEF Sweep, SweepAt
  <2> HIDE DEF w
  <2>10. Surroundings'
    BY <1>2, <2>8, <2>9 DEF IInv, TypeOK, Surroundings
  <2>11. PassesSound'
    <3> SUFFICES ASSUME NEW q \in Sweepers, sweep'[q].at \in {"closed", "releasing"}
                 PROVE  /\ auth'[sweep'[q].on].status = "EXPIRED"
                        /\ sweep'[q].read[sweep'[q].on] # 0
      BY DEF PassesSound
    <3>1. CASE q = s
      <4>1. sweep'[q] = w
        BY <3>1, <2>8 DEF IInv, TypeOK
      <4>2. auth'[p] = b
        BY <2>2 DEF IInv, TypeOK
      <4> QED BY <4>1, <4>2, <1>1, <2>3, <2>9
    <3>2. CASE q # s
      <4>1. sweep'[q] = sweep[q] /\ sweep[q].on \in Auths
        BY <3>2, <2>8, SweepFields DEF IInv, TypeOK
      <4>2. auth[sweep[q].on].status = "EXPIRED" /\ sweep[q].read[sweep[q].on] # 0
        BY <4>1 DEF IInv, PassesSound
      <4>3. sweep[q].on # p
        BY <4>2, <2>2
      <4> QED BY <4>1, <4>2, <4>3, <2>2 DEF IInv, TypeOK
    <3> QED BY <3>1, <3>2
  <2>12. OffersSound'
    BY <1>2, <2>2, <2>3, OffersStand DEF IInv
  <2> QED BY <2>7, <2>10, <2>11, <2>12, <1>3, Together
<1>5. CASE ~Open(p)
  <2>1. auth' = auth /\ Onward(s, p)
    BY <1>5 DEF CloseExpired
  <2>2. Collections' /\ AllSound' /\ HoldTotalExact' /\ holdTotal' \in Nat
    BY <1>2, <2>1, RecordsStand DEF IInv, TypeOK
  <2>3. sweep' \in [Sweepers -> Sweep] /\ PassesSound'
    BY <2>1, OnwardStep DEF IInv
  <2>4. Surroundings' /\ OffersSound'
    BY <1>2, <2>1, <2>3 DEF IInv, TypeOK, Surroundings, OffersSound
  <2> QED BY <1>3, <2>2, <2>3, <2>4, Together
<1> QED BY <1>4, <1>5
(* The steps that touch only what a pass holds.                            *)
LEMMA PassStep ==
  ASSUME IInv, UNCHANGED <<auth, hold, age, offer, holdTotal, funds, books>>,
         sweep' \in [Sweepers -> Sweep], PassesSound'
  PROVE  IInv'
<1>1. Collections' /\ AllSound' /\ HoldTotalExact' /\ holdTotal' \in Nat
  BY RecordsStand DEF IInv, TypeOK, books
<1>2. Surroundings' /\ OffersSound' /\ ReserveCovered'
  BY DEF IInv, TypeOK, Surroundings, OffersSound, ReserveCovered, funds
<1> QED BY <1>1, <1>2, Together

(* Listing what is due keeps the invariant.                                *)
LEMMA StartSweepStep ==
  ASSUME IInv, NEW s \in Sweepers, StartSweep(s)
  PROVE  IInv'
<1> DEFINE w == [at |-> "next", on |-> 1,
                 read |-> [p \in Auths |-> IF p \in Due THEN auth[p].holdId ELSE 0]]
<1>1. w \in Sweep
  <2>1. 1 \in Auths /\ 0 \in 0..(MaxIncrements + 1)
    BY CardConstants
  <2>2. \A p \in Auths : auth[p].holdId \in 0..(MaxIncrements + 1)
    BY AuthFields DEF IInv, TypeOK
  <2> QED BY <2>1, <2>2 DEF Sweep, SweepAt
<1>2. w.at = "next" /\ sweep' = [sweep EXCEPT ![s] = w]
  BY DEF StartSweep
<1> HIDE DEF w
<1>3. sweep' \in [Sweepers -> Sweep] /\ PassesSound'
  BY <1>1, <1>2, PassMoves DEF StartSweep, IInv
<1> QED BY <1>3, PassStep DEF StartSweep

(* Reading the hold of an expired authorisation keeps the invariant.       *)
LEMMA RequireHoldStep ==
  ASSUME IInv, NEW s \in Sweepers, RequireHold(s)
  PROVE  IInv'
<1> DEFINE p == sweep[s].on
           w == [sweep[s] EXCEPT !.at = "releasing"]
<1>1. sweep[s] \in Sweep /\ p \in Auths
  BY SweepFields DEF IInv, TypeOK
<1>2. auth' = auth /\ sweep[s].at = "closed"
  BY DEF RequireHold
<1>3. CASE Active(p, sweep[s].read[p])
  <2>1. sweep' = [sweep EXCEPT ![s] = w]
    BY <1>3 DEF RequireHold, IInv, TypeOK
  <2>2. w \in Sweep /\ w.on = sweep[s].on /\ w.read = sweep[s].read
    BY <1>1 DEF Sweep, SweepAt
  <2> HIDE DEF w
  <2>3. sweep' \in [Sweepers -> Sweep]
    BY <2>1, <2>2 DEF IInv, TypeOK
  <2>4. PassesSound'
    BY <1>2, <2>1, <2>2 DEF IInv, TypeOK, PassesSound
  <2> QED BY <2>3, <2>4, PassStep DEF RequireHold
<1>4. CASE ~Active(p, sweep[s].read[p])
  <2>1. Onward(s, p)
    BY <1>4 DEF RequireHold
  <2>2. sweep' \in [Sweepers -> Sweep] /\ PassesSound'
    BY <1>1, <1>2, <2>1, OnwardStep DEF IInv
  <2> QED BY <2>2, PassStep DEF RequireHold
<1> QED BY <1>3, <1>4

(* Releasing it, or finding it resolved, keeps the invariant.              *)
LEMMA ReleaseExpiredStep ==
  ASSUME IInv, NEW s \in Sweepers, ReleaseExpired(s)
  PROVE  IInv'
<1> DEFINE p == sweep[s].on
           k == sweep[s].read[p]
<1>1. sweep[s] \in Sweep /\ p \in Auths
  BY SweepFields DEF IInv, TypeOK
<1>2. /\ auth' = auth /\ age' = age /\ offer' = offer /\ account' = account
      /\ balance' = balance /\ charged' = charged
      /\ captureEntry' = captureEntry /\ refundEntry' = refundEntry
  BY DEF ReleaseExpired, funds, books
<1>3. auth[p].status = "EXPIRED" /\ k # 0
  BY DEF ReleaseExpired, IInv, PassesSound
<1>4. CASE Active(p, k)
  <2> DEFINE b == auth[p]
  <2>1. /\ b \in Authorisation /\ captureEntry[p] \in 0..MaxAmount
        /\ EntriesSound(b, captureEntry[p], refundEntry[p])
    BY <1>1, At DEF IInv
  <2>2. k \in HoldIds
    <3>1. k \in 0..(MaxIncrements + 1)
      BY <1>1, SweepFields
    <3> QED BY <3>1, <1>3, CardConstants
  <2>3. /\ auth' = [auth EXCEPT ![p] = b] /\ hold' = Resolved(p, k, "RELEASED")
        /\ holdTotal' = holdTotal - hold[p][k].amount /\ Onward(s, p)
        /\ captureEntry' = [captureEntry EXCEPT ![p] = captureEntry[p]]
    BY <1>1, <1>2, <1>4 DEF ReleaseExpired, IInv, TypeOK
  <2>4. /\ "RELEASED" \in HoldStatus /\ ~Unbooked(b) /\ b.status # "APPROVED"
    BY <1>3 DEF HoldStatus, Unbooked
  <2>5. Collections' /\ AllSound' /\ HoldTotalExact' /\ holdTotal' \in Nat
    <3> HIDE DEF p, k
    <3> QED BY <1>1, <1>2, <1>4, <2>1, <2>2, <2>3, <2>4, ResolveStep
  <2>6. sweep' \in [Sweepers -> Sweep] /\ PassesSound'
    BY <1>1, <1>2, <2>3, OnwardStep DEF IInv
  <2>7. Surroundings' /\ OffersSound'
    BY <1>2, <2>6 DEF IInv, TypeOK, Surroundings, OffersSound
  <2>8. ReserveCovered'
    <3>1. hold[p][k].amount \in Nat
      BY <1>1, <2>2, HoldFields DEF IInv, TypeOK
    <3> QED BY <1>2, <2>3, <3>1 DEF IInv, TypeOK, ReserveCovered
  <2> QED BY <2>5, <2>6, <2>7, <2>8, Together
<1>5. CASE ~Active(p, k)
  <2>1. /\ UNCHANGED <<auth, hold, age, offer, holdTotal, funds, books>>
        /\ sweep' = [sweep EXCEPT ![s] = NoSweep]
    BY <1>5 DEF ReleaseExpired
  <2>2. sweep' \in [Sweepers -> Sweep] /\ PassesSound'
    BY <1>2, <2>1, IdleType, PassMoves DEF IInv
  <2> QED BY <2>1, <2>2, PassStep
<1> QED BY <1>4, <1>5

(* A pass that dies keeps the invariant.                                   *)
LEMMA CrashSweepStep ==
  ASSUME IInv, NEW s \in Sweepers, CrashSweep(s)
  PROVE  IInv'
<1>1. sweep' \in [Sweepers -> Sweep] /\ PassesSound'
  BY IdleType, PassMoves DEF CrashSweep, IInv
<1> QED BY <1>1, PassStep DEF CrashSweep

-----------------------------------------------------------------------------
(* The account and time.                                                   *)

(* Spending and fees keep the invariant.                                   *)
LEMMA AccountStep ==
  ASSUME IInv, NEW m \in Amounts, Spend(m) \/ Charge(m)
  PROVE  IInv'
<1>1. Collections' /\ AllSound' /\ HoldTotalExact' /\ holdTotal' \in Nat
  BY RecordsStand DEF IInv, TypeOK, books, Spend, Charge
<1>2. PassesSound' /\ OffersSound'
  BY DEF IInv, PassesSound, OffersSound, Spend, Charge
<1>3. m \in Nat /\ m >= 1
  BY CardConstants
<1>4. Surroundings' /\ ReserveCovered'
  <2>1. CASE Spend(m)
    <3>1. balance >= m /\ balance - m >= holdTotal
      BY <1>3, <2>1 DEF Spend, Covers, Available, IInv, TypeOK
    <3> QED BY <1>3, <2>1, <3>1 DEF Spend, IInv, TypeOK, Surroundings, ReserveCovered
  <2>2. CASE Charge(m)
    BY <1>3, <2>2 DEF Charge, WithinFloor, IInv, TypeOK, Surroundings, ReserveCovered
  <2> QED BY <2>1, <2>2
<1> QED BY <1>1, <1>2, <1>4, Together

(* Freezing and unfreezing keep the invariant.                             *)
LEMMA SetAccountStep ==
  ASSUME IInv, SetAccount
  PROVE  IInv'
<1>1. Collections' /\ AllSound' /\ HoldTotalExact' /\ holdTotal' \in Nat
  BY RecordsStand DEF IInv, TypeOK, books, SetAccount
<1>2. Surroundings' /\ PassesSound' /\ OffersSound' /\ ReserveCovered'
  BY DEF IInv, TypeOK, Surroundings, PassesSound, OffersSound, ReserveCovered,
         SetAccount, Freeze, Unfreeze
<1> QED BY <1>1, <1>2, Together

(* Time keeps the invariant.                                               *)
LEMMA TimeStep ==
  ASSUME IInv, NEW p \in Auths, NewDay \/ Lapse(p)
  PROVE  IInv'
<1>1. age' \in [Auths -> Age] /\ \A q \in Auths : age[q] = "lapsed" => age'[q] = "lapsed"
  BY DEF IInv, TypeOK, NewDay, Lapse, Age
<1>2. Collections' /\ AllSound' /\ HoldTotalExact' /\ holdTotal' \in Nat
  BY <1>1, RecordsStand DEF books, NewDay, Lapse
<1>3. Surroundings' /\ PassesSound' /\ OffersSound' /\ ReserveCovered'
  BY DEF IInv, TypeOK, Surroundings, PassesSound, OffersSound, ReserveCovered, funds, NewDay, Lapse
<1> QED BY <1>2, <1>3, Together
-----------------------------------------------------------------------------
(* The invariant holds throughout.                                         *)

(* The invariant holds at first.                                           *)
LEMMA InitInv == Init => IInv
<1> SUFFICES ASSUME Init PROVE IInv
  OBVIOUS
<1> DEFINE none == [k \in HoldIds |-> [status |-> "NONE", amount |-> 0]]
           unused == [n \in 0..MaxAmount |-> 0]
<1>1. NoAuth \in Authorisation /\ none \in [HoldIds -> Hold] /\ unused \in [0..MaxAmount -> 0..MaxAmount]
  <2>1. 0 \in 0..(MaxIncrements + 1) /\ 0 \in 0..MaxIncrements /\ 0 \in 0..MaxAmount
    BY CardConstants
  <2> QED BY <2>1 DEF NoAuth, Authorisation, AuthorisationStatus, Hold, HoldStatus
<1>2. TypeOK
  <2>1. 0 \in 0..MaxAmount /\ Funds \in Nat
    BY CardConstants
  <2>2. NoSweep \in Sweep
    BY IdleType
  <2> QED BY <1>1, <2>1, <2>2 DEF Init, TypeOK, Age
<1>3. RefundTotal(unused) = 0
  <2> DEFINE f == [n \in 1..(MaxAmount + 1) |-> unused[n - 1]]
  <2>1. /\ MaxAmount + 1 \in Nat /\ f \in [1..(MaxAmount + 1) -> Int]
        /\ \A n \in 1..(MaxAmount + 1) : f[n] = 0
    BY CardConstants
  <2>2. RefundTotal(unused) = Total(f, MaxAmount + 1)
    BY DEF RefundTotal
  <2> HIDE DEF f
  <2> QED BY <2>1, <2>2, TotalZero
<1>4. HoldsSound(NoAuth, none, "past") /\ EntriesSound(NoAuth, 0, unused)
  <2> HIDE DEF unused
  <2>1. \A n \in 0..MaxAmount : unused[n] = 0
    BY DEF unused
  <2> QED BY <1>3, <2>1 DEF HoldsSound, EntriesSound, Unbooked, NoAuth
<1>5. AllSound
  BY <1>4 DEF Init, AllSound, Sound
<1>6. PassesSound /\ OffersSound
  BY DEF Init, PassesSound, OffersSound, NoSweep
<1>7. HoldTotalExact
  <2> DEFINE f == [q \in Auths |-> Reserved(q)]
  <2>1. \A q \in Auths : Reserved(q) = 0
    BY DEF Init, Reserved, Active
  <2>2. f \in [1..NumAuths -> Int] /\ \A q \in 1..NumAuths : f[q] = 0
    BY <2>1
  <2> HIDE DEF f
  <2>3. Total(f, NumAuths) = 0
    BY <2>2, TotalZero, CardConstants
  <2> QED BY <2>3 DEF f, Init, HoldTotalExact
<1>8. ReserveCovered
  BY CardConstants DEF Init, ReserveCovered
<1> QED BY <1>2, <1>5, <1>6, <1>7, <1>8 DEF IInv

(* Every step keeps the invariant.                                         *)
LEMMA NextInv == IInv /\ [Next]_vars => IInv'
<1> SUFFICES ASSUME IInv, [Next]_vars PROVE IInv'
  OBVIOUS
<1>1. CASE UNCHANGED vars
  <2>1. UNCHANGED <<auth, hold, age, offer, holdTotal, funds, books>> /\ sweep' = sweep
    BY <1>1 DEF vars, funds, books
  <2>2. sweep' \in [Sweepers -> Sweep] /\ PassesSound'
    BY <2>1 DEF IInv, TypeOK, PassesSound
  <2> QED BY <2>1, <2>2, PassStep
<1>2. ASSUME NEW p \in Auths, NEW m \in Amounts, NEW partial \in BOOLEAN, Evaluate(p, m, partial)
      PROVE  IInv'
  BY <1>2, EvaluateStep
<1>3. ASSUME NEW p \in Auths, Refuse(p) \/ Approve(p) \/ Abandon(p) \/ Reverse(p) \/ Lapse(p)
      PROVE  IInv'
  BY <1>3, RefuseStep, ApproveStep, AbandonStep, ReverseStep, TimeStep
<1>4. ASSUME NEW p \in Auths, NEW m \in Amounts, Increment(p, m) \/ Capture(p, m) \/ Refund(p, m)
      PROVE  IInv'
  BY <1>4, IncrementStep, CaptureStep, RefundStep
<1>5. ASSUME NEW p \in Auths, NEW k \in HoldIds, ExpireHold(p, k)
      PROVE  IInv'
  BY <1>5, ExpireHoldStep
<1>6. ASSUME NEW s \in Sweepers,
             StartSweep(s) \/ RequireHold(s) \/ ReleaseExpired(s) \/ CrashSweep(s)
      PROVE  IInv'
  BY <1>6, StartSweepStep, RequireHoldStep, ReleaseExpiredStep, CrashSweepStep
<1>7. ASSUME NEW s \in Sweepers, NEW p \in Auths, CloseExpired(s, p)
      PROVE  IInv'
  BY <1>7, CloseExpiredStep
<1>8. ASSUME NEW m \in Amounts, Spend(m) \/ Charge(m)
      PROVE  IInv'
  BY <1>8, AccountStep
<1>9. CASE SetAccount
  BY <1>9, SetAccountStep
<1>10. CASE NewDay
  <2>1. 1 \in Auths
    BY CardConstants
  <2> QED BY <1>10, <2>1, TimeStep
<1> QED BY <1>1, <1>2, <1>3, <1>4, <1>5, <1>6, <1>7, <1>8, <1>9, <1>10 DEF Next

(* The invariant is one.                                                   *)
LEMMA Invariant == Spec => []IInv
BY InitInv, NextInv, PTL DEF Spec

-----------------------------------------------------------------------------
(* What follows from it.                                                   *)

(* Every collection and every account total keeps its shape: a refund      *)
(* never outgrows its entry and no balance or reserve goes below zero,     *)
(* however the requests and the passes interleave.                         *)
THEOREM TypeCorrect == Spec => []TypeOK
<1>1. IInv => TypeOK
  BY DEF IInv
<1> QED BY <1>1, Invariant, PTL

(* At most one reserve to an authorisation, of its amount, the one it      *)
(* names, and one as long as it is open and its deadline has not passed.   *)
THEOREM ReserveIsExact == Spec => []ReserveExact
<1>1. IInv => ReserveExact
  BY DEF IInv, AllSound, Sound, HoldsSound, ReserveExact, Active
<1> QED BY <1>1, Invariant, PTL

(* The account's reserve is the sum of what the authorisations hold.       *)
THEOREM HoldTotalIsExact == Spec => []HoldTotalExact
<1>1. IInv => HoldTotalExact
  BY DEF IInv
<1> QED BY <1>1, Invariant, PTL

(* What the journal took and gave back for a payment is what the payment   *)
(* says, through any number of refunds.                                    *)
THEOREM ChargedIsExact == Spec => []ChargedExact
<1>1. IInv => ChargedExact
  <2> SUFFICES ASSUME IInv, NEW p \in Auths
               PROVE  /\ captureEntry[p] = auth[p].capturedAmount
                      /\ captureEntry[p] <= auth[p].amount
                      /\ captureEntry[p] # 0 <=> auth[p].status = "CAPTURED"
                      /\ RefundsOf(p) = auth[p].refundedAmount
                      /\ auth[p].refundedAmount <= auth[p].capturedAmount
    BY DEF ChargedExact
  <2>1. /\ auth[p] \in Authorisation /\ captureEntry[p] \in 0..MaxAmount
        /\ EntriesSound(auth[p], captureEntry[p], refundEntry[p])
    BY At DEF IInv
  <2>2. auth[p].amount \in Nat
    BY <2>1, AuthFields
  <2>3. RefundsOf(p) = RefundTotal(refundEntry[p])
    BY DEF RefundsOf, RefundTotal
  <2> QED BY <2>1, <2>2, <2>3 DEF EntriesSound
<1> QED BY <1>1, Invariant, PTL

(* The reserve is never more than the balance and the fees together.       *)
THEOREM ReserveIsCovered == Spec => []ReserveCovered
<1>1. IInv => ReserveCovered
  BY DEF IInv
<1> QED BY <1>1, Invariant, PTL
-----------------------------------------------------------------------------
(* Endings stand.                                                          *)

(* EndingStands of one authorisation.                                      *)
Ended(a, c, a1, c1) ==
  a.status \notin {"NONE", "APPROVED"} => a1.status = a.status /\ a1.amount = a.amount /\ c1 = c
GivenBack(h, h1) ==
  \A k \in HoldIds : h[k].status \notin {"NONE", "ACTIVE"} => h1[k] = h[k]
Stands(p) ==
  /\ Ended(auth[p], captureEntry[p], auth'[p], captureEntry'[p])
  /\ GivenBack(hold[p], hold'[p])

(* One hold is written that was not given back.                            *)
LEMMA OneHold ==
  ASSUME TypeOK, NEW p \in Auths, NEW k \in HoldIds, NEW v,
         hold' = [hold EXCEPT ![p][k] = v], hold[p][k].status \in {"NONE", "ACTIVE"}
  PROVE  \A q \in Auths : GivenBack(hold[q], hold'[q])
<1>1. \A q \in Auths : q # p => hold'[q] = hold[q]
  BY DEF TypeOK
<1>2. \A j \in HoldIds : j # k => hold'[p][j] = hold[p][j]
  BY DEF TypeOK
<1> QED BY <1>1, <1>2 DEF GivenBack

(* A step whose own authorisation was undecided or open, and whose hold,   *)
(* if it writes any, was not given back.                                   *)
LEMMA UndecidedStands ==
  ASSUME IInv, NEW p \in Auths,
         \/ \E m \in Amounts, partial \in BOOLEAN : Evaluate(p, m, partial)
         \/ Refuse(p) \/ Approve(p) \/ Abandon(p)
  PROVE  \A q \in Auths : Stands(q)
<1>1. auth[p].status = "NONE" /\ hold[p][1].status = "NONE" /\ 1 \in HoldIds
  <2>1. 1 \in HoldIds
    BY CardConstants
  <2>2. auth[p].status = "NONE"
    BY DEF Evaluate, Unasked, Refuse, Approve, Abandon, IInv, OffersSound
  <2>3. HoldsSound(auth[p], hold[p], age[p])
    BY At DEF IInv
  <2> QED BY <2>1, <2>2, <2>3 DEF HoldsSound, Unbooked
<1>2. captureEntry' = captureEntry
  BY DEF Evaluate, Refuse, Approve, Abandon, books
<1>3. \A q \in Auths : q # p => auth'[q] = auth[q]
  BY DEF Evaluate, Refuse, Approve, Abandon, Approved, Declined, IInv, TypeOK
<1>4. hold' = hold \/ hold' = Place(p, 1, offer[p])
  BY DEF Evaluate, Refuse, Approve, Abandon
<1>5. \A q \in Auths : GivenBack(hold[q], hold'[q])
  <2>1. CASE hold' = hold
    BY <2>1 DEF GivenBack
  <2>2. CASE hold' = Place(p, 1, offer[p])
    BY <1>1, <2>2, OneHold DEF Place, IInv
  <2> QED BY <1>4, <2>1, <2>2
<1> QED BY <1>1, <1>2, <1>3, <1>5 DEF Stands, Ended

(* What is done to an open authorisation is not done to an ended one.      *)
LEMMA OpenStands ==
  ASSUME IInv, NEW p \in Auths,
         Reverse(p) \/ \E m \in Amounts : Increment(p, m) \/ Capture(p, m)
  PROVE  \A q \in Auths : Stands(q)
<1> DEFINE k == auth[p].holdId
<1>1. /\ auth[p].status = "APPROVED" /\ k \in HoldIds /\ Active(p, k)
      /\ \A j \in HoldIds : j > k => hold[p][j].status = "NONE"
  <2>1. auth[p] \in Authorisation /\ HoldsSound(auth[p], hold[p], age[p])
    BY At DEF IInv
  <2>2. auth[p].status = "APPROVED" /\ Active(p, k)
    BY DEF Reverse, Increment, Capture, Open, OPEN_STATUSES
  <2>3. k \in HoldIds
    <3>1. k = auth[p].incrementCount + 1
      BY <2>1, <2>2 DEF HoldsSound, Unbooked
    <3>2. auth[p].incrementCount \in 0..MaxIncrements
      BY <2>1, AuthFields
    <3> QED BY <3>1, <3>2, CardConstants
  <2>4. \A j \in HoldIds : j > k => hold[p][j].status = "NONE"
    BY <2>1 DEF HoldsSound
  <2> QED BY <2>2, <2>3, <2>4
<1>2. \A q \in Auths : q # p => auth'[q] = auth[q] /\ captureEntry'[q] = captureEntry[q]
  BY DEF Reverse, Increment, Capture, books, IInv, TypeOK
<1>3. \A q \in Auths : GivenBack(hold[q], hold'[q])
  <2>1. CASE \E s \in HoldStatus : hold' = Resolved(p, k, s)
    <3>1. PICK s \in HoldStatus : hold' = Resolved(p, k, s)
      BY <2>1
    <3>2. hold' = [hold EXCEPT ![p][k] = [hold[p][k] EXCEPT !.status = s]]
      BY <3>1, <1>1 DEF Resolved, IInv, TypeOK
    <3> QED BY <1>1, <3>2, OneHold DEF Active, IInv
  <2>2. CASE \E m \in Amounts : hold' = Replaced(p, k, m)
    <3>1. PICK m \in Amounts : hold' = Replaced(p, k, m)
      BY <2>2
    <3> DEFINE y == [hold[p] EXCEPT ![k].status = "RELEASED",
                                    ![k + 1] = [status |-> "ACTIVE", amount |-> m]]
    <3>2. hold' = [hold EXCEPT ![p] = y]
      BY <3>1 DEF Replaced, IInv, TypeOK
    <3>3. GivenBack(hold[p], y)
      <4>1. \A j \in HoldIds : j # k /\ j # k + 1 => y[j] = hold[p][j]
        BY <1>1 DEF IInv, TypeOK
      <4>2. k + 1 \in HoldIds => hold[p][k + 1].status = "NONE"
        BY <1>1
      <4> QED BY <1>1, <4>1, <4>2 DEF GivenBack, Active
    <3> QED BY <3>2, <3>3 DEF GivenBack, IInv, TypeOK
  <2> QED BY <2>1, <2>2 DEF Reverse, Increment, Capture, HoldStatus
<1> QED BY <1>1, <1>2, <1>3 DEF Stands, Ended

(* Resolving an active hold leaves the resolved ones alone.                *)
LEMMA ResolvedStands ==
  ASSUME TypeOK, NEW p \in Auths, NEW k \in HoldIds, Active(p, k), NEW s \in HoldStatus,
         hold' = Resolved(p, k, s)
  PROVE  \A q \in Auths : GivenBack(hold[q], hold'[q])
<1> DEFINE v == [hold[p][k] EXCEPT !.status = s]
<1>1. hold' = [hold EXCEPT ![p][k] = v]
  BY DEF Resolved, TypeOK
<1>2. hold[p][k].status \in {"NONE", "ACTIVE"}
  BY DEF Active
<1> HIDE DEF v
<1> QED BY <1>1, <1>2, OneHold

(* A refund changes no status, no hold and no capture.                     *)
LEMMA RefundStands ==
  ASSUME IInv, NEW p \in Auths, NEW m \in Amounts, Refund(p, m)
  PROVE  \A q \in Auths : Stands(q)
<1>1. auth[p] \in Authorisation
  BY DEF IInv, TypeOK
<1>2. auth'[p].status = auth[p].status /\ auth'[p].amount = auth[p].amount
  BY <1>1 DEF Refund, Authorisation, IInv, TypeOK
<1>3. \A q \in Auths : q # p => auth'[q] = auth[q]
  BY DEF Refund, IInv, TypeOK
<1>4. hold' = hold /\ captureEntry' = captureEntry
  BY DEF Refund
<1> QED BY <1>2, <1>3, <1>4 DEF Stands, Ended, GivenBack

(* The expiry passes end what is open and resolve what is active.          *)
LEMMA ExpiryStands ==
  ASSUME IInv,
         \/ \E p \in Auths, k \in HoldIds : ExpireHold(p, k)
         \/ \E s \in Sweepers : ReleaseExpired(s)
         \/ \E s \in Sweepers, p \in Auths : CloseExpired(s, p)
  PROVE  \A q \in Auths : Stands(q)
<1>1. captureEntry' = captureEntry
  BY DEF ExpireHold, ReleaseExpired, CloseExpired, books
<1>2. ASSUME NEW p \in Auths, NEW k \in HoldIds, ExpireHold(p, k)
      PROVE  \A q \in Auths : Stands(q)
  <2>1. \A q \in Auths : GivenBack(hold[q], hold'[q])
    BY <1>2, ResolvedStands DEF ExpireHold, HoldStatus, IInv
  <2> QED BY <1>1, <1>2, <2>1 DEF ExpireHold, Stands, Ended
<1>3. ASSUME NEW s \in Sweepers, ReleaseExpired(s)
      PROVE  \A q \in Auths : Stands(q)
  <2> DEFINE p == sweep[s].on
             k == sweep[s].read[p]
  <2>1. p \in Auths /\ k \in 0..(MaxIncrements + 1) /\ k # 0
    BY <1>3, SweepFields DEF ReleaseExpired, IInv, TypeOK, PassesSound
  <2>2. k \in HoldIds
    BY <2>1, CardConstants
  <2>3. \A q \in Auths : GivenBack(hold[q], hold'[q])
    <3>1. CASE Active(p, k)
      BY <1>3, <2>1, <2>2, <3>1, ResolvedStands DEF ReleaseExpired, HoldStatus, IInv
    <3>2. CASE ~Active(p, k)
      BY <1>3, <3>2 DEF ReleaseExpired, GivenBack
    <3> QED BY <3>1, <3>2
  <2> QED BY <1>1, <1>3, <2>3 DEF ReleaseExpired, Stands, Ended
<1>4. ASSUME NEW s \in Sweepers, NEW p \in Auths, CloseExpired(s, p)
      PROVE  \A q \in Auths : Stands(q)
  <2>1. hold' = hold
    BY <1>4 DEF CloseExpired
  <2>2. \A q \in Auths : auth'[q] = auth[q] \/ auth[q].status = "APPROVED"
    BY <1>4 DEF CloseExpired, Open, OPEN_STATUSES, IInv, TypeOK
  <2> QED BY <1>1, <2>1, <2>2 DEF Stands, Ended, GivenBack
<1> QED BY <1>2, <1>3, <1>4

(* A payment that ended is never claimed, raised or reopened by any later  *)
(* step of any caller, and a hold that went back stays back.               *)
THEOREM EndingsStand == Spec => EndingStands
<1>1. ASSUME IInv, [Next]_vars
      PROVE  [\A p \in Auths : Stands(p)]_vars
  <2>1. CASE UNCHANGED <<auth, hold, captureEntry>>
    BY <2>1 DEF Stands, Ended, GivenBack
  <2>2. CASE UNCHANGED vars
    BY <2>2
  <2>3. ASSUME NEW p \in Auths, NEW m \in Amounts, NEW partial \in BOOLEAN, Evaluate(p, m, partial)
        PROVE  \A q \in Auths : Stands(q)
    BY <1>1, <2>3, UndecidedStands
  <2>4. ASSUME NEW p \in Auths, Refuse(p) \/ Approve(p) \/ Abandon(p)
        PROVE  \A q \in Auths : Stands(q)
    BY <1>1, <2>4, UndecidedStands
  <2>5. ASSUME NEW p \in Auths, NEW m \in Amounts, Increment(p, m) \/ Capture(p, m) \/ Refund(p, m)
        PROVE  \A q \in Auths : Stands(q)
    BY <1>1, <2>5, OpenStands, RefundStands
  <2>6. ASSUME NEW p \in Auths, Reverse(p) \/ Lapse(p)
        PROVE  \A q \in Auths : Stands(q)
    <3>1. CASE Reverse(p)
      BY <1>1, <3>1, OpenStands
    <3>2. CASE Lapse(p)
      BY <3>2 DEF Lapse, books, Stands, Ended, GivenBack
    <3> QED BY <2>6, <3>1, <3>2
  <2>7. ASSUME NEW s \in Sweepers, StartSweep(s) \/ RequireHold(s) \/ CrashSweep(s)
        PROVE  UNCHANGED <<auth, hold, captureEntry>>
    BY <2>7 DEF StartSweep, RequireHold, CrashSweep, books
  <2>8. ASSUME NEW m \in Amounts, Spend(m) \/ Charge(m)
        PROVE  UNCHANGED <<auth, hold, captureEntry>>
    BY <2>8 DEF Spend, Charge, books
  <2>9. SetAccount \/ NewDay => UNCHANGED <<auth, hold, captureEntry>>
    BY DEF SetAccount, NewDay, books
  <2> QED BY <1>1, <2>1, <2>2, <2>3, <2>4, <2>5, <2>6, <2>7, <2>8, <2>9, ExpiryStands DEF Next
<1>2. ASSUME IInv, [Next]_vars
      PROVE  [\A p \in Auths :
               /\ auth[p].status \notin {"NONE", "APPROVED"} =>
                    /\ auth'[p].status = auth[p].status /\ auth'[p].amount = auth[p].amount
                    /\ captureEntry'[p] = captureEntry[p]
               /\ \A k \in HoldIds :
                    hold[p][k].status \notin {"NONE", "ACTIVE"} => hold'[p][k] = hold[p][k]]_vars
  BY <1>1, <1>2 DEF Stands, Ended, GivenBack
<1> QED BY <1>2, Invariant, PTL DEF Spec, EndingStands
=============================================================================
