-------------------------- MODULE AccountBookProofs --------------------------
(***************************************************************************)
(* Theorems about AccountBook for every number of accounts, holds and      *)
(* references, every amount and every overdraft limit.                     *)
(*                                                                         *)
(* Each invariant is proved from TypeOK and, where it is not inductive by  *)
(* itself, a strengthening stated before it.  The recurring argument is    *)
(* MoneyStep: whatever action a step is, it moves the balances by some     *)
(* effect and the control account by that effect's total, and unless the   *)
(* effect is empty postWithin has let it through.                          *)
(***************************************************************************)
EXTENDS AccountBook, TotalsProofs, SequenceTheorems, TLAPS

USE DEF Accounts, Holds, Requests, Amounts, Effects

(* An entry that moves nothing is an effect.                               *)
LEMMA NoEffectType == NoEffect \in Effects
BY DEF NoEffect

(* Money in or out of one account is an effect.                            *)
LEMMA OnlyType ==
  ASSUME NEW a \in Accounts, NEW m \in Int
  PROVE  Only(a, m) \in Effects
BY DEF Only, NoEffect

(* Money from one account to another is an effect.                         *)
LEMMA TransferType ==
  ASSUME NEW a \in Accounts, NEW b \in Accounts, NEW m \in Int
  PROVE  InternalTransfer(a, b, m) \in Effects
BY DEF InternalTransfer, NoEffect

(* Everything the recipes build is an effect.                              *)
LEMMA RecipesType == Recipes \subseteq Effects
<1>1. Amounts \subseteq Int /\ \A m \in Amounts : -m \in Int
  BY BoundsAssumption
<1> QED BY <1>1, OnlyType, TransferType DEF Recipes

(* The mirror of an entry is an effect.                                    *)
LEMMA ReversalType ==
  ASSUME NEW e \in Effects
  PROVE  buildReversal(e) \in Effects
BY DEF buildReversal

(* The references the code derives are references.                         *)
LEMMA RefType ==
  /\ \A n \in Requests : Ref("POST", n) \in References
  /\ \A h \in Holds : Ref("CAPTURE", h) \in References
  /\ \A a \in Accounts : Ref("CLOSE", a) \in References
BY BoundsAssumption DEF Ref, References, Bases

(* What a posting moves, replay or not, is an effect.                      *)
LEMMA MovesType ==
  ASSUME NEW ref, NEW e \in Effects
  PROVE  Moves(ref, e) \in Effects
BY NoEffectType DEF Moves

(* The control account moves by an integer.                                *)
LEMMA ControlDeltaType ==
  ASSUME NEW e \in Effects
  PROVE  ControlDelta(e) \in Int
<1>1. NumAccounts \in Nat /\ e \in [1..NumAccounts -> Int]
  BY BoundsAssumption
<1> QED BY <1>1, TotalType DEF ControlDelta

(* Balances stay integers when an effect is applied.                       *)
LEMMA MovedType ==
  ASSUME NEW bal \in [Accounts -> Int], NEW e \in Effects
  PROVE  Moved(bal, e) \in [Accounts -> Int]
BY DEF Moved

(* The id a posting returns: that of the entry already booked, or the next *)
(* one.                                                                    *)
LEMMA EntryIdType ==
  ASSUME NEW ref, journal \in Seq(Entry)
  PROVE  /\ EntryId(ref) \in 1..(Len(journal) + 1)
         /\ Booked(ref) => EntryId(ref) \in DOMAIN journal /\ journal[EntryId(ref)].reference = ref
         /\ ~Booked(ref) => EntryId(ref) = Len(journal) + 1
<1>1. DOMAIN journal = 1..Len(journal) /\ Len(journal) \in Nat
  BY LenProperties
<1> QED BY <1>1 DEF EntryId, Booked

(* Marking an entry reversed leaves a journal of the same length, with     *)
(* every other entry as it was.                                            *)
LEMMA MarkedType ==
  ASSUME journal \in Seq(Entry), NEW i \in DOMAIN journal, NEW id \in Nat
  PROVE  /\ Marked(i, id) \in Seq(Entry)
         /\ Len(Marked(i, id)) = Len(journal)
         /\ Marked(i, id)[i] = [journal[i] EXCEPT !.reversedBy = id]
         /\ \A j \in DOMAIN journal : j # i => Marked(i, id)[j] = journal[j]
<1> DEFINE e == [journal[i] EXCEPT !.reversedBy = id]
<1>1. Marked(i, id) = [journal EXCEPT ![i] = e]
  BY DEF Marked
<1>2. i \in 1..Len(journal) /\ journal[i] \in Entry
  BY ElementOfSeq, LenProperties
<1>3. e \in Entry
  BY <1>2 DEF Entry
<1> HIDE DEF e
<1>4. [journal EXCEPT ![i] = e] \in Seq(Entry)
      /\ Len([journal EXCEPT ![i] = e]) = Len(journal)
  BY <1>2, <1>3, ExceptSeq
<1>5. [journal EXCEPT ![i] = e][i] = e
      /\ \A j \in DOMAIN journal : j # i => [journal EXCEPT ![i] = e][j] = journal[j]
  BY <1>2, LenProperties
<1> QED BY <1>1, <1>4, <1>5 DEF e

(* Appending keeps every entry in its place.                               *)
LEMMA AppendedType ==
  ASSUME NEW s \in Seq(Entry), NEW e \in Entry
  PROVE  /\ Append(s, e) \in Seq(Entry)
         /\ Len(Append(s, e)) = Len(s) + 1
         /\ \A i \in DOMAIN s : i \in DOMAIN Append(s, e) /\ Append(s, e)[i] = s[i]
         /\ Append(s, e)[Len(s) + 1] = e
         /\ DOMAIN Append(s, e) = DOMAIN s \cup {Len(s) + 1}
BY AppendProperties, LenProperties

(* What a posting appends is an entry.                                     *)
LEMMA NewEntryType ==
  ASSUME NEW ref \in References, NEW e \in Effects
  PROVE  NewEntry(ref, e) \in Entry
BY DEF NewEntry, Entry

(* The fields of an entry of the journal.                                  *)
LEMMA JournalEntry ==
  ASSUME TypeOK, NEW i \in DOMAIN journal
  PROVE  /\ journal[i] \in Entry
         /\ journal[i].reference \in References
         /\ journal[i].effects \in Effects
         /\ journal[i].reversedBy \in Nat
<1>1. journal[i] \in Entry
  BY ElementOfSeq, LenProperties DEF TypeOK
<1> QED BY <1>1 DEF Entry

(* The fields of a hold.                                                   *)
LEMMA HoldRecord ==
  ASSUME TypeOK, NEW h \in Holds
  PROVE  hold[h] \in Hold /\ hold[h].accountId \in Accounts /\ hold[h].amount \in Nat
BY DEF TypeOK, Hold

(* Amounts are positive.                                                   *)
LEMMA AmountType ==
  ASSUME NEW m \in Amounts
  PROVE  m \in Nat /\ m > 0 /\ -m \in Int
BY BoundsAssumption

(* What postWithin leaves behind has the right type, and it only appends.  *)
LEMMA PostWithinType ==
  ASSUME TypeOK, NEW ref \in References, NEW e \in Effects, PostWithin(ref, e)
  PROVE  /\ ledgerBalance' \in [Accounts -> Int]
         /\ deposits' \in Int
         /\ journal' \in Seq(Entry)
         /\ Len(journal) <= Len(journal')
         /\ EntryId(ref) \in 1..Len(journal')
         /\ \A i \in DOMAIN journal' : journal'[i].reversedBy <= Len(journal')
<1>1. Moves(ref, e) \in Effects
  BY MovesType
<1>2. ledgerBalance' \in [Accounts -> Int]
  BY <1>1, MovedType DEF PostWithin, TypeOK
<1>3. deposits' \in Int
  BY <1>1, ControlDeltaType DEF PostWithin, TypeOK
<1>4. CASE Booked(ref)
  <2>1. journal' = journal
    BY <1>4 DEF PostWithin
  <2> QED BY <2>1, <1>2, <1>3, <1>4, EntryIdType, LenProperties DEF TypeOK
<1>5. CASE ~Booked(ref)
  <2>1. journal' = Append(journal, NewEntry(ref, e))
    BY <1>5 DEF PostWithin
  <2>2. NewEntry(ref, e) \in Entry /\ NewEntry(ref, e).reversedBy = 0
    BY NewEntryType DEF NewEntry
  <2>3. journal \in Seq(Entry) /\ Len(journal) \in Nat
    BY LenProperties DEF TypeOK
  <2>4. journal' \in Seq(Entry) /\ Len(journal') = Len(journal) + 1
    BY <2>1, <2>2, <2>3, AppendedType
  <2>5. EntryId(ref) \in 1..Len(journal')
    BY <1>5, <2>3, <2>4, EntryIdType
  <2>6. ASSUME NEW i \in DOMAIN journal' PROVE journal'[i].reversedBy <= Len(journal')
    <3>1. CASE i \in DOMAIN journal
      <4>1. journal'[i] = journal[i]
        BY <3>1, <2>1, <2>2, <2>3, AppendedType
      <4>2. journal[i].reversedBy <= Len(journal)
        BY <3>1 DEF TypeOK
      <4>3. journal[i] \in Entry
        BY <3>1, <2>3, ElementOfSeq, LenProperties
      <4>4. journal[i].reversedBy \in Nat
        BY <4>3 DEF Entry
      <4> QED BY <4>1, <4>2, <4>4, <2>3, <2>4
    <3>2. CASE i = Len(journal) + 1
      BY <3>2, <2>1, <2>2, <2>3, <2>4, AppendedType
    <3> QED BY <3>1, <3>2, <2>1, <2>2, <2>3, AppendedType
  <2> QED BY <1>2, <1>3, <2>3, <2>4, <2>5, <2>6
<1> QED BY <1>4, <1>5

(* The status change that rides along with a posting is to a status.       *)
LEMMA TransitionType ==
  ASSUME TypeOK, NEW e \in Effects
  PROVE  transitionFor(e) \in [Accounts -> AccountStatus]
BY DEF transitionFor, TypeOK, AccountStatus

(* A resolution writes the status and the entry of one hold and leaves     *)
(* every other hold as it was.                                             *)
LEMMA ResolveType ==
  ASSUME TypeOK, NEW h \in Holds, NEW outcome \in HoldStatus, NEW amount, NEW id \in Nat,
         ResolveWithin(h, outcome, amount, id), ledgerBalance' \in [Accounts -> Int]
  PROVE  /\ hold' \in [Holds -> Hold]
         /\ holdTotal' \in [Accounts -> Nat]
         /\ availableBalance' \in [Accounts -> Int]
         /\ hold'[h].status = outcome /\ hold'[h].capturedEntryId = id
         /\ hold'[h].accountId = hold[h].accountId
         /\ hold'[h].amount = hold[h].amount
         /\ \A g \in Holds : g # h => hold'[g] = hold[g]
<1> DEFINE resolved == [hold[h] EXCEPT !.status = outcome, !.capturedEntryId = id]
<1>1. hold[h] \in Hold
  BY DEF TypeOK
<1>2. hold[h].accountId \in Accounts /\ hold[h].amount \in Nat
  BY <1>1 DEF Hold
<1>3. hold' = [hold EXCEPT ![h] = resolved]
  BY DEF ResolveWithin, TypeOK
<1>4. /\ resolved \in Hold
      /\ resolved.status = outcome /\ resolved.capturedEntryId = id
      /\ resolved.accountId = hold[h].accountId /\ resolved.amount = hold[h].amount
  BY <1>1 DEF Hold
<1> HIDE DEF resolved
<1>5. /\ hold' \in [Holds -> Hold] /\ hold'[h] = resolved
      /\ \A g \in Holds : g # h => hold'[g] = hold[g]
  BY <1>3, <1>4 DEF TypeOK
<1>6. holdTotal' \in [Accounts -> Nat]
  BY <1>2 DEF ResolveWithin, Released, TypeOK
<1>7. availableBalance' \in [Accounts -> Int]
  BY <1>2, <1>6 DEF ResolveWithin, TypeOK
<1> QED BY <1>4, <1>5, <1>6, <1>7

(* The journal under the mark of a reversal, for the two ways Reverse can  *)
(* end: the reversal booked now, or found already booked.                  *)
LEMMA ReverseJournal ==
  ASSUME TypeOK, NEW i \in DOMAIN journal, Reverse(i)
  PROVE  LET ref == reversalReference(journal[i].reference)
             mirror == buildReversal(journal[i].effects)
         IN /\ ref \in References
            /\ mirror \in Effects
            /\ journal' \in Seq(Entry)
            /\ Len(journal) <= Len(journal')
            /\ \A j \in DOMAIN journal' : journal'[j].reversedBy <= Len(journal')
<1> DEFINE ref == reversalReference(journal[i].reference)
           mirror == buildReversal(journal[i].effects)
           marked == Marked(i, EntryId(ref))
<1>1. journal \in Seq(Entry) /\ Len(journal) \in Nat /\ DOMAIN journal = 1..Len(journal)
  BY LenProperties DEF TypeOK
<1>2. journal[i] \in Entry /\ journal[i].reversedBy \in Nat
  BY JournalEntry
<1>3. ref \in References
  BY <1>2, BoundsAssumption DEF Reverse, reversalReference, Entry, References
<1>4. mirror \in Effects
  BY <1>2, ReversalType DEF Entry
<1>5. EntryId(ref) \in Nat /\ EntryId(ref) <= Len(journal) + 1
      /\ (Booked(ref) => EntryId(ref) <= Len(journal))
  BY <1>1, EntryIdType
<1> HIDE DEF ref, mirror
<1>6. /\ marked \in Seq(Entry) /\ Len(marked) = Len(journal)
      /\ marked[i] = [journal[i] EXCEPT !.reversedBy = EntryId(ref)]
      /\ \A j \in DOMAIN journal : j # i => marked[j] = journal[j]
      /\ DOMAIN marked = 1..Len(journal)
  BY <1>1, <1>5, MarkedType, LenProperties
<1>7. \A j \in DOMAIN journal : marked[j].reversedBy \in {journal[j].reversedBy, EntryId(ref)}
  BY <1>2, <1>6 DEF Entry
<1>8. \A j \in DOMAIN journal : journal[j].reversedBy <= Len(journal) /\ journal[j].reversedBy \in Nat
  BY JournalEntry DEF TypeOK
<1> HIDE DEF marked
<1>9. CASE Booked(ref)
  <2>1. journal' = marked
    BY <1>9 DEF Reverse, ref, marked
  <2> QED BY <2>1, <1>1, <1>3, <1>4, <1>5, <1>6, <1>7, <1>8, <1>9 DEF ref, mirror
<1>10. CASE ~Booked(ref)
  <2>1. journal' = Append(marked, NewEntry(ref, mirror))
    BY <1>10 DEF Reverse, ref, marked, mirror
  <2>2. NewEntry(ref, mirror) \in Entry /\ NewEntry(ref, mirror).reversedBy = 0
    BY <1>3, <1>4, NewEntryType DEF NewEntry
  <2>3. /\ journal' \in Seq(Entry) /\ Len(journal') = Len(journal) + 1
        /\ \A j \in 1..Len(journal) : journal'[j] = marked[j]
        /\ journal'[Len(journal) + 1] = NewEntry(ref, mirror)
        /\ DOMAIN journal' = 1..Len(journal) \cup {Len(journal) + 1}
    BY <2>1, <2>2, <1>6, AppendedType
  <2>4. ASSUME NEW j \in DOMAIN journal' PROVE journal'[j].reversedBy <= Len(journal')
    <3>1. CASE j \in 1..Len(journal)
      BY <3>1, <2>3, <1>1, <1>5, <1>7, <1>8
    <3>2. CASE j = Len(journal) + 1
      BY <3>2, <2>2, <2>3, <1>1
    <3> QED BY <3>1, <3>2, <2>3
  <2> QED BY <2>3, <2>4, <1>1, <1>3, <1>4 DEF ref, mirror
<1> QED BY <1>9, <1>10

(* The empty bank has the right type.                                      *)
LEMMA TypeInit == Init => TypeOK
<1> SUFFICES ASSUME Init PROVE TypeOK
  OBVIOUS
<1>1. journal \in Seq(Entry) /\ Len(journal) = 0 /\ DOMAIN journal = {}
  BY EmptySeq, LenProperties DEF Init
<1>2. 1 \in Accounts
  BY BoundsAssumption
<1>3. hold \in [Holds -> Hold]
  BY <1>2 DEF Init, Hold, HoldStatus, HoldReason
<1> QED BY <1>1, <1>3 DEF Init, TypeOK, AccountStatus, FacilityStatus

(* PostingService.post keeps the type.                                     *)
LEMMA TypePost ==
  ASSUME TypeOK, NEW n \in Requests, NEW e \in Effects, Post(n, e)
  PROVE  TypeOK'
<1> DEFINE ref == Ref("POST", n)
<1>1. ref \in References /\ Moves(ref, e) \in Effects
  BY RefType, MovesType
<1>2. PostWithin(ref, e)
  BY DEF Post
<1> HIDE DEF ref
<1>3. status' \in [Accounts -> AccountStatus]
  BY <1>1, TransitionType DEF Post, ref
<1>4. availableBalance' \in [Accounts -> Int]
  BY <1>1, MovedType DEF Post, AvailableAfter, TypeOK, ref
<1>5. Len(journal) <= Len(journal') /\ Len(journal) \in Nat /\ Len(journal') \in Nat
  BY <1>1, <1>2, PostWithinType, LenProperties DEF TypeOK
<1>6. \A h \in Holds : hold[h].capturedEntryId \in Nat
  BY DEF TypeOK, Hold
<1>7. \A h \in Holds : hold'[h].capturedEntryId <= Len(journal')
  BY <1>5, <1>6 DEF Post, TypeOK
<1> QED BY <1>1, <1>2, <1>3, <1>4, <1>7, PostWithinType DEF Post, TypeOK

(* ReversalService.reverse keeps the type.                                 *)
LEMMA TypeReverse ==
  ASSUME TypeOK, NEW i \in DOMAIN journal, Reverse(i)
  PROVE  TypeOK'
<1> DEFINE ref == reversalReference(journal[i].reference)
           mirror == buildReversal(journal[i].effects)
<1>1. /\ ref \in References /\ mirror \in Effects
      /\ journal' \in Seq(Entry) /\ Len(journal) <= Len(journal')
      /\ \A j \in DOMAIN journal' : journal'[j].reversedBy <= Len(journal')
  BY ReverseJournal
<1> HIDE DEF ref, mirror
<1>2. Moves(ref, mirror) \in Effects
  BY <1>1, MovesType
<1>3. status' \in [Accounts -> AccountStatus]
  BY <1>2, TransitionType DEF Reverse, ref, mirror
<1>4. /\ ledgerBalance' \in [Accounts -> Int]
      /\ availableBalance' \in [Accounts -> Int]
  BY <1>2, MovedType DEF Reverse, AvailableAfter, TypeOK, ref, mirror
<1>5. deposits' \in Int
  BY <1>2, ControlDeltaType DEF Reverse, TypeOK, ref, mirror
<1>6. Len(journal) \in Nat /\ Len(journal') \in Nat
  BY <1>1, LenProperties DEF TypeOK
<1>7. \A h \in Holds : hold[h].capturedEntryId \in Nat
  BY DEF TypeOK, Hold
<1>8. \A h \in Holds : hold'[h].capturedEntryId <= Len(journal')
  BY <1>1, <1>6, <1>7 DEF Reverse, TypeOK
<1> QED BY <1>1, <1>3, <1>4, <1>5, <1>8 DEF Reverse, TypeOK

(* HoldService.place keeps the type.                                       *)
LEMMA TypePlaceHold ==
  ASSUME TypeOK, NEW h \in Holds, NEW a \in Accounts, NEW m \in Amounts, NEW r \in HoldReason,
         PlaceHold(h, a, m, r)
  PROVE  TypeOK'
<1>1. m \in Nat
  BY BoundsAssumption
<1> DEFINE new == [status |-> "ACTIVE", accountId |-> a, amount |-> m,
                   reason |-> r, capturedEntryId |-> 0]
<1>2. new \in Hold /\ new.capturedEntryId = 0
  BY <1>1 DEF Hold, HoldStatus
<1>3. hold' = [hold EXCEPT ![h] = new]
  BY DEF PlaceHold
<1> HIDE DEF new
<1>4. hold' \in [Holds -> Hold]
  BY <1>2, <1>3 DEF TypeOK
<1>5. Len(journal) \in Nat
  BY LenProperties DEF TypeOK
<1>6. \A g \in Holds : hold'[g].capturedEntryId <= Len(journal)
  BY <1>2, <1>3, <1>5 DEF TypeOK
<1>7. holdTotal' \in [Accounts -> Nat] /\ availableBalance' \in [Accounts -> Int]
  BY <1>1 DEF PlaceHold, TypeOK
<1> QED BY <1>4, <1>6, <1>7 DEF PlaceHold, bookVars, TypeOK

(* Releasing and expiring a hold keep the type: the guard in ResolveWithin *)
(* is what keeps holdTotal from going below zero.                          *)
LEMMA TypeGiveBack ==
  ASSUME TypeOK, NEW h \in Holds, NEW outcome \in HoldStatus, GiveBack(h, outcome)
  PROVE  TypeOK'
<1>1. ResolveWithin(h, outcome, 0, 0) /\ ledgerBalance' \in [Accounts -> Int] /\ 0 \in Nat
  BY DEF GiveBack, bookVars, TypeOK
<1>2. /\ hold' \in [Holds -> Hold]
      /\ holdTotal' \in [Accounts -> Nat]
      /\ availableBalance' \in [Accounts -> Int]
      /\ hold'[h].capturedEntryId = 0
      /\ \A g \in Holds : g # h => hold'[g] = hold[g]
  BY <1>1, ResolveType
<1>3. Len(journal) \in Nat
  BY LenProperties DEF TypeOK
<1>4. \A g \in Holds : hold'[g].capturedEntryId <= Len(journal)
  BY <1>2, <1>3 DEF TypeOK
<1> QED BY <1>2, <1>4 DEF GiveBack, bookVars, TypeOK

(* HoldCaptureService.capture keeps the type.                              *)
LEMMA TypeCaptureHold ==
  ASSUME TypeOK, NEW h \in Holds, NEW m \in Amounts, CaptureHold(h, m)
  PROVE  TypeOK'
<1> DEFINE ref == Ref("CAPTURE", h)
           taken == Only(hold[h].accountId, -m)
<1>1. hold[h].accountId \in Accounts /\ -m \in Int
  BY BoundsAssumption DEF TypeOK, Hold
<1>2. ref \in References /\ taken \in Effects
  BY <1>1, RefType, OnlyType
<1>3. /\ PostWithin(ref, taken) /\ ResolveWithin(h, "CAPTURED", m, EntryId(ref))
      /\ status' = transitionFor(Moves(ref, taken)) /\ "CAPTURED" \in HoldStatus
  BY DEF CaptureHold, HoldStatus
<1> HIDE DEF ref, taken
<1>4. /\ ledgerBalance' \in [Accounts -> Int] /\ deposits' \in Int
      /\ journal' \in Seq(Entry) /\ Len(journal) <= Len(journal')
      /\ EntryId(ref) \in 1..Len(journal')
      /\ \A i \in DOMAIN journal' : journal'[i].reversedBy <= Len(journal')
  BY <1>2, <1>3, PostWithinType
<1>5. status' \in [Accounts -> AccountStatus]
  BY <1>2, <1>3, MovesType, TransitionType
<1>6. Len(journal) \in Nat /\ Len(journal') \in Nat /\ EntryId(ref) \in Nat
  BY <1>4, LenProperties DEF TypeOK
<1>7. /\ hold' \in [Holds -> Hold]
      /\ holdTotal' \in [Accounts -> Nat]
      /\ availableBalance' \in [Accounts -> Int]
      /\ hold'[h].capturedEntryId = EntryId(ref)
      /\ \A g \in Holds : g # h => hold'[g] = hold[g]
  BY <1>3, <1>4, <1>6, ResolveType
<1>8. \A g \in Holds : hold[g].capturedEntryId \in Nat /\ hold[g].capturedEntryId <= Len(journal)
  BY DEF TypeOK, Hold
<1>9. \A g \in Holds : hold'[g].capturedEntryId <= Len(journal')
  BY <1>4, <1>6, <1>7, <1>8
<1>10. UNCHANGED <<overdraftLimit, facility>>
  BY DEF CaptureHold
<1> QED BY <1>4, <1>5, <1>7, <1>9, <1>10 DEF TypeOK

(* Opening, freezing, unfreezing, dormancy and an empty closure write the  *)
(* status alone.                                                           *)
LEMMA TypeStatusOnly ==
  ASSUME TypeOK, status' \in [Accounts -> AccountStatus],
         UNCHANGED <<availableBalance, holdTotal, overdraftLimit, facility, hold, bookVars>>
  PROVE  TypeOK'
BY DEF TypeOK, bookVars

(* Closing an account with a residue keeps the type.                       *)
LEMMA TypeCloseSweeping ==
  ASSUME TypeOK, NEW a \in Accounts, NEW b \in Accounts, CloseSweeping(a, b)
  PROVE  TypeOK'
<1> DEFINE ref == Ref("CLOSE", a)
           swept == InternalTransfer(a, b, ledgerBalance[a])
<1>1. ledgerBalance[a] \in Int
  BY DEF TypeOK
<1>2. ref \in References /\ swept \in Effects
  BY <1>1, RefType, TransferType
<1>3. PostWithin(ref, swept)
  BY DEF CloseSweeping
<1> HIDE DEF ref, swept
<1>4. /\ ledgerBalance' \in [Accounts -> Int] /\ deposits' \in Int
      /\ journal' \in Seq(Entry) /\ Len(journal) <= Len(journal')
      /\ \A i \in DOMAIN journal' : journal'[i].reversedBy <= Len(journal')
  BY <1>2, <1>3, PostWithinType
<1>5. transitionFor(Moves(ref, swept)) \in [Accounts -> AccountStatus]
  BY <1>2, MovesType, TransitionType
<1>6. status' \in [Accounts -> AccountStatus]
  BY <1>5 DEF CloseSweeping, AccountStatus, ref, swept
<1>7. availableBalance' \in [Accounts -> Int]
  BY <1>2, MovesType, MovedType DEF CloseSweeping, AvailableAfter, TypeOK, ref, swept
<1>8. Len(journal) \in Nat /\ Len(journal') \in Nat
  BY <1>4, LenProperties DEF TypeOK
<1>9. \A g \in Holds : hold[g].capturedEntryId \in Nat
  BY DEF TypeOK, Hold
<1>10. \A g \in Holds : hold'[g].capturedEntryId <= Len(journal')
  BY <1>4, <1>8, <1>9 DEF CloseSweeping, TypeOK
<1>11. UNCHANGED <<holdTotal, overdraftLimit, facility, hold>>
  BY DEF CloseSweeping
<1> QED BY <1>4, <1>6, <1>7, <1>10, <1>11 DEF TypeOK

(* The overdraft operations keep the type.                                 *)
LEMMA TypeSetFacility ==
  ASSUME TypeOK, NEW a \in Accounts, NEW to \in FacilityStatus, NEW limit \in Nat,
         SetFacility(a, to, limit)
  PROVE  TypeOK'
BY DEF SetFacility, TypeOK, bookVars

(* Every step keeps the type.                                              *)
LEMMA TypeNext == TypeOK /\ [Next]_vars => TypeOK'
<1> SUFFICES ASSUME TypeOK, [Next]_vars PROVE TypeOK'
  OBVIOUS
<1>1. ASSUME NEW n \in Requests, NEW e \in Recipes, Post(n, e) PROVE TypeOK'
  BY <1>1, RecipesType, TypePost
<1>2. ASSUME NEW i \in DOMAIN journal, Reverse(i) PROVE TypeOK'
  BY <1>2, TypeReverse
<1>3. ASSUME NEW h \in Holds, NEW a \in Accounts, NEW m \in Amounts, NEW r \in HoldReason,
             PlaceHold(h, a, m, r)
      PROVE  TypeOK'
  BY <1>3, TypePlaceHold
<1>4. ASSUME NEW h \in Holds, ReleaseHold(h) \/ ExpireHold(h) PROVE TypeOK'
  <2>1. "RELEASED" \in HoldStatus /\ "EXPIRED" \in HoldStatus
    BY DEF HoldStatus
  <2> QED BY <1>4, <2>1, TypeGiveBack DEF ReleaseHold, ExpireHold
<1>5. ASSUME NEW h \in Holds, NEW m \in Amounts, CaptureHold(h, m) PROVE TypeOK'
  BY <1>5, TypeCaptureHold
<1>6. ASSUME NEW a \in Accounts,
             Open(a) \/ Freeze(a) \/ Unfreeze(a) \/ SweepDormant(a) \/ CloseEmpty(a)
      PROVE  TypeOK'
  <2>1. /\ status' \in [Accounts -> AccountStatus]
        /\ UNCHANGED <<availableBalance, holdTotal, overdraftLimit, facility, hold, bookVars>>
    BY <1>6 DEF Open, Freeze, Unfreeze, SweepDormant, CloseEmpty, SetStatus, TypeOK,
                AccountStatus
  <2> QED BY <2>1, TypeStatusOnly
<1>7. ASSUME NEW a \in Accounts, NEW b \in Accounts, CloseSweeping(a, b) PROVE TypeOK'
  BY <1>7, TypeCloseSweeping
<1>8. ASSUME NEW a \in Accounts, NEW m \in Limits, RequestOverdraft(a, m) PROVE TypeOK'
  <2>1. m \in Nat /\ overdraftLimit[a] \in Nat
    BY BoundsAssumption DEF Limits, TypeOK
  <2>2. "ACTIVE" \in FacilityStatus /\ "DECLINED" \in FacilityStatus
    BY DEF FacilityStatus
  <2>3. SetFacility(a, "ACTIVE", m) \/ SetFacility(a, "DECLINED", overdraftLimit[a])
    BY <1>8 DEF RequestOverdraft
  <2> QED BY <2>1, <2>2, <2>3, TypeSetFacility
<1>9. ASSUME NEW a \in Accounts, SuspendOverdraft(a) \/ CloseOverdraft(a) PROVE TypeOK'
  <2>1. "SUSPENDED" \in FacilityStatus /\ "CLOSED" \in FacilityStatus /\ 0 \in Nat
    BY DEF FacilityStatus
  <2>2. SetFacility(a, "SUSPENDED", 0) \/ SetFacility(a, "CLOSED", 0)
    BY <1>9 DEF SuspendOverdraft, CloseOverdraft
  <2> QED BY <2>1, <2>2, TypeSetFacility
<1>10. CASE UNCHANGED vars
  BY <1>10 DEF vars, TypeOK
<1> QED BY <1>1, <1>2, <1>3, <1>4, <1>5, <1>6, <1>7, <1>8, <1>9, <1>10 DEF Next

(* Every variable of AccountBook keeps its type: in particular holdTotal   *)
(* never goes below zero, and a hold or an entry only ever names an entry  *)
(* that is in the journal.                                                 *)
THEOREM TypeCorrect == Spec => []TypeOK
<1>1. Init => TypeOK
  BY TypeInit
<1>2. TypeOK /\ [Next]_vars => TypeOK'
  BY TypeNext
<1> QED BY <1>1, <1>2, PTL DEF Spec

-----------------------------------------------------------------------------
(* Money: every step moves the ledger balances by some effects and the     *)
(* control account by their total, and only effects that postWithin let    *)
(* through, under overdraft limits that it leaves alone.                   *)

MovesMoney(e) ==
  /\ ledgerBalance' = Moved(ledgerBalance, e)
  /\ deposits' = deposits + ControlDelta(e)
  /\ \/ e = NoEffect
     \/ Postable(e) /\ UNCHANGED <<overdraftLimit, facility>>

(* A step that leaves the balances and the control account alone moves the *)
(* empty effect.                                                           *)
LEMMA NothingMoves ==
  ASSUME TypeOK, UNCHANGED <<ledgerBalance, deposits>>
  PROVE  MovesMoney(NoEffect)
<1>1. Moved(ledgerBalance, NoEffect) = ledgerBalance
  BY DEF Moved, NoEffect, TypeOK
<1>2. NoEffect \in [1..NumAccounts -> Int] /\ \A i \in 1..NumAccounts : NoEffect[i] = 0
  BY DEF NoEffect
<1>3. ControlDelta(NoEffect) = 0
  BY <1>2, TotalZero, BoundsAssumption DEF ControlDelta
<1> QED BY <1>1, <1>3 DEF MovesMoney, TypeOK

(* Every step is a movement, possibly an empty one.                        *)
LEMMA MoneyStep ==
  ASSUME TypeOK, [Next]_vars
  PROVE  \E e \in Effects : MovesMoney(e)
<1>1. ASSUME NEW ref, NEW e \in Effects, PostWithin(ref, e), UNCHANGED <<overdraftLimit, facility>>
      PROVE  \E x \in Effects : MovesMoney(x)
  <2>1. Moves(ref, e) \in Effects
    BY MovesType
  <2>2. MovesMoney(Moves(ref, e))
    BY <1>1 DEF PostWithin, MovesMoney, Moves
  <2> QED BY <2>1, <2>2
<1>2. ASSUME UNCHANGED <<ledgerBalance, deposits>>
      PROVE  \E x \in Effects : MovesMoney(x)
  BY <1>2, NothingMoves, NoEffectType
<1>3. ASSUME NEW n \in Requests, NEW e \in Recipes, Post(n, e)
      PROVE  \E x \in Effects : MovesMoney(x)
  BY <1>1, <1>3, RecipesType DEF Post
<1>4. ASSUME NEW i \in DOMAIN journal, Reverse(i)
      PROVE  \E x \in Effects : MovesMoney(x)
  <2>1. buildReversal(journal[i].effects) \in Effects
    BY JournalEntry, ReversalType
  <2> DEFINE ref == reversalReference(journal[i].reference)
             mirror == buildReversal(journal[i].effects)
  <2>2. Moves(ref, mirror) \in Effects
    BY <2>1, MovesType
  <2>3. MovesMoney(Moves(ref, mirror))
    BY <1>4 DEF Reverse, MovesMoney, Moves
  <2> QED BY <2>2, <2>3
<1>5. ASSUME NEW h \in Holds, NEW m \in Amounts, CaptureHold(h, m)
      PROVE  \E x \in Effects : MovesMoney(x)
  <2>1. hold[h].accountId \in Accounts /\ -m \in Int
    BY HoldRecord, AmountType
  <2>2. Only(hold[h].accountId, -m) \in Effects
    BY <2>1, OnlyType
  <2> QED BY <1>1, <1>5, <2>2 DEF CaptureHold
<1>6. ASSUME NEW a \in Accounts, NEW b \in Accounts, CloseSweeping(a, b)
      PROVE  \E x \in Effects : MovesMoney(x)
  <2>1. ledgerBalance[a] \in Int
    BY DEF TypeOK
  <2>2. InternalTransfer(a, b, ledgerBalance[a]) \in Effects
    BY <2>1, TransferType
  <2> QED BY <1>1, <1>6, <2>2 DEF CloseSweeping
<1>7. ASSUME NEW h \in Holds, ReleaseHold(h) \/ ExpireHold(h)
      PROVE  UNCHANGED <<ledgerBalance, deposits>>
  BY <1>7 DEF ReleaseHold, ExpireHold, GiveBack, bookVars
<1>8. ASSUME NEW h \in Holds, NEW a \in Accounts, NEW m \in Amounts, NEW r \in HoldReason,
             PlaceHold(h, a, m, r)
      PROVE  UNCHANGED <<ledgerBalance, deposits>>
  BY <1>8 DEF PlaceHold, bookVars
<1>9. ASSUME NEW a \in Accounts,
             Open(a) \/ Freeze(a) \/ Unfreeze(a) \/ SweepDormant(a) \/ CloseEmpty(a)
      PROVE  UNCHANGED <<ledgerBalance, deposits>>
  BY <1>9 DEF Open, Freeze, Unfreeze, SweepDormant, CloseEmpty, SetStatus, bookVars
<1>10. ASSUME NEW a \in Accounts, NEW m \in Limits, RequestOverdraft(a, m)
       PROVE  UNCHANGED <<ledgerBalance, deposits>>
  BY <1>10 DEF RequestOverdraft, SetFacility, bookVars
<1>11. ASSUME NEW a \in Accounts, SuspendOverdraft(a) \/ CloseOverdraft(a)
       PROVE  UNCHANGED <<ledgerBalance, deposits>>
  BY <1>11 DEF SuspendOverdraft, CloseOverdraft, SetFacility, bookVars
<1>12. CASE UNCHANGED vars
  BY <1>2, <1>12 DEF vars
<1> QED BY <1>2, <1>3, <1>4, <1>5, <1>6, <1>7, <1>8, <1>9, <1>10, <1>11, <1>12 DEF Next

(* The bank's most important identity, for any number of accounts, holds   *)
(* and references: the sum of the customer balances is the balance of      *)
(* GL 2000.                                                                *)
THEOREM ControlIdentity == Spec => []ControlExact
<1>1. Init => ControlExact
  <2> SUFFICES ASSUME Init PROVE ControlExact
    OBVIOUS
  <2>1. /\ ledgerBalance \in [1..NumAccounts -> Int]
        /\ \A i \in 1..NumAccounts : ledgerBalance[i] = 0
        /\ deposits = 0
    BY DEF Init
  <2> QED BY <2>1, TotalZero, BoundsAssumption DEF ControlExact
<1>2. TypeOK /\ ControlExact /\ [Next]_vars => ControlExact'
  <2> SUFFICES ASSUME TypeOK, ControlExact, [Next]_vars PROVE ControlExact'
    OBVIOUS
  <2>1. PICK e \in Effects : MovesMoney(e)
    BY MoneyStep
  <2>2. NumAccounts \in Nat /\ ledgerBalance \in [1..NumAccounts -> Int] /\ e \in [1..NumAccounts -> Int]
    BY BoundsAssumption DEF TypeOK
  <2>3. ledgerBalance' = [i \in 1..NumAccounts |-> ledgerBalance[i] + e[i]]
    BY <2>1 DEF MovesMoney, Moved
  <2>4. Total(ledgerBalance', NumAccounts) = Total(ledgerBalance, NumAccounts) + Total(e, NumAccounts)
    BY <2>2, <2>3, TotalSum
  <2>5. deposits' = Total(ledgerBalance, NumAccounts) + Total(e, NumAccounts)
    BY <2>1 DEF MovesMoney, ControlDelta, ControlExact
  <2> QED BY <2>4, <2>5 DEF ControlExact
<1> QED BY <1>1, <1>2, TypeCorrect, PTL DEF Spec

-----------------------------------------------------------------------------
(* Availability.                                                           *)

(* A posting moves both balances by the same delta; a hold rewrites the    *)
(* availability of one account from the other two figures.                 *)
LEMMA AvailabilityPosted ==
  ASSUME TypeOK, AvailabilityExact, NEW e \in Effects,
         ledgerBalance' = Moved(ledgerBalance, e), availableBalance' = Moved(availableBalance, e),
         holdTotal' = holdTotal
  PROVE  AvailabilityExact'
BY DEF AvailabilityExact, Moved, TypeOK

(* Resolving a hold rewrites the availability of its account alone.        *)
LEMMA AvailabilityResolved ==
  ASSUME TypeOK, AvailabilityExact, NEW h \in Holds, NEW outcome, NEW m, NEW id,
         ResolveWithin(h, outcome, m, id),
         ledgerBalance' \in [Accounts -> Int],
         \A x \in Accounts : x # hold[h].accountId => ledgerBalance'[x] = ledgerBalance[x]
  PROVE  AvailabilityExact'
<1>1. hold[h].accountId \in Accounts
  BY HoldRecord
<1> QED BY <1>1 DEF AvailabilityExact, ResolveWithin, TypeOK

(* Every step keeps the stored availability exact.                         *)
LEMMA AvailabilityNext ==
  ASSUME TypeOK, AvailabilityExact, [Next]_vars
  PROVE  AvailabilityExact'
<1>1. ASSUME NEW n \in Requests, NEW e \in Recipes, Post(n, e) PROVE AvailabilityExact'
  <2>1. Moves(Ref("POST", n), e) \in Effects
    BY RecipesType, MovesType
  <2> QED BY <1>1, <2>1, AvailabilityPosted DEF Post, PostWithin, AvailableAfter
<1>2. ASSUME NEW i \in DOMAIN journal, Reverse(i) PROVE AvailabilityExact'
  <2> DEFINE ref == reversalReference(journal[i].reference)
             mirror == buildReversal(journal[i].effects)
  <2>1. mirror \in Effects
    BY JournalEntry, ReversalType
  <2>2. Moves(ref, mirror) \in Effects
    BY <2>1, MovesType
  <2> QED BY <1>2, <2>2, AvailabilityPosted DEF Reverse, AvailableAfter
<1>3. ASSUME NEW h \in Holds, NEW a \in Accounts, NEW m \in Amounts, NEW r \in HoldReason,
             PlaceHold(h, a, m, r)
      PROVE  AvailabilityExact'
  <2>1. /\ holdTotal' = [holdTotal EXCEPT ![a] = @ + m]
        /\ availableBalance' = [availableBalance EXCEPT
                                  ![a] = ledgerBalance[a] - holdTotal[a] - m]
        /\ ledgerBalance' = ledgerBalance
    BY <1>3 DEF PlaceHold, bookVars
  <2>2. m \in Nat
    BY AmountType
  <2>3. /\ ledgerBalance \in [Accounts -> Int] /\ availableBalance \in [Accounts -> Int]
        /\ holdTotal \in [Accounts -> Nat]
    BY DEF TypeOK
  <2> QED BY <2>1, <2>2, <2>3 DEF AvailabilityExact
<1>4. ASSUME NEW h \in Holds, ReleaseHold(h) \/ ExpireHold(h) PROVE AvailabilityExact'
  <2>1. ledgerBalance' = ledgerBalance /\ ledgerBalance \in [Accounts -> Int]
    BY <1>4 DEF ReleaseHold, ExpireHold, GiveBack, bookVars, TypeOK
  <2>2. ResolveWithin(h, "RELEASED", 0, 0) \/ ResolveWithin(h, "EXPIRED", 0, 0)
    BY <1>4 DEF ReleaseHold, ExpireHold, GiveBack
  <2> QED BY <2>1, <2>2, AvailabilityResolved
<1>5. ASSUME NEW h \in Holds, NEW m \in Amounts, CaptureHold(h, m) PROVE AvailabilityExact'
  <2> DEFINE ref == Ref("CAPTURE", h)
             a == hold[h].accountId
             taken == Only(a, -m)
  <2>1. a \in Accounts /\ -m \in Int
    BY HoldRecord, AmountType
  <2>2. taken \in Effects /\ \A x \in Accounts : x # a => taken[x] = 0
    BY <2>1, OnlyType DEF Only, NoEffect
  <2>3. Moves(ref, taken) \in Effects /\ \A x \in Accounts : x # a => Moves(ref, taken)[x] = 0
    BY <2>2, MovesType DEF Moves, NoEffect
  <2>4. ledgerBalance' = Moved(ledgerBalance, Moves(ref, taken))
    BY <1>5 DEF CaptureHold, PostWithin
  <2>5. ResolveWithin(h, "CAPTURED", m, EntryId(ref))
    BY <1>5 DEF CaptureHold
  <2> HIDE DEF ref, taken
  <2>6. ledgerBalance \in [Accounts -> Int]
    BY DEF TypeOK
  <2>7. ledgerBalance' \in [Accounts -> Int]
    BY <2>3, <2>4, <2>6, MovedType
  <2>8. \A x \in Accounts : x # a => ledgerBalance'[x] = ledgerBalance[x]
    BY <2>3, <2>4, <2>6 DEF Moved
  <2> QED BY <2>5, <2>7, <2>8, AvailabilityResolved
<1>6. ASSUME NEW a \in Accounts, NEW b \in Accounts, CloseSweeping(a, b) PROVE AvailabilityExact'
  <2> DEFINE ref == Ref("CLOSE", a)
             swept == InternalTransfer(a, b, ledgerBalance[a])
  <2>1. ledgerBalance[a] \in Int
    BY DEF TypeOK
  <2>2. Moves(ref, swept) \in Effects
    BY <2>1, TransferType, MovesType
  <2> QED BY <1>6, <2>2, AvailabilityPosted DEF CloseSweeping, PostWithin, AvailableAfter
<1>7. ASSUME UNCHANGED <<ledgerBalance, availableBalance, holdTotal>> PROVE AvailabilityExact'
  BY <1>7 DEF AvailabilityExact
<1>8. ASSUME NEW a \in Accounts,
             Open(a) \/ Freeze(a) \/ Unfreeze(a) \/ SweepDormant(a) \/ CloseEmpty(a)
      PROVE  AvailabilityExact'
  BY <1>7, <1>8 DEF Open, Freeze, Unfreeze, SweepDormant, CloseEmpty, SetStatus, bookVars
<1>9. ASSUME NEW a \in Accounts, NEW m \in Limits, RequestOverdraft(a, m) PROVE AvailabilityExact'
  BY <1>7, <1>9 DEF RequestOverdraft, SetFacility, bookVars
<1>10. ASSUME NEW a \in Accounts, SuspendOverdraft(a) \/ CloseOverdraft(a) PROVE AvailabilityExact'
  BY <1>7, <1>10 DEF SuspendOverdraft, CloseOverdraft, SetFacility, bookVars
<1>11. CASE UNCHANGED vars
  BY <1>7, <1>11 DEF vars
<1> QED BY <1>1, <1>2, <1>3, <1>4, <1>5, <1>6, <1>8, <1>9, <1>10, <1>11 DEF Next

(* The stored availability is always the ledger balance less the holds,    *)
(* although two different modules write it in two different ways.          *)
THEOREM AvailabilityNeverDrifts == Spec => []AvailabilityExact
<1>1. Init => AvailabilityExact
  BY DEF Init, AvailabilityExact
<1>2. TypeOK /\ AvailabilityExact /\ [Next]_vars => AvailabilityExact'
  BY AvailabilityNext
<1> QED BY <1>1, <1>2, TypeCorrect, PTL DEF Spec

-----------------------------------------------------------------------------
(* Holds.                                                                  *)

(* What each hold contributes to an account's reserve.                     *)
LEMMA ActiveAmountType ==
  ASSUME TypeOK, NEW x \in Accounts
  PROVE  ActiveAmount(x) \in [1..NumHolds -> Nat]
BY HoldRecord DEF ActiveAmount

(* When one hold changes, the total of an account's active holds changes   *)
(* by what that hold contributes.                                          *)
LEMMA OneHoldChanges ==
  ASSUME TypeOK, TypeOK', NEW h \in Holds, NEW x \in Accounts,
         \A g \in Holds : g # h => hold'[g] = hold[g]
  PROVE  Total(ActiveAmount(x)', NumHolds)
           = Total(ActiveAmount(x), NumHolds) - ActiveAmount(x)[h] + ActiveAmount(x)'[h]
<1> DEFINE f == ActiveAmount(x)
           v == ActiveAmount(x)'[h]
<1>1. f \in [1..NumHolds -> Nat]
  BY ActiveAmountType
<1>2. ActiveAmount(x)' \in [1..NumHolds -> Nat]
  <2>1. \A g \in Holds : hold'[g].amount \in Nat
    BY DEF TypeOK, Hold
  <2> QED BY <2>1 DEF ActiveAmount
<1>3. \A g \in 1..NumHolds : g # h => ActiveAmount(x)'[g] = f[g]
  BY DEF ActiveAmount
<1>4. ActiveAmount(x)' = [f EXCEPT ![h] = v]
  BY <1>1, <1>2, <1>3
<1>5. NumHolds \in Nat /\ h \in 1..NumHolds /\ v \in Int /\ f \in [1..NumHolds -> Int]
  BY <1>1, <1>2, BoundsAssumption
<1> HIDE DEF f, v
<1>6. Total([f EXCEPT ![h] = v], NumHolds) = Total(f, NumHolds) - f[h] + v
  BY <1>5, TotalUpdate
<1> QED BY <1>4, <1>6 DEF f, v

(* Resolving a hold takes its whole amount off holdTotal.                  *)
LEMMA HoldsResolved ==
  ASSUME TypeOK, TypeOK', HoldsExact, NEW h \in Holds, NEW outcome \in HoldStatus, NEW m,
         NEW id \in Nat, outcome # "ACTIVE", ResolveWithin(h, outcome, m, id),
         ledgerBalance' \in [Accounts -> Int]
  PROVE  HoldsExact'
<1> DEFINE a == hold[h].accountId
<1>1. a \in Accounts /\ hold[h].amount \in Nat
  BY HoldRecord
<1>2. /\ hold'[h].status = outcome
      /\ \A g \in Holds : g # h => hold'[g] = hold[g]
  BY ResolveType
<1>3. hold[h].status = "ACTIVE"
  BY DEF ResolveWithin, ResolvableFrom
<1>4. holdTotal' = [holdTotal EXCEPT ![a] = @ - hold[h].amount]
  BY DEF ResolveWithin, Released
<1>5. ASSUME NEW x \in Accounts PROVE holdTotal'[x] = Total(ActiveAmount(x)', NumHolds)
  <2>1. Total(ActiveAmount(x)', NumHolds)
          = Total(ActiveAmount(x), NumHolds) - ActiveAmount(x)[h] + ActiveAmount(x)'[h]
    BY <1>2, OneHoldChanges
  <2>2. ActiveAmount(x)'[h] = 0
    BY <1>2 DEF ActiveAmount
  <2>3. ActiveAmount(x)[h] = IF x = a THEN hold[h].amount ELSE 0
    BY <1>3 DEF ActiveAmount
  <2>4. holdTotal[x] = Total(ActiveAmount(x), NumHolds) /\ holdTotal[x] \in Nat
    BY DEF HoldsExact, TypeOK
  <2>5. holdTotal'[x] = IF x = a THEN holdTotal[x] - hold[h].amount ELSE holdTotal[x]
    BY <1>1, <1>4 DEF TypeOK
  <2> HIDE DEF a
  <2>6. CASE x = a
    BY <2>1, <2>2, <2>3, <2>4, <2>5, <2>6, <1>1
  <2>7. CASE x # a
    BY <2>1, <2>2, <2>3, <2>4, <2>5, <2>7
  <2> QED BY <2>6, <2>7
<1> QED BY <1>5 DEF HoldsExact

(* Placing a hold adds its whole amount to holdTotal.                      *)
LEMMA HoldsPlaced ==
  ASSUME TypeOK, TypeOK', HoldsExact,
         NEW h \in Holds, NEW a \in Accounts, NEW m \in Amounts, NEW r, PlaceHold(h, a, m, r)
  PROVE  HoldsExact'
<1> DEFINE new == [status |-> "ACTIVE", accountId |-> a, amount |-> m,
                   reason |-> r, capturedEntryId |-> 0]
<1>1. /\ hold[h].status = "NONE"
      /\ hold' = [hold EXCEPT ![h] = new]
      /\ holdTotal' = [holdTotal EXCEPT ![a] = @ + m]
  BY DEF PlaceHold
<1>2. new.status = "ACTIVE" /\ new.accountId = a /\ new.amount = m
  OBVIOUS
<1> HIDE DEF new
<1>3. hold'[h] = new /\ \A g \in Holds : g # h => hold'[g] = hold[g]
  BY <1>1 DEF TypeOK
<1>4. m \in Nat
  BY AmountType
<1>5. ASSUME NEW x \in Accounts PROVE holdTotal'[x] = Total(ActiveAmount(x)', NumHolds)
  <2>1. Total(ActiveAmount(x)', NumHolds)
          = Total(ActiveAmount(x), NumHolds) - ActiveAmount(x)[h] + ActiveAmount(x)'[h]
    BY <1>3, OneHoldChanges
  <2>2. ActiveAmount(x)'[h] = IF x = a THEN m ELSE 0
    BY <1>2, <1>3 DEF ActiveAmount
  <2>3. ActiveAmount(x)[h] = 0
    BY <1>1 DEF ActiveAmount
  <2>4. holdTotal[x] = Total(ActiveAmount(x), NumHolds) /\ holdTotal[x] \in Nat
    BY DEF HoldsExact, TypeOK
  <2>5. holdTotal'[x] = IF x = a THEN holdTotal[x] + m ELSE holdTotal[x]
    BY <1>1 DEF TypeOK
  <2>6. CASE x = a
    BY <2>1, <2>2, <2>3, <2>4, <2>5, <2>6, <1>4
  <2>7. CASE x # a
    BY <2>1, <2>2, <2>3, <2>4, <2>5, <2>7
  <2> QED BY <2>6, <2>7
<1> QED BY <1>5 DEF HoldsExact

(* Every step keeps holdTotal the sum of the active holds.                 *)
LEMMA HoldsNext ==
  ASSUME TypeOK, HoldsExact, [Next]_vars
  PROVE  HoldsExact'
<1>0. TypeOK'
  BY TypeNext
<1>00. ledgerBalance' \in [Accounts -> Int]
  BY <1>0 DEF TypeOK
<1>1. ASSUME NEW h \in Holds, NEW a \in Accounts, NEW m \in Amounts, NEW r \in HoldReason,
             PlaceHold(h, a, m, r)
      PROVE  HoldsExact'
  BY <1>0, <1>1, HoldsPlaced
<1>2. ASSUME NEW h \in Holds, ReleaseHold(h) \/ ExpireHold(h) PROVE HoldsExact'
  <2>1. ResolveWithin(h, "RELEASED", 0, 0) \/ ResolveWithin(h, "EXPIRED", 0, 0)
    BY <1>2 DEF ReleaseHold, ExpireHold, GiveBack
  <2>2. "RELEASED" \in HoldStatus /\ "EXPIRED" \in HoldStatus /\ 0 \in Nat
    BY DEF HoldStatus
  <2> QED BY <1>0, <1>00, <2>1, <2>2, HoldsResolved
<1>3. ASSUME NEW h \in Holds, NEW m \in Amounts, CaptureHold(h, m) PROVE HoldsExact'
  <2>1. ResolveWithin(h, "CAPTURED", m, EntryId(Ref("CAPTURE", h))) /\ "CAPTURED" \in HoldStatus
    BY <1>3 DEF CaptureHold, HoldStatus
  <2>2. EntryId(Ref("CAPTURE", h)) \in Nat
    BY EntryIdType, LenProperties DEF TypeOK
  <2> QED BY <1>0, <1>00, <2>1, <2>2, HoldsResolved
<1>4. ASSUME UNCHANGED <<hold, holdTotal>> PROVE HoldsExact'
  BY <1>4 DEF HoldsExact, ActiveAmount
<1>5. ASSUME NEW n \in Requests, NEW e \in Recipes, Post(n, e) PROVE HoldsExact'
  BY <1>4, <1>5 DEF Post
<1>6. ASSUME NEW i \in DOMAIN journal, Reverse(i) PROVE HoldsExact'
  BY <1>4, <1>6 DEF Reverse
<1>7. ASSUME NEW a \in Accounts, NEW b \in Accounts, CloseSweeping(a, b) PROVE HoldsExact'
  BY <1>4, <1>7 DEF CloseSweeping
<1>8. ASSUME NEW a \in Accounts,
             Open(a) \/ Freeze(a) \/ Unfreeze(a) \/ SweepDormant(a) \/ CloseEmpty(a)
      PROVE  HoldsExact'
  BY <1>4, <1>8 DEF Open, Freeze, Unfreeze, SweepDormant, CloseEmpty, SetStatus
<1>9. ASSUME NEW a \in Accounts, NEW m \in Limits, RequestOverdraft(a, m) PROVE HoldsExact'
  BY <1>4, <1>9 DEF RequestOverdraft, SetFacility
<1>10. ASSUME NEW a \in Accounts, SuspendOverdraft(a) \/ CloseOverdraft(a) PROVE HoldsExact'
  BY <1>4, <1>10 DEF SuspendOverdraft, CloseOverdraft, SetFacility
<1>11. CASE UNCHANGED vars
  BY <1>4, <1>11 DEF vars
<1> QED BY <1>1, <1>2, <1>3, <1>5, <1>6, <1>7, <1>8, <1>9, <1>10, <1>11 DEF Next

(* holdTotal is exactly the sum of the account's active holds: the figure  *)
(* the closure guard and the spending gate trust in place of the           *)
(* collection.                                                             *)
THEOREM HoldTotalIsTheHolds == Spec => []HoldsExact
<1>1. Init => HoldsExact
  <2> SUFFICES ASSUME Init, NEW x \in Accounts
               PROVE  holdTotal[x] = Total(ActiveAmount(x), NumHolds)
    BY DEF HoldsExact
  <2>1. ActiveAmount(x) \in [1..NumHolds -> Int] /\ \A h \in 1..NumHolds : ActiveAmount(x)[h] = 0
    BY DEF Init, ActiveAmount
  <2>2. Total(ActiveAmount(x), NumHolds) = 0
    BY <2>1, TotalZero, BoundsAssumption
  <2> QED BY <2>2 DEF Init
<1>2. TypeOK /\ HoldsExact /\ [Next]_vars => HoldsExact'
  BY HoldsNext
<1> QED BY <1>1, <1>2, TypeCorrect, PTL DEF Spec

-----------------------------------------------------------------------------
(* Overdrafts.                                                             *)

(* Without an active facility an account has no overdraft limit.  This is  *)
(* what makes WithinFacility inductive: granting a new facility starts     *)
(* from a balance that is not negative.                                    *)
LimitNeedsFacility ==
  \A a \in Accounts : facility[a] # "ACTIVE" => overdraftLimit[a] = 0

(* The three operations that write a facility write the account's limit in *)
(* the same transaction.                                                   *)
LEMMA FacilityStep ==
  ASSUME TypeOK, NEW a \in Accounts, NEW to \in FacilityStatus, NEW limit \in Nat,
         SetFacility(a, to, limit)
  PROVE  /\ ledgerBalance' = ledgerBalance
         /\ facility'[a] = to /\ overdraftLimit'[a] = limit
         /\ \A x \in Accounts : x # a => /\ facility'[x] = facility[x]
                                         /\ overdraftLimit'[x] = overdraftLimit[x]
BY DEF SetFacility, TypeOK, bookVars

(* Every step either leaves limits and facilities alone or is one of those *)
(* three.                                                                  *)
LEMMA FacilityOrMoney ==
  ASSUME [Next]_vars
  PROVE  \/ UNCHANGED <<overdraftLimit, facility>>
         \/ \E a \in Accounts : \/ \E m \in Limits : RequestOverdraft(a, m)
                                \/ SuspendOverdraft(a) \/ CloseOverdraft(a)
<1>1. ASSUME NEW n \in Requests, NEW e \in Recipes, Post(n, e)
      PROVE  UNCHANGED <<overdraftLimit, facility>>
  BY <1>1 DEF Post
<1>2. ASSUME NEW i \in DOMAIN journal, Reverse(i) PROVE UNCHANGED <<overdraftLimit, facility>>
  BY <1>2 DEF Reverse
<1>3. ASSUME NEW h \in Holds, NEW a \in Accounts, NEW m \in Amounts, NEW r \in HoldReason,
             PlaceHold(h, a, m, r)
      PROVE  UNCHANGED <<overdraftLimit, facility>>
  BY <1>3 DEF PlaceHold
<1>4. ASSUME NEW h \in Holds, ReleaseHold(h) \/ ExpireHold(h)
      PROVE  UNCHANGED <<overdraftLimit, facility>>
  BY <1>4 DEF ReleaseHold, ExpireHold, GiveBack
<1>5. ASSUME NEW h \in Holds, NEW m \in Amounts, CaptureHold(h, m)
      PROVE  UNCHANGED <<overdraftLimit, facility>>
  BY <1>5 DEF CaptureHold
<1>6. ASSUME NEW a \in Accounts,
             Open(a) \/ Freeze(a) \/ Unfreeze(a) \/ SweepDormant(a) \/ CloseEmpty(a)
      PROVE  UNCHANGED <<overdraftLimit, facility>>
  BY <1>6 DEF Open, Freeze, Unfreeze, SweepDormant, CloseEmpty, SetStatus
<1>7. ASSUME NEW a \in Accounts, NEW b \in Accounts, CloseSweeping(a, b)
      PROVE  UNCHANGED <<overdraftLimit, facility>>
  BY <1>7 DEF CloseSweeping
<1>8. CASE UNCHANGED vars
  BY <1>8 DEF vars
<1> QED BY <1>1, <1>2, <1>3, <1>4, <1>5, <1>6, <1>7, <1>8 DEF Next

(* A facility operation keeps both invariants of its account: a grant      *)
(* starts from a zero limit, a suspension is the exception the property    *)
(* names, a closure is refused while the account is overdrawn.             *)
LEMMA FacilityKept ==
  ASSUME TypeOK, LimitNeedsFacility, WithinFacility, NEW a \in Accounts,
         (\E m \in Limits : RequestOverdraft(a, m)) \/ SuspendOverdraft(a) \/ CloseOverdraft(a)
  PROVE  LimitNeedsFacility' /\ WithinFacility'
<1>1. ASSUME NEW to \in FacilityStatus, NEW limit \in Nat, SetFacility(a, to, limit),
             to # "ACTIVE" => limit = 0,
             ledgerBalance[a] >= -limit \/ to = "SUSPENDED"
      PROVE  LimitNeedsFacility' /\ WithinFacility'
  BY <1>1, FacilityStep DEF LimitNeedsFacility, WithinFacility
<1>2. /\ "ACTIVE" \in FacilityStatus /\ "DECLINED" \in FacilityStatus
      /\ "SUSPENDED" \in FacilityStatus /\ "CLOSED" \in FacilityStatus /\ 0 \in Nat
  BY DEF FacilityStatus
<1>3. ledgerBalance[a] \in Int /\ overdraftLimit[a] \in Nat
  BY DEF TypeOK
<1>4. ASSUME NEW m \in Limits, RequestOverdraft(a, m)
      PROVE  LimitNeedsFacility' /\ WithinFacility'
  <2>1. m \in Nat
    BY BoundsAssumption DEF Limits
  <2>2. facility[a] # "ACTIVE" /\ facility[a] # "SUSPENDED"
    BY <1>4 DEF RequestOverdraft
  <2>3. overdraftLimit[a] = 0 /\ ledgerBalance[a] >= 0
    BY <1>3, <2>2 DEF LimitNeedsFacility, WithinFacility
  <2>4. SetFacility(a, "ACTIVE", m) \/ SetFacility(a, "DECLINED", 0)
    BY <1>4, <2>3 DEF RequestOverdraft
  <2>5. ledgerBalance[a] >= -m /\ ledgerBalance[a] >= -0
    BY <1>3, <2>1, <2>3
  <2>6. CASE SetFacility(a, "ACTIVE", m)
    BY <1>1, <1>2, <2>1, <2>5, <2>6
  <2>7. CASE SetFacility(a, "DECLINED", 0)
    BY <1>1, <1>2, <2>5, <2>7
  <2> QED BY <2>4, <2>6, <2>7
<1>5. CASE SuspendOverdraft(a)
  BY <1>1, <1>2, <1>5 DEF SuspendOverdraft
<1>6. CASE CloseOverdraft(a)
  BY <1>1, <1>2, <1>3, <1>6 DEF CloseOverdraft
<1> QED BY <1>4, <1>5, <1>6

(* A movement keeps both: what it takes below zero, assertWithinFloor has  *)
(* compared with the limit.                                                *)
LEMMA MoneyKeepsFacility ==
  ASSUME TypeOK, LimitNeedsFacility, WithinFacility, UNCHANGED <<overdraftLimit, facility>>,
         NEW e \in Effects, ledgerBalance' = Moved(ledgerBalance, e),
         e = NoEffect \/ WithinFloor(e)
  PROVE  LimitNeedsFacility' /\ WithinFacility'
<1>1. LimitNeedsFacility'
  BY DEF LimitNeedsFacility
<1>2. ASSUME NEW a \in Accounts
      PROVE  ledgerBalance'[a] >= -overdraftLimit'[a] \/ facility'[a] = "SUSPENDED"
  <2>1. e[a] \in Int /\ ledgerBalance[a] \in Int /\ overdraftLimit[a] \in Nat
    BY DEF TypeOK
  <2>2. ledgerBalance'[a] = ledgerBalance[a] + e[a]
    BY DEF Moved
  <2>3. e[a] < 0 => ledgerBalance[a] + e[a] >= -overdraftLimit[a]
    BY <2>1 DEF WithinFloor, NoEffect
  <2> QED BY <2>1, <2>2, <2>3 DEF WithinFacility
<1> QED BY <1>1, <1>2 DEF WithinFacility

(* The two hold together.                                                  *)
LEMMA FacilityInvariant == Spec => [](LimitNeedsFacility /\ WithinFacility)
<1>1. Init => LimitNeedsFacility /\ WithinFacility
  BY DEF Init, LimitNeedsFacility, WithinFacility
<1>2. TypeOK /\ LimitNeedsFacility /\ WithinFacility /\ [Next]_vars
        => LimitNeedsFacility' /\ WithinFacility'
  <2> SUFFICES ASSUME TypeOK, LimitNeedsFacility, WithinFacility, [Next]_vars
               PROVE  LimitNeedsFacility' /\ WithinFacility'
    OBVIOUS
  <2>1. PICK e \in Effects : MovesMoney(e)
    BY MoneyStep
  <2>2. ledgerBalance' = Moved(ledgerBalance, e) /\ (e = NoEffect \/ WithinFloor(e))
    BY <2>1 DEF MovesMoney, Postable
  <2>3. CASE UNCHANGED <<overdraftLimit, facility>>
    BY <2>2, <2>3, MoneyKeepsFacility
  <2>4. CASE \E a \in Accounts : \/ \E m \in Limits : RequestOverdraft(a, m)
                                 \/ SuspendOverdraft(a) \/ CloseOverdraft(a)
    BY <2>4, FacilityKept
  <2> QED BY <2>3, <2>4, FacilityOrMoney
<1> QED BY <1>1, <1>2, TypeCorrect, PTL DEF Spec

(* No posting, capture, sweep or reversal ever takes an account below its  *)
(* overdraft limit: only withdrawing the facility leaves it there.         *)
THEOREM NeverBeyondFacility == Spec => []WithinFacility
BY FacilityInvariant, PTL

-----------------------------------------------------------------------------
(* Closed accounts.                                                        *)

(* The status change that rides along with a posting never starts from     *)
(* CLOSED.                                                                 *)
LEMMA TransitionKeepsClosed ==
  ASSUME TypeOK, NEW moves, NEW a \in Accounts, status[a] = "CLOSED"
  PROVE  transitionFor(moves)[a] = "CLOSED"
BY DEF transitionFor

(* No operation reopens a closed account.                                  *)
LEMMA ClosedStays ==
  ASSUME TypeOK, [Next]_vars, NEW a \in Accounts, status[a] = "CLOSED"
  PROVE  status'[a] = "CLOSED"
<1>1. ASSUME NEW n \in Requests, NEW e \in Recipes, Post(n, e) PROVE status'[a] = "CLOSED"
  BY <1>1, TransitionKeepsClosed DEF Post
<1>2. ASSUME NEW i \in DOMAIN journal, Reverse(i) PROVE status'[a] = "CLOSED"
  BY <1>2, TransitionKeepsClosed DEF Reverse
<1>3. ASSUME NEW h \in Holds, NEW m \in Amounts, CaptureHold(h, m) PROVE status'[a] = "CLOSED"
  BY <1>3, TransitionKeepsClosed DEF CaptureHold
<1>4. ASSUME NEW b \in Accounts, NEW c \in Accounts, CloseSweeping(b, c)
      PROVE  status'[a] = "CLOSED"
  <2> DEFINE swept == transitionFor(Moves(Ref("CLOSE", b),
                                          InternalTransfer(b, c, ledgerBalance[b])))
  <2>1. status' = [swept EXCEPT ![b] = "CLOSED"] /\ swept[a] = "CLOSED"
    BY <1>4, TransitionKeepsClosed DEF CloseSweeping
  <2>2. ledgerBalance[b] \in Int
    BY DEF TypeOK
  <2>3. swept \in [Accounts -> AccountStatus]
    BY <2>2, TransferType, MovesType, TransitionType
  <2> HIDE DEF swept
  <2> QED BY <2>1, <2>3
<1>5. ASSUME NEW b \in Accounts, NEW from, NEW to, SetStatus(b, from, to), "CLOSED" \notin from
      PROVE  status'[a] = "CLOSED"
  BY <1>5 DEF SetStatus, TypeOK
<1>6. ASSUME NEW b \in Accounts, Freeze(b) \/ Unfreeze(b) \/ SweepDormant(b)
      PROVE  status'[a] = "CLOSED"
  BY <1>5, <1>6 DEF Freeze, Unfreeze, SweepDormant, FREEZABLE
<1>7. ASSUME NEW b \in Accounts, Open(b) PROVE status'[a] = "CLOSED"
  BY <1>7 DEF Open, TypeOK
<1>8. ASSUME NEW b \in Accounts, CloseEmpty(b) PROVE status'[a] = "CLOSED"
  BY <1>8 DEF CloseEmpty, TypeOK
<1>9. ASSUME UNCHANGED status PROVE status'[a] = "CLOSED"
  BY <1>9
<1>10. ASSUME NEW h \in Holds, NEW b \in Accounts, NEW m \in Amounts, NEW r \in HoldReason,
              PlaceHold(h, b, m, r)
       PROVE  status'[a] = "CLOSED"
  BY <1>9, <1>10 DEF PlaceHold
<1>11. ASSUME NEW h \in Holds, ReleaseHold(h) \/ ExpireHold(h) PROVE status'[a] = "CLOSED"
  BY <1>9, <1>11 DEF ReleaseHold, ExpireHold, GiveBack
<1>12. ASSUME NEW b \in Accounts, NEW m \in Limits, RequestOverdraft(b, m)
       PROVE  status'[a] = "CLOSED"
  BY <1>9, <1>12 DEF RequestOverdraft, SetFacility
<1>13. ASSUME NEW b \in Accounts, SuspendOverdraft(b) \/ CloseOverdraft(b)
       PROVE  status'[a] = "CLOSED"
  BY <1>9, <1>13 DEF SuspendOverdraft, CloseOverdraft, SetFacility
<1>14. CASE UNCHANGED vars
  BY <1>9, <1>14 DEF vars
<1> QED BY <1>1, <1>2, <1>3, <1>4, <1>6, <1>7, <1>8, <1>10, <1>11, <1>12, <1>13, <1>14 DEF Next
=============================================================================
