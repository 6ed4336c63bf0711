----------------------------- MODULE JournalProofs -----------------------------
(***************************************************************************)
(* Theorems about AccountBook that rest on the history of its journal: no  *)
(* reference twice, balances explained by the entries, reversals and       *)
(* captures exactly once, closed accounts empty; and, from all of these,   *)
(* that AccountBook implements BookPromise.                                *)
(*                                                                         *)
(* The recurring argument is JournalStep: a step either keeps the entries  *)
(* and the balances, or adds one entry under a reference that was not      *)
(* booked and moves the balances by that entry's effects.                  *)
(***************************************************************************)
EXTENDS AccountBookProofs

USE DEF Accounts, Holds, Requests, Amounts, Effects

(* The entries keep their references and effects, and nothing moves.       *)
Keeps ==
  /\ journal' \in Seq(Entry) /\ Len(journal') = Len(journal)
  /\ \A j \in 1..Len(journal) : /\ journal'[j].reference = journal[j].reference
                                /\ journal'[j].effects = journal[j].effects
  /\ ledgerBalance' = ledgerBalance

(* So they do, and one entry is added, whose effects are what moves.       *)
Adds(ref, e) ==
  /\ ~Booked(ref)
  /\ journal' \in Seq(Entry) /\ Len(journal') = Len(journal) + 1
  /\ \A j \in 1..Len(journal) : /\ journal'[j].reference = journal[j].reference
                                /\ journal'[j].effects = journal[j].effects
  /\ journal'[Len(journal) + 1] = NewEntry(ref, e)
  /\ ledgerBalance' = Moved(ledgerBalance, e)

(* The marks of the old entries stay as well.                              *)
MarksKept == \A j \in 1..Len(journal) : journal'[j] = journal[j]

(* The positions of the journal.                                           *)
LEMMA Positions ==
  ASSUME NEW s \in Seq(Entry)
  PROVE  DOMAIN s = 1..Len(s) /\ Len(s) \in Nat
BY LenProperties

(* Moving the empty effect moves nothing.                                  *)
LEMMA NoEffectMoves ==
  ASSUME TypeOK
  PROVE  Moved(ledgerBalance, NoEffect) = ledgerBalance
BY DEF Moved, NoEffect, TypeOK

(* postWithin keeps the journal on a replay, and else adds its entry.      *)
LEMMA PostWithinJournal ==
  ASSUME TypeOK, NEW ref \in References, NEW e \in Effects, PostWithin(ref, e)
  PROVE  /\ MarksKept
         /\ Booked(ref) => Keeps
         /\ ~Booked(ref) => Adds(ref, e)
<1>1. journal \in Seq(Entry) /\ DOMAIN journal = 1..Len(journal)
  BY Positions DEF TypeOK
<1>2. CASE Booked(ref)
  <2>1. journal' = journal /\ ledgerBalance' = ledgerBalance
    BY <1>2, NoEffectMoves DEF PostWithin, Moves
  <2> QED BY <1>1, <1>2, <2>1 DEF Keeps, MarksKept
<1>3. CASE ~Booked(ref)
  <2>1. journal' = Append(journal, NewEntry(ref, e)) /\ ledgerBalance' = Moved(ledgerBalance, e)
    BY <1>3 DEF PostWithin, Moves
  <2>2. NewEntry(ref, e) \in Entry
    BY NewEntryType
  <2>3. /\ journal' \in Seq(Entry) /\ Len(journal') = Len(journal) + 1
        /\ \A j \in 1..Len(journal) : journal'[j] = journal[j]
        /\ journal'[Len(journal) + 1] = NewEntry(ref, e)
    BY <1>1, <2>1, <2>2, AppendedType
  <2> QED BY <1>3, <2>1, <2>3 DEF Adds, MarksKept
<1> QED BY <1>2, <1>3

(* A reversal marks its original; it adds the mirror entry unless that is  *)
(* booked already.                                                         *)
LEMMA ReverseAdds ==
  ASSUME TypeOK, NEW i \in DOMAIN journal, Reverse(i)
  PROVE  LET ref == reversalReference(journal[i].reference)
             mirror == buildReversal(journal[i].effects)
         IN /\ ref \in References /\ mirror \in Effects
            /\ \A j \in 1..Len(journal) : j # i => journal'[j] = journal[j]
            /\ Booked(ref) => Keeps
            /\ ~Booked(ref) => /\ Adds(ref, mirror)
                               /\ journal'[i].reversedBy = Len(journal) + 1
<1> DEFINE ref == reversalReference(journal[i].reference)
           mirror == buildReversal(journal[i].effects)
           marked == Marked(i, EntryId(ref))
<1>1. journal \in Seq(Entry) /\ Len(journal) \in Nat /\ DOMAIN journal = 1..Len(journal)
  BY Positions DEF TypeOK
<1>2. ref \in References /\ mirror \in Effects
  BY ReverseJournal
<1>3. journal[i] \in Entry /\ EntryId(ref) \in Nat
      /\ (~Booked(ref) => EntryId(ref) = Len(journal) + 1)
  BY <1>1, JournalEntry, EntryIdType
<1> HIDE DEF ref, mirror
<1>4. /\ marked \in Seq(Entry) /\ Len(marked) = Len(journal)
      /\ marked[i] = [journal[i] EXCEPT !.reversedBy = EntryId(ref)]
      /\ \A j \in DOMAIN journal : j # i => marked[j] = journal[j]
      /\ DOMAIN marked = 1..Len(journal)
  BY <1>1, <1>3, MarkedType, Positions
<1>5. /\ marked[i].reversedBy = EntryId(ref)
      /\ \A j \in 1..Len(journal) : /\ marked[j].reference = journal[j].reference
                                    /\ marked[j].effects = journal[j].effects
  BY <1>1, <1>3, <1>4 DEF Entry
<1> HIDE DEF marked
<1>6. CASE Booked(ref)
  <2>1. journal' = marked /\ ledgerBalance' = ledgerBalance
    BY <1>6, NoEffectMoves DEF Reverse, ref, mirror, marked, Moves
  <2> QED BY <1>1, <1>2, <1>4, <1>5, <1>6, <2>1 DEF Keeps, ref, mirror
<1>7. CASE ~Booked(ref)
  <2>1. journal' = Append(marked, NewEntry(ref, mirror))
        /\ ledgerBalance' = Moved(ledgerBalance, mirror)
    BY <1>7 DEF Reverse, ref, mirror, marked, Moves
  <2>2. NewEntry(ref, mirror) \in Entry
    BY <1>2, NewEntryType
  <2>3. /\ journal' \in Seq(Entry) /\ Len(journal') = Len(journal) + 1
        /\ \A j \in 1..Len(journal) : journal'[j] = marked[j]
        /\ journal'[Len(journal) + 1] = NewEntry(ref, mirror)
    BY <1>1, <1>4, <2>1, <2>2, AppendedType
  <2>4. Adds(ref, mirror)
    BY <1>5, <1>7, <2>1, <2>3 DEF Adds
  <2> QED BY <1>1, <1>2, <1>3, <1>4, <1>5, <1>7, <2>3, <2>4 DEF ref, mirror
<1> QED BY <1>6, <1>7 DEF ref, mirror

(* A step that books nothing keeps the journal.                            *)
LEMMA NothingBooked ==
  ASSUME TypeOK, UNCHANGED <<journal, ledgerBalance>>
  PROVE  Keeps /\ MarksKept
BY DEF Keeps, MarksKept, TypeOK

(* The ways a step can add an entry: a posting, a capture, a closing sweep *)
(* or a reversal.                                                          *)
Fresh(ref, e) == Adds(ref, e) /\ MarksKept
Posted   == \E n \in Requests, e \in Effects : Fresh(Ref("POST", n), e) /\ UNCHANGED hold
Captured == \E h \in Holds, m \in Amounts :
              /\ CaptureHold(h, m)
              /\ Fresh(Ref("CAPTURE", h), Only(hold[h].accountId, -m))
Swept    == \E a \in Accounts, e \in Effects :
              Fresh(Ref("CLOSE", a), e) /\ UNCHANGED hold /\ status'[a] = "CLOSED"
Reversed == \E i \in DOMAIN journal :
              /\ Reverse(i)
              /\ ~Booked(reversalReference(journal[i].reference))

(* Every step keeps the journal, adds an entry, or finds a reversal booked *)
(* that its original does not name.                                        *)
LEMMA JournalStep ==
  ASSUME TypeOK, [Next]_vars
  PROVE  \/ Keeps /\ MarksKept
         \/ Posted \/ Captured \/ Swept \/ Reversed
         \/ \E i \in DOMAIN journal :
              Reverse(i) /\ Booked(reversalReference(journal[i].reference))
<1>1. ASSUME NEW n \in Requests, NEW e \in Recipes, Post(n, e)
      PROVE  (Keeps /\ MarksKept) \/ Posted
  <2>1. Ref("POST", n) \in References /\ e \in Effects
    BY RefType, RecipesType
  <2>2. PostWithin(Ref("POST", n), e) /\ UNCHANGED hold
    BY <1>1 DEF Post
  <2> QED BY <2>1, <2>2, PostWithinJournal DEF Posted, Fresh
<1>2. ASSUME NEW i \in DOMAIN journal, Reverse(i)
      PROVE  Reversed \/ Booked(reversalReference(journal[i].reference))
  BY <1>2 DEF Reversed
<1>3. ASSUME NEW h \in Holds, NEW m \in Amounts, CaptureHold(h, m)
      PROVE  (Keeps /\ MarksKept) \/ Captured
  <2>1. Only(hold[h].accountId, -m) \in Effects /\ Ref("CAPTURE", h) \in References
    BY HoldRecord, AmountType, OnlyType, RefType
  <2>2. PostWithin(Ref("CAPTURE", h), Only(hold[h].accountId, -m))
    BY <1>3 DEF CaptureHold
  <2> QED BY <1>3, <2>1, <2>2, PostWithinJournal DEF Captured, Fresh
<1>4. ASSUME NEW a \in Accounts, NEW b \in Accounts, CloseSweeping(a, b)
      PROVE  (Keeps /\ MarksKept) \/ Swept
  <2> DEFINE swept == InternalTransfer(a, b, ledgerBalance[a])
  <2>1. swept \in Effects /\ Ref("CLOSE", a) \in References
    BY TransferType, RefType DEF TypeOK
  <2>2. PostWithin(Ref("CLOSE", a), swept) /\ UNCHANGED hold
    BY <1>4 DEF CloseSweeping
  <2>3. status'[a] = "CLOSED"
    <3>1. transitionFor(Moves(Ref("CLOSE", a), swept)) \in [Accounts -> AccountStatus]
      BY <2>1, MovesType, TransitionType
    <3> QED BY <1>4, <3>1 DEF CloseSweeping
  <2> HIDE DEF swept
  <2> QED BY <2>1, <2>2, <2>3, PostWithinJournal DEF Swept, Fresh
<1>5. ASSUME UNCHANGED <<journal, ledgerBalance>> PROVE Keeps /\ MarksKept
  BY <1>5, NothingBooked
<1>6. ASSUME NEW h \in Holds, NEW a \in Accounts, NEW m \in Amounts, NEW r \in HoldReason,
             PlaceHold(h, a, m, r)
      PROVE  Keeps /\ MarksKept
  BY <1>5, <1>6 DEF PlaceHold, bookVars
<1>7. ASSUME NEW h \in Holds, ReleaseHold(h) \/ ExpireHold(h) PROVE Keeps /\ MarksKept
  BY <1>5, <1>7 DEF ReleaseHold, ExpireHold, GiveBack, bookVars
<1>8. ASSUME NEW a \in Accounts,
             Open(a) \/ Freeze(a) \/ Unfreeze(a) \/ SweepDormant(a) \/ CloseEmpty(a)
      PROVE  Keeps /\ MarksKept
  BY <1>5, <1>8 DEF Open, Freeze, Unfreeze, SweepDormant, CloseEmpty, SetStatus, bookVars
<1>9. ASSUME NEW a \in Accounts, NEW m \in Limits, RequestOverdraft(a, m)
      PROVE  Keeps /\ MarksKept
  BY <1>5, <1>9 DEF RequestOverdraft, SetFacility, bookVars
<1>10. ASSUME NEW a \in Accounts, SuspendOverdraft(a) \/ CloseOverdraft(a)
       PROVE  Keeps /\ MarksKept
  BY <1>5, <1>10 DEF SuspendOverdraft, CloseOverdraft, SetFacility, bookVars
<1>11. CASE UNCHANGED vars
  BY <1>5, <1>11 DEF vars
<1> QED BY <1>1, <1>2, <1>3, <1>4, <1>6, <1>7, <1>8, <1>9, <1>10, <1>11 DEF Next

(* So the entries of the journal are kept, and at most one is added.       *)
LEMMA KeepsOrAdds ==
  ASSUME TypeOK, [Next]_vars
  PROVE  Keeps \/ \E ref \in References, e \in Effects : Adds(ref, e)
<1>1. ASSUME Posted \/ Swept PROVE \E ref \in References, e \in Effects : Adds(ref, e)
  BY <1>1, RefType DEF Posted, Swept, Fresh
<1>2. ASSUME Captured PROVE \E ref \in References, e \in Effects : Adds(ref, e)
  <2>1. PICK h \in Holds, m \in Amounts : Adds(Ref("CAPTURE", h), Only(hold[h].accountId, -m))
    BY <1>2 DEF Captured, Fresh
  <2>2. Only(hold[h].accountId, -m) \in Effects /\ Ref("CAPTURE", h) \in References
    BY HoldRecord, AmountType, OnlyType, RefType
  <2> QED BY <2>1, <2>2
<1>3. ASSUME NEW i \in DOMAIN journal, Reverse(i)
      PROVE  Keeps \/ \E ref \in References, e \in Effects : Adds(ref, e)
  BY <1>3, ReverseAdds
<1> QED BY <1>1, <1>2, <1>3, JournalStep DEF Reversed

-----------------------------------------------------------------------------
(* The journal and the balances.                                           *)

(* Adding an entry under a reference that is not booked keeps references   *)
(* apart.                                                                  *)
LEMMA BookedOnceStep ==
  ASSUME TypeOK, BookedOnce,
         Keeps \/ \E ref \in References, e \in Effects : Adds(ref, e)
  PROVE  BookedOnce'
<1>1. DOMAIN journal = 1..Len(journal) /\ Len(journal) \in Nat
  BY Positions DEF TypeOK
<1>2. CASE Keeps
  <2>1. DOMAIN journal' = 1..Len(journal)
    BY <1>2, Positions DEF Keeps
  <2> QED BY <1>1, <1>2, <2>1 DEF BookedOnce, Keeps
<1>3. ASSUME NEW ref \in References, NEW e \in Effects, Adds(ref, e) PROVE BookedOnce'
  <2>1. DOMAIN journal' = 1..(Len(journal) + 1)
    BY <1>3, Positions DEF Adds
  <2>2. journal'[Len(journal) + 1].reference = ref
    BY <1>3 DEF Adds, NewEntry
  <2>3. \A j \in 1..Len(journal) : /\ journal'[j].reference = journal[j].reference
                                   /\ journal'[j].reference # ref
    BY <1>1, <1>3 DEF Adds, Booked
  <2> QED BY <1>1, <2>1, <2>2, <2>3 DEF BookedOnce
<1> QED BY <1>2, <1>3

(* A reference books at most one entry, however often it is posted,        *)
(* captured, swept or reversed again.                                      *)
THEOREM NeverBookedTwice == Spec => []BookedOnce
<1>1. Init => BookedOnce
  <2>1. Init => DOMAIN journal = {}
    BY Positions, EmptySeq DEF Init
  <2> QED BY <2>1 DEF BookedOnce
<1>2. TypeOK /\ BookedOnce /\ [Next]_vars => BookedOnce'
  BY KeepsOrAdds, BookedOnceStep
<1> QED BY <1>1, <1>2, TypeCorrect, PTL DEF Spec

(* The effects on an account, entry by entry.                              *)
LEMMA EffectsOnType ==
  ASSUME TypeOK, NEW a \in Accounts
  PROVE  EffectsOn(a) \in [1..Len(journal) -> Int]
<1>1. DOMAIN journal = 1..Len(journal)
  BY Positions DEF TypeOK
<1>2. \A i \in 1..Len(journal) : journal[i].effects \in Effects
  BY <1>1, JournalEntry
<1>3. \A i \in 1..Len(journal) : journal[i].effects[a] \in Int
  BY <1>2
<1> QED BY <1>3 DEF EffectsOn

(* An entry adds to the replayed balance what it added to the balance.     *)
LEMMA ExplainsStep ==
  ASSUME TypeOK, JournalExplains,
         Keeps \/ \E ref \in References, e \in Effects : Adds(ref, e)
  PROVE  JournalExplains'
<1>1. Len(journal) \in Nat
  BY Positions DEF TypeOK
<1>2. CASE Keeps
  <2>1. \A a \in Accounts : EffectsOn(a)' = EffectsOn(a)
    BY <1>2 DEF Keeps, EffectsOn
  <2> QED BY <1>2, <2>1 DEF JournalExplains, Keeps
<1>3. ASSUME NEW ref \in References, NEW e \in Effects, Adds(ref, e), NEW a \in Accounts
      PROVE  ledgerBalance'[a] = Total(EffectsOn(a)', Len(journal'))
  <2>1. Len(journal') = Len(journal) + 1
    BY <1>3 DEF Adds
  <2>0. e[a] \in Int
    OBVIOUS
  <2> DEFINE f == EffectsOn(a)
             g == EffectsOn(a)'
  <2>2. f \in [1..Len(journal) -> Int]
    BY EffectsOnType
  <2>3. g[Len(journal) + 1] = e[a] /\ \A j \in 1..Len(journal) : g[j] = f[j]
    <3>1. g = [j \in 1..(Len(journal) + 1) |-> journal'[j].effects[a]]
      BY <2>1 DEF EffectsOn
    <3>2. f = [j \in 1..Len(journal) |-> journal[j].effects[a]]
      BY DEF EffectsOn
    <3>3. /\ journal'[Len(journal) + 1].effects = e
          /\ \A j \in 1..Len(journal) : journal'[j].effects = journal[j].effects
      BY <1>3 DEF Adds, NewEntry
    <3> HIDE DEF f, g
    <3>4. Len(journal) + 1 \in 1..(Len(journal) + 1)
          /\ \A j \in 1..Len(journal) : j \in 1..(Len(journal) + 1)
      BY <1>1
    <3>5. g[Len(journal) + 1] = journal'[Len(journal) + 1].effects[a]
      BY <3>1, <3>4
    <3>6. \A j \in 1..Len(journal) : g[j] = journal'[j].effects[a] /\ f[j] = journal[j].effects[a]
      BY <3>1, <3>2, <3>4
    <3> QED BY <3>3, <3>5, <3>6
  <2>4. g \in [1..(Len(journal) + 1) -> Int]
    <3>0. g = [j \in 1..(Len(journal) + 1) |-> journal'[j].effects[a]]
      BY <2>1 DEF EffectsOn
    <3> HIDE DEF f, g
    <3>1. g = [j \in 1..(Len(journal) + 1) |-> g[j]]
      BY <3>0
    <3>2. \A j \in 1..(Len(journal) + 1) : j \in 1..Len(journal) \/ j = Len(journal) + 1
      BY <1>1
    <3>3. \A j \in 1..(Len(journal) + 1) : g[j] \in Int
      BY <2>0, <2>2, <2>3, <3>2
    <3> QED BY <3>1, <3>3
  <2> HIDE DEF f, g
  <2>5. Total(g, Len(journal) + 1) = Total(f, Len(journal)) + e[a]
    BY <1>1, <2>2, <2>3, <2>4, TotalExtend
  <2>6. ledgerBalance'[a] = ledgerBalance[a] + e[a]
    BY <1>3 DEF Adds, Moved
  <2> QED BY <2>0, <2>1, <2>5, <2>6 DEF JournalExplains, f, g
<1> QED BY <1>2, <1>3 DEF JournalExplains

(* Every balance is what replaying the journal gives.                      *)
THEOREM JournalExplainsBalances == Spec => []JournalExplains
<1>1. Init => JournalExplains
  <2> SUFFICES ASSUME Init, NEW a \in Accounts
               PROVE  ledgerBalance[a] = Total(EffectsOn(a), Len(journal))
    BY DEF JournalExplains
  <2>1. Len(journal) = 0 /\ ledgerBalance[a] = 0
    BY EmptySeq DEF Init
  <2>2. EffectsOn(a) \in [1..0 -> Int] /\ \A i \in 1..0 : EffectsOn(a)[i] = 0
    BY <2>1 DEF EffectsOn
  <2> QED BY <2>1, <2>2, TotalZero
<1>2. TypeOK /\ JournalExplains /\ [Next]_vars => JournalExplains'
  BY KeepsOrAdds, ExplainsStep
<1> QED BY <1>1, <1>2, TypeCorrect, PTL DEF Spec

-----------------------------------------------------------------------------
(* Reversals.                                                              *)

(* Every reversal in the journal has its original there.  This is what     *)
(* keeps a new entry from finding a reversal of itself already booked.     *)
OriginalsBooked ==
  \A j \in DOMAIN journal :
    journal[j].reference.reversals > 0 =>
      \E i \in DOMAIN journal : reversalReference(journal[i].reference) = journal[j].reference

(* A reversal reference is not the reference it reverses, is no base       *)
(* reference, and names one original.                                      *)
LEMMA ReversalReferences ==
  ASSUME NEW r \in References, NEW q \in References
  PROVE  /\ reversalReference(r).reversals = r.reversals + 1 /\ r.reversals \in Nat
         /\ reversalReference(r) # r
         /\ reversalReference(r) = reversalReference(q) => r = q
BY BoundsAssumption DEF References, reversalReference

(* Booked, in the journal after the step.                                  *)
BookedThere(x) == \E j \in DOMAIN journal' : journal'[j].reference = x

(* What is booked once an entry was added.                                 *)
LEMMA BookedThen ==
  ASSUME TypeOK, NEW ref \in References, NEW e \in Effects, Adds(ref, e)
  PROVE  /\ DOMAIN journal' = 1..(Len(journal) + 1) /\ DOMAIN journal = 1..Len(journal)
         /\ Len(journal) \in Nat
         /\ journal'[Len(journal) + 1].reference = ref
         /\ \A x : BookedThere(x) <=> (Booked(x) \/ x = ref)
<1>1. DOMAIN journal = 1..Len(journal) /\ Len(journal) \in Nat
  BY Positions DEF TypeOK
<1>2. DOMAIN journal' = 1..(Len(journal) + 1)
  BY Positions DEF Adds
<1>3. journal'[Len(journal) + 1].reference = ref
  BY DEF Adds, NewEntry
<1>4. \A j \in 1..Len(journal) : journal'[j].reference = journal[j].reference
  BY DEF Adds
<1> QED BY <1>1, <1>2, <1>3, <1>4 DEF Booked, BookedThere

(* A step that keeps the entries keeps what is booked.                     *)
LEMMA BookedStill ==
  ASSUME TypeOK, Keeps
  PROVE  DOMAIN journal' = DOMAIN journal /\ DOMAIN journal = 1..Len(journal)
         /\ \A x : BookedThere(x) <=> Booked(x)
<1>1. DOMAIN journal = 1..Len(journal) /\ DOMAIN journal' = 1..Len(journal)
  BY Positions DEF TypeOK, Keeps
<1>2. \A j \in 1..Len(journal) : journal'[j].reference = journal[j].reference
  BY DEF Keeps
<1> QED BY <1>1, <1>2 DEF Booked, BookedThere

(* With OriginalsBooked, nothing that reverses an unbooked entry is        *)
(* booked.                                                                 *)
LEMMA NoReversalAhead ==
  ASSUME TypeOK, OriginalsBooked, NEW ref \in References, ~Booked(ref)
  PROVE  ~Booked(reversalReference(ref))
<1> SUFFICES ASSUME NEW j \in DOMAIN journal, journal[j].reference = reversalReference(ref)
             PROVE  FALSE
  BY DEF Booked
<1>1. journal[j].reference.reversals > 0
  BY ReversalReferences
<1>2. PICK i \in DOMAIN journal : reversalReference(journal[i].reference) = reversalReference(ref)
  BY <1>1 DEF OriginalsBooked
<1>3. journal[i].reference = ref
  BY <1>2, JournalEntry, ReversalReferences
<1> QED BY <1>3 DEF Booked

(* A new entry that is no reversal disturbs no reversal.                   *)
LEMMA ReversalsFresh ==
  ASSUME TypeOK, ReversalExact, OriginalsBooked, NEW ref \in References, NEW e \in Effects,
         Fresh(ref, e), ref.reversals = 0
  PROVE  ReversalExact' /\ OriginalsBooked'
<1> DEFINE n == Len(journal) + 1
<1>1. /\ Adds(ref, e) /\ ~Booked(ref)
      /\ \A j \in 1..Len(journal) : journal'[j] = journal[j]
      /\ journal'[n] = NewEntry(ref, e)
  BY DEF Fresh, Adds, MarksKept
<1>2. /\ DOMAIN journal' = 1..n /\ DOMAIN journal = 1..Len(journal) /\ Len(journal) \in Nat
      /\ \A x : BookedThere(x) <=> (Booked(x) \/ x = ref)
      /\ \A j \in 1..n : j \in 1..Len(journal) \/ j = n
  BY <1>1, BookedThen
<1>3. journal'[n].reference = ref /\ journal'[n].reversedBy = 0
  BY <1>1 DEF NewEntry
<1> HIDE DEF n
<1>4. \A j \in 1..Len(journal) : journal[j].reference \in References
  BY <1>2, JournalEntry
<1>5. \A q \in References : reversalReference(q) # ref
  BY ReversalReferences
<1>6. ~BookedThere(reversalReference(ref))
  BY <1>1, <1>2, NoReversalAhead, ReversalReferences
<1>7. ASSUME NEW j \in DOMAIN journal'
      PROVE  /\ journal'[j].reversedBy # 0 <=> BookedThere(reversalReference(journal'[j].reference))
             /\ journal'[j].reversedBy # 0 =>
                  /\ journal'[j].reversedBy \in DOMAIN journal'
                  /\ journal'[journal'[j].reversedBy].reference
                       = reversalReference(journal'[j].reference)
                  /\ \A a \in Accounts : journal'[journal'[j].reversedBy].effects[a]
                                            = -journal'[j].effects[a]
  <2>1. CASE j = n
    BY <1>3, <1>6, <2>1
  <2>2. CASE j \in 1..Len(journal)
    <3>1. journal'[j] = journal[j] /\ reversalReference(journal[j].reference) # ref
      BY <1>1, <1>4, <1>5, <2>2
    <3>2. journal[j].reversedBy # 0 => journal[j].reversedBy \in 1..Len(journal)
      BY <1>2, <2>2 DEF ReversalExact
    <3> QED BY <1>1, <1>2, <2>2, <3>1, <3>2 DEF ReversalExact, n
  <2> QED BY <1>2, <2>1, <2>2
<1>8. OriginalsBooked'
  <2> SUFFICES ASSUME NEW j \in 1..n, journal'[j].reference.reversals > 0
               PROVE  \E i \in 1..n : reversalReference(journal'[i].reference)
                                         = journal'[j].reference
    BY <1>2 DEF OriginalsBooked
  <2>1. j \in 1..Len(journal)
    BY <1>2, <1>3
  <2>2. PICK i \in 1..Len(journal) : reversalReference(journal[i].reference) = journal[j].reference
    BY <1>1, <1>2, <2>1 DEF OriginalsBooked
  <2>3. i \in 1..n
    BY <1>2, <2>2 DEF n
  <2> QED BY <1>1, <2>1, <2>2, <2>3
<1> QED BY <1>7, <1>8 DEF ReversalExact, Booked, BookedThere

(* A reversal booked now is named by its original and mirrors it.          *)
LEMMA ReversalsReversed ==
  ASSUME TypeOK, BookedOnce, ReversalExact, OriginalsBooked, NEW i \in DOMAIN journal, Reverse(i),
         ~Booked(reversalReference(journal[i].reference))
  PROVE  ReversalExact' /\ OriginalsBooked'
<1> DEFINE n == Len(journal) + 1
           ref == reversalReference(journal[i].reference)
           mirror == buildReversal(journal[i].effects)
<1>1. /\ ref \in References /\ mirror \in Effects /\ Adds(ref, mirror)
      /\ \A j \in 1..Len(journal) : j # i => journal'[j] = journal[j]
      /\ journal'[i].reversedBy = n
  BY ReverseAdds
<1>2. \A a \in Accounts : mirror[a] = -journal[i].effects[a]
  BY DEF buildReversal
<1>3. journal[i].reference \in References
  BY JournalEntry
<1> HIDE DEF ref, mirror
<1>4. /\ DOMAIN journal' = 1..n /\ DOMAIN journal = 1..Len(journal) /\ Len(journal) \in Nat
      /\ \A x : BookedThere(x) <=> (Booked(x) \/ x = ref)
      /\ \A j \in 1..n : j \in 1..Len(journal) \/ j = n
      /\ n \in 1..n /\ n # 0
  BY <1>1, BookedThen
<1>5. /\ journal'[n] = NewEntry(ref, mirror) /\ journal'[i].reference = journal[i].reference
      /\ journal'[i].effects = journal[i].effects /\ ~Booked(ref)
  BY <1>1, <1>4 DEF Adds
<1>6. /\ journal'[n].reference = ref /\ journal'[n].reversedBy = 0
      /\ journal'[n].effects = mirror
  BY <1>5 DEF NewEntry
<1> HIDE DEF n
<1>7. ~BookedThere(reversalReference(ref))
  BY <1>1, <1>4, <1>5, NoReversalAhead, ReversalReferences
<1>8. ASSUME NEW j \in DOMAIN journal'
      PROVE  /\ journal'[j].reversedBy # 0 <=> BookedThere(reversalReference(journal'[j].reference))
             /\ journal'[j].reversedBy # 0 =>
                  /\ journal'[j].reversedBy \in DOMAIN journal'
                  /\ journal'[journal'[j].reversedBy].reference
                       = reversalReference(journal'[j].reference)
                  /\ \A a \in Accounts : journal'[journal'[j].reversedBy].effects[a]
                                            = -journal'[j].effects[a]
  <2>1. CASE j = n
    BY <1>6, <1>7, <2>1
  <2>2. CASE j = i
    BY <1>1, <1>2, <1>4, <1>5, <1>6, <2>2 DEF ref
  <2>3. CASE j \in 1..Len(journal) /\ j # i
    <3>1. journal'[j] = journal[j] /\ journal[j].reference \in References
      BY <1>1, <1>4, <2>3, JournalEntry
    <3>2. journal[j].reference # journal[i].reference
      BY <1>4, <2>3 DEF BookedOnce
    <3>3. reversalReference(journal[j].reference) # ref
      BY <1>3, <3>1, <3>2, ReversalReferences DEF ref
    <3>4. journal[j].reversedBy # 0 =>
            /\ journal[j].reversedBy \in 1..Len(journal)
            /\ journal[journal[j].reversedBy].reference = reversalReference(journal[j].reference)
            /\ \A a \in Accounts : journal[journal[j].reversedBy].effects[a]
                                      = -journal[j].effects[a]
      BY <1>4, <2>3 DEF ReversalExact
    <3>5. \A x \in 1..Len(journal) : /\ journal'[x].reference = journal[x].reference
                                     /\ journal'[x].effects = journal[x].effects
                                     /\ x \in 1..n
      BY <1>1, <1>4 DEF Adds, n
    <3>6. journal[j].reversedBy # 0 <=> Booked(reversalReference(journal[j].reference))
      BY <1>4, <2>3 DEF ReversalExact
    <3> QED BY <1>4, <3>1, <3>3, <3>4, <3>5, <3>6
  <2> QED BY <1>4, <2>1, <2>2, <2>3
<1>9. OriginalsBooked'
  <2> SUFFICES ASSUME NEW j \in 1..n, journal'[j].reference.reversals > 0
               PROVE  \E x \in 1..n : reversalReference(journal'[x].reference)
                                         = journal'[j].reference
    BY <1>4 DEF OriginalsBooked
  <2>1. \A x \in 1..Len(journal) : journal'[x].reference = journal[x].reference /\ x \in 1..n
    BY <1>1, <1>4 DEF Adds, n
  <2>2. CASE j = n
    BY <1>4, <1>5, <1>6, <2>1, <2>2 DEF ref
  <2>3. CASE j \in 1..Len(journal)
    <3>1. PICK x \in 1..Len(journal) : reversalReference(journal[x].reference)
                                          = journal[j].reference
      BY <1>4, <2>1, <2>3 DEF OriginalsBooked
    <3> QED BY <2>1, <2>3, <3>1
  <2> QED BY <1>4, <2>2, <2>3
<1> QED BY <1>8, <1>9 DEF ReversalExact, Booked, BookedThere

(* An entry is marked reversed exactly when the entry that undoes it is in *)
(* the journal: nothing is reversed twice, and nothing is booked as a      *)
(* reversal of what it does not undo.                                      *)
THEOREM ReversedOnce == Spec => []ReversalExact
<1>1. Init => ReversalExact /\ OriginalsBooked
  <2>1. Init => DOMAIN journal = {}
    BY Positions, EmptySeq DEF Init
  <2> QED BY <2>1 DEF ReversalExact, OriginalsBooked
<1>2. TypeOK /\ BookedOnce /\ ReversalExact /\ OriginalsBooked /\ [Next]_vars
        => ReversalExact' /\ OriginalsBooked'
  <2> SUFFICES ASSUME TypeOK, BookedOnce, ReversalExact, OriginalsBooked, [Next]_vars
               PROVE  ReversalExact' /\ OriginalsBooked'
    OBVIOUS
  <2>1. CASE Keeps /\ MarksKept
    BY <2>1, BookedStill DEF MarksKept, ReversalExact, OriginalsBooked, Booked
  <2>2. CASE Posted \/ Swept
    BY <2>2, RefType, ReversalsFresh DEF Posted, Swept, Ref
  <2>3. CASE Captured
    <3>1. PICK h \in Holds, m \in Amounts : Fresh(Ref("CAPTURE", h), Only(hold[h].accountId, -m))
      BY <2>3 DEF Captured
    <3>2. Only(hold[h].accountId, -m) \in Effects /\ Ref("CAPTURE", h) \in References
      BY HoldRecord, AmountType, OnlyType, RefType
    <3> QED BY <3>1, <3>2, ReversalsFresh DEF Ref
  <2>4. CASE Reversed
    BY <2>4, ReversalsReversed DEF Reversed
  <2>5. ASSUME NEW i \in DOMAIN journal, Reverse(i),
               Booked(reversalReference(journal[i].reference))
        PROVE  FALSE
    BY <2>5 DEF Reverse, ReversalExact
  <2> QED BY <2>1, <2>2, <2>3, <2>4, <2>5, JournalStep
<1> QED BY <1>1, <1>2, TypeCorrect, NeverBookedTwice, PTL DEF Spec

-----------------------------------------------------------------------------
(* Captures.                                                               *)

(* No hold becomes captured, and a captured one stays as it is.            *)
CapturedStay ==
  \A h \in Holds : /\ hold'[h].status = "CAPTURED" <=> hold[h].status = "CAPTURED"
                   /\ hold[h].status = "CAPTURED" => hold'[h] = hold[h]

(* Only a capture captures.                                                *)
LEMMA CapturedOnlyThen ==
  ASSUME TypeOK, [Next]_vars
  PROVE  CapturedStay \/ \E h \in Holds, m \in Amounts : CaptureHold(h, m)
<1>1. ASSUME UNCHANGED hold PROVE CapturedStay
  BY <1>1 DEF CapturedStay
<1>2. ASSUME NEW h \in Holds, NEW a \in Accounts, NEW m \in Amounts, NEW r \in HoldReason,
             PlaceHold(h, a, m, r)
      PROVE  CapturedStay
  BY <1>2 DEF PlaceHold, CapturedStay, TypeOK
<1>3. ASSUME NEW h \in Holds, ReleaseHold(h) \/ ExpireHold(h) PROVE CapturedStay
  <2>1. PICK outcome \in {"RELEASED", "EXPIRED"} : ResolveWithin(h, outcome, 0, 0)
    BY <1>3 DEF ReleaseHold, ExpireHold, GiveBack
  <2>2. ledgerBalance' \in [Accounts -> Int] /\ outcome \in HoldStatus /\ outcome # "CAPTURED"
    BY <1>3 DEF ReleaseHold, ExpireHold, GiveBack, bookVars, TypeOK, HoldStatus
  <2>3. /\ hold'[h].status = outcome /\ hold[h].status # "CAPTURED"
        /\ \A g \in Holds : g # h => hold'[g] = hold[g]
    BY <2>1, <2>2, ResolveType DEF ResolveWithin, ResolvableFrom
  <2> QED BY <2>2, <2>3 DEF CapturedStay
<1>4. ASSUME NEW n \in Requests, NEW e \in Recipes, Post(n, e) PROVE CapturedStay
  BY <1>1, <1>4 DEF Post
<1>5. ASSUME NEW i \in DOMAIN journal, Reverse(i) PROVE CapturedStay
  BY <1>1, <1>5 DEF Reverse
<1>6. ASSUME NEW a \in Accounts, NEW b \in Accounts, CloseSweeping(a, b) PROVE CapturedStay
  BY <1>1, <1>6 DEF CloseSweeping
<1>7. ASSUME NEW a \in Accounts,
             Open(a) \/ Freeze(a) \/ Unfreeze(a) \/ SweepDormant(a) \/ CloseEmpty(a)
      PROVE  CapturedStay
  BY <1>1, <1>7 DEF Open, Freeze, Unfreeze, SweepDormant, CloseEmpty, SetStatus
<1>8. ASSUME NEW a \in Accounts, NEW m \in Limits, RequestOverdraft(a, m) PROVE CapturedStay
  BY <1>1, <1>8 DEF RequestOverdraft, SetFacility
<1>9. ASSUME NEW a \in Accounts, SuspendOverdraft(a) \/ CloseOverdraft(a) PROVE CapturedStay
  BY <1>1, <1>9 DEF SuspendOverdraft, CloseOverdraft, SetFacility
<1>10. CASE UNCHANGED vars
  BY <1>1, <1>10 DEF vars
<1> QED BY <1>2, <1>3, <1>4, <1>5, <1>6, <1>7, <1>8, <1>9, <1>10 DEF Next

(* Captures are not disturbed by entries that are none.                    *)
LEMMA CapturesStand ==
  ASSUME TypeOK, CaptureExact, CapturedStay,
         \/ Keeps
         \/ \E ref \in References, e \in Effects :
              Adds(ref, e) /\ \A h \in Holds : ref # Ref("CAPTURE", h)
  PROVE  CaptureExact'
<1>1. /\ \A h \in Holds : BookedThere(Ref("CAPTURE", h)) <=> Booked(Ref("CAPTURE", h))
      /\ \A j \in DOMAIN journal : /\ j \in DOMAIN journal'
                                  /\ journal'[j].reference = journal[j].reference
                                  /\ journal'[j].effects = journal[j].effects
  <2>1. CASE Keeps
    BY <2>1, BookedStill DEF Keeps
  <2>2. ASSUME NEW ref \in References, NEW e \in Effects, Adds(ref, e),
               \A h \in Holds : ref # Ref("CAPTURE", h)
        PROVE  <1>1!:
    BY <2>2, BookedThen DEF Adds
  <2> QED BY <2>1, <2>2
<1>2. ASSUME NEW h \in Holds
      PROVE  /\ BookedThere(Ref("CAPTURE", h)) <=> hold'[h].status = "CAPTURED"
             /\ hold'[h].status = "CAPTURED" =>
                  /\ hold'[h].capturedEntryId \in DOMAIN journal'
                  /\ LET entry == journal'[hold'[h].capturedEntryId] IN
                       /\ entry.reference = Ref("CAPTURE", h)
                       /\ \E m \in 1..hold'[h].amount :
                            entry.effects = Only(hold'[h].accountId, -m)
  BY <1>1 DEF CaptureExact, CapturedStay
<1> QED BY <1>2 DEF CaptureExact, Booked, BookedThere

(* A capture books its entry, and the hold names it.                       *)
LEMMA CaptureBooks ==
  ASSUME TypeOK, CaptureExact, NEW h \in Holds, NEW m \in Amounts, CaptureHold(h, m)
  PROVE  CaptureExact'
<1> DEFINE ref == Ref("CAPTURE", h)
           a   == hold[h].accountId
           n   == Len(journal) + 1
<1>1. /\ hold[h].status = "ACTIVE" /\ m <= hold[h].amount
      /\ PostWithin(ref, Only(a, -m)) /\ ResolveWithin(h, "CAPTURED", m, EntryId(ref))
  BY DEF CaptureHold, ResolvableFrom
<1>2. /\ a \in Accounts /\ hold[h].amount \in Nat /\ m \in 1..hold[h].amount
      /\ ref \in References /\ Only(a, -m) \in Effects
  <2>1. a \in Accounts /\ hold[h].amount \in Nat
    BY HoldRecord
  <2>2. m \in Nat /\ m > 0 /\ -m \in Int
    BY AmountType
  <2>3. Only(a, -m) \in Effects
    BY <2>1, <2>2, OnlyType
  <2> QED BY <1>1, <2>1, <2>2, <2>3, RefType
<1>3. ~Booked(ref)
  BY <1>1 DEF CaptureExact
<1>4. Adds(ref, Only(a, -m)) /\ EntryId(ref) = n /\ n \in Nat
  BY <1>1, <1>2, <1>3, PostWithinJournal, EntryIdType, Positions DEF TypeOK
<1>5. ledgerBalance' \in [Accounts -> Int] /\ "CAPTURED" \in HoldStatus
  BY <1>1, <1>2, PostWithinType DEF HoldStatus
<1>6. /\ hold'[h].status = "CAPTURED" /\ hold'[h].capturedEntryId = n
      /\ hold'[h].accountId = a /\ hold'[h].amount = hold[h].amount
      /\ \A g \in Holds : g # h => hold'[g] = hold[g]
  BY <1>1, <1>4, <1>5, ResolveType
<1>7. /\ DOMAIN journal' = 1..n /\ DOMAIN journal = 1..Len(journal) /\ n \in 1..n
      /\ \A j \in 1..Len(journal) : j \in 1..n
      /\ \A x : BookedThere(x) <=> (Booked(x) \/ x = ref)
  BY <1>2, <1>4, BookedThen
<1>8. /\ journal'[n].reference = ref /\ journal'[n].effects = Only(a, -m)
      /\ \A j \in 1..Len(journal) : /\ journal'[j].reference = journal[j].reference
                                    /\ journal'[j].effects = journal[j].effects
  BY <1>4 DEF Adds, NewEntry
<1>9. \A g \in Holds : g # h => Ref("CAPTURE", g) # ref
  BY DEF Ref
<1> HIDE DEF ref, a, n
<1>10. ASSUME NEW g \in Holds
       PROVE  /\ BookedThere(Ref("CAPTURE", g)) <=> hold'[g].status = "CAPTURED"
              /\ hold'[g].status = "CAPTURED" =>
                   /\ hold'[g].capturedEntryId \in DOMAIN journal'
                   /\ LET entry == journal'[hold'[g].capturedEntryId] IN
                        /\ entry.reference = Ref("CAPTURE", g)
                        /\ \E x \in 1..hold'[g].amount :
                             entry.effects = Only(hold'[g].accountId, -x)
  <2>1. CASE g = h
    <3>1. hold'[g].status = "CAPTURED" /\ hold'[g].capturedEntryId = n
          /\ hold'[g].accountId = a /\ hold'[g].amount = hold[h].amount
      BY <1>6, <2>1
    <3>2. Ref("CAPTURE", g) = ref /\ BookedThere(ref)
      BY <1>7, <2>1 DEF ref
    <3> QED BY <1>2, <1>7, <1>8, <3>1, <3>2
  <2>2. CASE g # h
    <3>1. hold'[g] = hold[g] /\ Ref("CAPTURE", g) # ref
      BY <1>6, <1>9, <2>2
    <3>2. BookedThere(Ref("CAPTURE", g)) <=> Booked(Ref("CAPTURE", g))
      BY <1>7, <3>1
    <3> QED BY <1>7, <1>8, <3>1, <3>2 DEF CaptureExact
  <2> QED BY <2>1, <2>2
<1> QED BY <1>10 DEF CaptureExact, Booked, BookedThere

(* A hold is captured exactly when its capture is in the journal, by the   *)
(* entry it names, which takes no more than the hold from its account.     *)
THEOREM CapturedOnce == Spec => []CaptureExact
<1>1. Init => CaptureExact
  <2>1. Init => DOMAIN journal = {}
    BY Positions, EmptySeq DEF Init
  <2> QED BY <2>1 DEF Init, CaptureExact, Booked
<1>2. TypeOK /\ CaptureExact /\ [Next]_vars => CaptureExact'
  <2> SUFFICES ASSUME TypeOK, CaptureExact, [Next]_vars PROVE CaptureExact'
    OBVIOUS
  <2>1. CASE \E h \in Holds, m \in Amounts : CaptureHold(h, m)
    BY <2>1, CaptureBooks
  <2>2. CASE CapturedStay
    <3>1. CASE Keeps
      BY <2>2, <3>1, CapturesStand
    <3>2. CASE Posted \/ Swept
      <4>1. PICK ref \in References, e \in Effects :
              Adds(ref, e) /\ \A h \in Holds : ref # Ref("CAPTURE", h)
        BY <3>2, RefType DEF Posted, Swept, Fresh, Ref
      <4> QED BY <2>2, <4>1, CapturesStand
    <3>3. CASE Captured
      BY <2>1, <3>3 DEF Captured
    <3>4. ASSUME NEW i \in DOMAIN journal, Reverse(i) PROVE CaptureExact'
      <4> DEFINE ref == reversalReference(journal[i].reference)
                 mirror == buildReversal(journal[i].effects)
      <4>1. /\ ref \in References /\ mirror \in Effects
            /\ Keeps \/ Adds(ref, mirror)
        BY <3>4, ReverseAdds
      <4>2. journal[i].reference \in References
        BY JournalEntry
      <4>3. \A h \in Holds : ref # Ref("CAPTURE", h)
        BY <4>2, ReversalReferences DEF Ref
      <4> QED BY <2>2, <4>1, <4>3, CapturesStand
    <3> QED BY <3>1, <3>2, <3>3, <3>4, JournalStep DEF Reversed
  <2> QED BY <2>1, <2>2, CapturedOnlyThen
<1> QED BY <1>1, <1>2, TypeCorrect, PTL DEF Spec

-----------------------------------------------------------------------------
(* Frozen and closed accounts.                                             *)

(* What makes ClosedIsEmpty inductive: a closed account has no balance and *)
(* no reserve, and only a closed account has its sweep in the journal, so  *)
(* the sweep of a closure is never a replay that moves nothing.            *)
ClosedHolds ==
  \A a \in Accounts :
    /\ status[a] = "CLOSED" => ledgerBalance[a] = 0 /\ holdTotal[a] = 0
    /\ Booked(Ref("CLOSE", a)) => status[a] = "CLOSED"

(* An active hold reserves something.                                      *)
ActiveReserves == \A h \in Holds : hold[h].status = "ACTIVE" => hold[h].amount > 0

(* No operation moves the balance of a frozen or closed account.           *)
LEMMA StandsStill ==
  ASSUME TypeOK, [Next]_vars, NEW a \in Accounts, status[a] \in {"FROZEN", "CLOSED"}
  PROVE  ledgerBalance'[a] = ledgerBalance[a]
<1>1. PICK e \in Effects : MovesMoney(e)
  BY MoneyStep
<1>2. e[a] = 0
  BY <1>1 DEF MovesMoney, Postable, Usable, MOVEMENT_REFUSALS, NoEffect
<1>3. ledgerBalance'[a] = ledgerBalance[a] + e[a] /\ ledgerBalance[a] \in Int
  BY <1>1 DEF MovesMoney, Moved, TypeOK
<1> QED BY <1>2, <1>3

(* Resolving a hold only ever shrinks the reserves, and leaves an active   *)
(* hold as it was.                                                         *)
LEMMA ResolvedReserves ==
  ASSUME TypeOK, ActiveReserves, NEW h \in Holds, NEW outcome \in {"RELEASED", "EXPIRED", "CAPTURED"},
         NEW amount, NEW id \in Nat, ResolveWithin(h, outcome, amount, id),
         ledgerBalance' \in [Accounts -> Int]
  PROVE  /\ \A a \in Accounts : holdTotal[a] = 0 => holdTotal'[a] = 0
         /\ ActiveReserves'
<1>1. /\ holdTotal' \in [Accounts -> Nat] /\ hold'[h].status = outcome
      /\ \A g \in Holds : g # h => hold'[g] = hold[g]
  BY ResolveType DEF HoldStatus
<1>2. hold[h].accountId \in Accounts /\ hold[h].amount \in Nat /\ hold[h].amount > 0
  BY HoldRecord DEF ResolveWithin, ResolvableFrom, ActiveReserves
<1>3. \A a \in Accounts : holdTotal[a] \in Nat /\ holdTotal'[a] <= holdTotal[a]
  <2> DEFINE b == hold[h].accountId
  <2>1. holdTotal' = [holdTotal EXCEPT ![b] = holdTotal[b] - hold[h].amount]
    BY DEF ResolveWithin, Released
  <2>2. holdTotal \in [Accounts -> Nat]
    BY DEF TypeOK
  <2> HIDE DEF b
  <2>3. b \in Accounts
    BY <1>2 DEF b
  <2> QED BY <1>2, <2>1, <2>2, <2>3
<1>4. \A a \in Accounts : holdTotal[a] = 0 => holdTotal'[a] = 0
  BY <1>1, <1>3
<1> QED BY <1>1, <1>4 DEF ActiveReserves

(* A step reserves nothing on an account that cannot be used.              *)
LEMMA ReservesStep ==
  ASSUME TypeOK, ActiveReserves, [Next]_vars
  PROVE  /\ \A a \in Accounts : ~Usable(a) /\ holdTotal[a] = 0 => holdTotal'[a] = 0
         /\ ActiveReserves'
<1> DEFINE Goal == /\ \A a \in Accounts : ~Usable(a) /\ holdTotal[a] = 0 => holdTotal'[a] = 0
                   /\ ActiveReserves'
<1>0. ledgerBalance' \in [Accounts -> Int]
  BY TypeNext DEF TypeOK
<1>1. ASSUME UNCHANGED <<hold, holdTotal>> PROVE Goal
  BY <1>1 DEF ActiveReserves
<1>2. ASSUME NEW h \in Holds, NEW a \in Accounts, NEW m \in Amounts, NEW r \in HoldReason,
             PlaceHold(h, a, m, r)
      PROVE  Goal
  <2>1. m \in Nat /\ m > 0
    BY AmountType
  <2>2. /\ Usable(a) /\ holdTotal' = [holdTotal EXCEPT ![a] = @ + m]
        /\ hold'[h].amount = m
        /\ \A g \in Holds : g # h => hold'[g] = hold[g]
    BY <1>2 DEF PlaceHold, TypeOK
  <2>3. \A x \in Accounts : ~Usable(x) /\ holdTotal[x] = 0 => holdTotal'[x] = 0
    BY <2>2 DEF TypeOK
  <2>4. ActiveReserves'
    BY <2>1, <2>2 DEF ActiveReserves
  <2> QED BY <2>3, <2>4
<1>3. ASSUME NEW h \in Holds, ReleaseHold(h) \/ ExpireHold(h) PROVE Goal
  BY <1>0, <1>3, ResolvedReserves DEF ReleaseHold, ExpireHold, GiveBack
<1>4. ASSUME NEW h \in Holds, NEW m \in Amounts, CaptureHold(h, m) PROVE Goal
  <2>1. EntryId(Ref("CAPTURE", h)) \in Nat
    BY EntryIdType, LenProperties DEF TypeOK
  <2> QED BY <1>0, <1>4, <2>1, ResolvedReserves DEF CaptureHold
<1>5. ASSUME NEW n \in Requests, NEW e \in Recipes, Post(n, e) PROVE Goal
  BY <1>1, <1>5 DEF Post
<1>6. ASSUME NEW i \in DOMAIN journal, Reverse(i) PROVE Goal
  BY <1>1, <1>6 DEF Reverse
<1>7. ASSUME NEW a \in Accounts, NEW b \in Accounts, CloseSweeping(a, b) PROVE Goal
  BY <1>1, <1>7 DEF CloseSweeping
<1>8. ASSUME NEW a \in Accounts,
             Open(a) \/ Freeze(a) \/ Unfreeze(a) \/ SweepDormant(a) \/ CloseEmpty(a)
      PROVE  Goal
  BY <1>1, <1>8 DEF Open, Freeze, Unfreeze, SweepDormant, CloseEmpty, SetStatus
<1>9. ASSUME NEW a \in Accounts, NEW m \in Limits, RequestOverdraft(a, m) PROVE Goal
  BY <1>1, <1>9 DEF RequestOverdraft, SetFacility
<1>10. ASSUME NEW a \in Accounts, SuspendOverdraft(a) \/ CloseOverdraft(a) PROVE Goal
  BY <1>1, <1>10 DEF SuspendOverdraft, CloseOverdraft, SetFacility
<1>11. CASE UNCHANGED vars
  BY <1>1, <1>11 DEF vars
<1> QED BY <1>2, <1>3, <1>4, <1>5, <1>6, <1>7, <1>8, <1>9, <1>10, <1>11 DEF Next

(* The riding status change of a posting never closes an account.          *)
LEMMA TransitionNeverCloses ==
  ASSUME TypeOK, NEW moves, NEW a \in Accounts, transitionFor(moves)[a] = "CLOSED"
  PROVE  status[a] = "CLOSED"
BY DEF transitionFor

(* An account is closed by one of the two closures.                        *)
LEMMA ClosedOnlyThen ==
  ASSUME TypeOK, [Next]_vars, NEW a \in Accounts, status[a] # "CLOSED", status'[a] = "CLOSED"
  PROVE  CloseEmpty(a) \/ \E b \in Accounts : CloseSweeping(a, b)
<1>1. ASSUME NEW n \in Requests, NEW e \in Recipes, Post(n, e) PROVE FALSE
  BY <1>1, TransitionNeverCloses DEF Post
<1>2. ASSUME NEW i \in DOMAIN journal, Reverse(i) PROVE FALSE
  BY <1>2, TransitionNeverCloses DEF Reverse
<1>3. ASSUME NEW h \in Holds, NEW m \in Amounts, CaptureHold(h, m) PROVE FALSE
  BY <1>3, TransitionNeverCloses DEF CaptureHold
<1>4. ASSUME NEW x \in Accounts, NEW b \in Accounts, CloseSweeping(x, b) PROVE x = a
  <2> DEFINE swept == transitionFor(Moves(Ref("CLOSE", x),
                                          InternalTransfer(x, b, ledgerBalance[x])))
  <2>1. status' = [swept EXCEPT ![x] = "CLOSED"] /\ swept[a] # "CLOSED"
    BY <1>4, TransitionNeverCloses DEF CloseSweeping
  <2>2. swept \in [Accounts -> AccountStatus]
    BY TransferType, MovesType, TransitionType DEF TypeOK
  <2> HIDE DEF swept
  <2> QED BY <2>1, <2>2
<1>5. ASSUME NEW x \in Accounts, Open(x) \/ Freeze(x) \/ Unfreeze(x) \/ SweepDormant(x)
      PROVE  FALSE
  BY <1>5 DEF Open, Freeze, Unfreeze, SweepDormant, SetStatus, TypeOK
<1>6. ASSUME NEW x \in Accounts, CloseEmpty(x) PROVE x = a
  BY <1>6 DEF CloseEmpty, TypeOK
<1>7. ASSUME UNCHANGED status PROVE FALSE
  BY <1>7
<1>8. ASSUME NEW h \in Holds, NEW b \in Accounts, NEW m \in Amounts, NEW r \in HoldReason,
             PlaceHold(h, b, m, r)
      PROVE  FALSE
  BY <1>7, <1>8 DEF PlaceHold
<1>9. ASSUME NEW h \in Holds, ReleaseHold(h) \/ ExpireHold(h) PROVE FALSE
  BY <1>7, <1>9 DEF ReleaseHold, ExpireHold, GiveBack
<1>10. ASSUME NEW b \in Accounts, NEW m \in Limits, RequestOverdraft(b, m) PROVE FALSE
  BY <1>7, <1>10 DEF RequestOverdraft, SetFacility
<1>11. ASSUME NEW b \in Accounts, SuspendOverdraft(b) \/ CloseOverdraft(b) PROVE FALSE
  BY <1>7, <1>11 DEF SuspendOverdraft, CloseOverdraft, SetFacility
<1>12. CASE UNCHANGED vars
  BY <1>7, <1>12 DEF vars
<1> QED BY <1>1, <1>2, <1>3, <1>4, <1>5, <1>6, <1>8, <1>9, <1>10, <1>11, <1>12 DEF Next

(* Both leave it without balance and reserve.                              *)
LEMMA ClosesEmpty ==
  ASSUME TypeOK, ClosedHolds, NEW a \in Accounts, status[a] # "CLOSED",
         CloseEmpty(a) \/ \E b \in Accounts : CloseSweeping(a, b)
  PROVE  ledgerBalance'[a] = 0 /\ holdTotal'[a] = 0
<1>1. CASE CloseEmpty(a)
  BY <1>1 DEF CloseEmpty, NoActiveHolds, NothingToSweep, bookVars
<1>2. ASSUME NEW b \in Accounts, CloseSweeping(a, b)
      PROVE  ledgerBalance'[a] = 0 /\ holdTotal'[a] = 0
  <2> DEFINE swept == InternalTransfer(a, b, ledgerBalance[a])
  <2>1. ~Booked(Ref("CLOSE", a))
    BY DEF ClosedHolds
  <2>2. ledgerBalance' = Moved(ledgerBalance, swept)
    BY <1>2, <2>1 DEF CloseSweeping, PostWithin, Moves
  <2>3. ledgerBalance[a] \in Int /\ b # a
    BY <1>2 DEF CloseSweeping, TypeOK
  <2>4. swept[a] = -ledgerBalance[a]
    BY <2>3 DEF InternalTransfer, NoEffect
  <2> HIDE DEF swept
  <2>5. ledgerBalance'[a] = 0
    BY <2>2, <2>3, <2>4 DEF Moved
  <2> QED BY <1>2, <2>5 DEF CloseSweeping, NoActiveHolds
<1> QED BY <1>1, <1>2

(* Only a closing sweep books the entry of one.                            *)
LEMMA SweptOnlyThen ==
  ASSUME TypeOK, [Next]_vars, NEW a \in Accounts, BookedThere(Ref("CLOSE", a)),
         ~Booked(Ref("CLOSE", a))
  PROVE  status'[a] = "CLOSED"
<1>1. CASE Keeps
  BY <1>1, BookedStill
<1>2. CASE Posted
  BY <1>2, BookedThen, RefType DEF Posted, Fresh, Ref
<1>3. CASE Captured
  <2>1. PICK h \in Holds, m \in Amounts : Adds(Ref("CAPTURE", h), Only(hold[h].accountId, -m))
    BY <1>3 DEF Captured, Fresh
  <2>2. Only(hold[h].accountId, -m) \in Effects /\ Ref("CAPTURE", h) \in References
    BY HoldRecord, AmountType, OnlyType, RefType
  <2> QED BY <2>1, <2>2, BookedThen DEF Ref
<1>4. CASE Swept
  BY <1>4, BookedThen, RefType DEF Swept, Fresh, Ref
<1>5. ASSUME NEW i \in DOMAIN journal, Reverse(i) PROVE FALSE
  <2> DEFINE ref == reversalReference(journal[i].reference)
             mirror == buildReversal(journal[i].effects)
  <2>1. /\ ref \in References /\ mirror \in Effects
        /\ Keeps \/ Adds(ref, mirror)
    BY <1>5, ReverseAdds
  <2>2. ref # Ref("CLOSE", a)
    BY JournalEntry, ReversalReferences DEF Ref
  <2> QED BY <2>1, <2>2, BookedThen, BookedStill
<1> QED BY <1>1, <1>2, <1>3, <1>4, <1>5, JournalStep DEF Reversed

(* Every step keeps closed accounts without balance and reserve.           *)
LEMMA ClosedHoldsNext ==
  ASSUME TypeOK, ClosedHolds, ActiveReserves, [Next]_vars
  PROVE  ClosedHolds'
<1>1. ASSUME NEW a \in Accounts, status'[a] = "CLOSED"
      PROVE  ledgerBalance'[a] = 0 /\ holdTotal'[a] = 0
  <2>1. CASE status[a] = "CLOSED"
    <3>1. ~Usable(a) /\ ledgerBalance[a] = 0 /\ holdTotal[a] = 0
      BY <2>1 DEF ClosedHolds, Usable, MOVEMENT_REFUSALS
    <3> QED BY <2>1, <3>1, StandsStill, ReservesStep
  <2>2. CASE status[a] # "CLOSED"
    BY <1>1, <2>2, ClosedOnlyThen, ClosesEmpty
  <2> QED BY <2>1, <2>2
<1>2. ASSUME NEW a \in Accounts, BookedThere(Ref("CLOSE", a)) PROVE status'[a] = "CLOSED"
  BY <1>2, SweptOnlyThen, ClosedStays DEF ClosedHolds
<1> QED BY <1>1, <1>2 DEF ClosedHolds, Booked, BookedThere

(* With the reserves the sum of the active holds, no reserve means no      *)
(* active hold.                                                            *)
LEMMA EmptyWhenClosed ==
  ASSUME TypeOK, AvailabilityExact, HoldsExact, ActiveReserves, ClosedHolds
  PROVE  ClosedIsEmpty
<1> SUFFICES ASSUME NEW a \in Accounts, status[a] = "CLOSED"
             PROVE  /\ ledgerBalance[a] = 0 /\ availableBalance[a] = 0
                    /\ \A h \in Holds : hold[h].accountId = a => hold[h].status # "ACTIVE"
  BY DEF ClosedIsEmpty
<1>1. ledgerBalance[a] = 0 /\ holdTotal[a] = 0
  BY DEF ClosedHolds
<1>2. availableBalance[a] = 0
  BY <1>1 DEF AvailabilityExact
<1>3. Total(ActiveAmount(a), NumHolds) = 0
  BY <1>1 DEF HoldsExact
<1>4. \A h \in Holds : ActiveAmount(a)[h] <= 0
  BY <1>3, ActiveAmountType, TotalBounds, BoundsAssumption
<1>5. \A h \in Holds : hold[h].accountId = a => hold[h].status # "ACTIVE"
  BY <1>4, HoldRecord DEF ActiveAmount, ActiveReserves
<1> QED BY <1>1, <1>2, <1>5

(* ClosedHolds and ActiveReserves hold throughout.                         *)
LEMMA ClosedInvariant == Spec => [](ClosedHolds /\ ActiveReserves)
<1>1. Init => ClosedHolds /\ ActiveReserves
  <2>1. Init => DOMAIN journal = {}
    BY Positions, EmptySeq DEF Init
  <2> QED BY <2>1 DEF Init, ClosedHolds, ActiveReserves, Booked
<1>2. TypeOK /\ ClosedHolds /\ ActiveReserves /\ [Next]_vars => ClosedHolds' /\ ActiveReserves'
  BY ClosedHoldsNext, ReservesStep
<1> QED BY <1>1, <1>2, TypeCorrect, PTL DEF Spec

(* No operation moves the balance of a frozen or a closed account, in      *)
(* either direction; a closed account is empty, and stays closed.          *)
THEOREM FrozenAndClosedHold == Spec => FrozenAndClosedStand
<1>1. TypeOK /\ AvailabilityExact /\ HoldsExact /\ ActiveReserves /\ ClosedHolds => ClosedIsEmpty
  BY EmptyWhenClosed
<1>2. TypeOK /\ [Next]_vars =>
        [\A a \in Accounts :
           /\ status[a] \in {"FROZEN", "CLOSED"} => ledgerBalance'[a] = ledgerBalance[a]
           /\ status[a] = "CLOSED" => status'[a] = "CLOSED"]_vars
  BY StandsStill, ClosedStays
<1> QED BY <1>1, <1>2, ClosedInvariant, TypeCorrect, AvailabilityNeverDrifts,
           HoldTotalIsTheHolds, PTL DEF Spec, FrozenAndClosedStand

-----------------------------------------------------------------------------
(* The books and their promise.                                            *)

(* What the promise keeps of an entry.                                     *)
Booking == [reference : References, effects : Effects]

(* The sums of the promise are those of the books.                         *)
LEMMA SameTotal ==
  ASSUME NEW f, NEW n
  PROVE  Promise!Total(f, n) = Total(f, n)
BY DEF Promise!Total, Promise!Running, Total, Running

(* The journal, without its marks, is a sequence as long.                  *)
LEMMA EntriesType ==
  ASSUME TypeOK
  PROVE  /\ Entries \in Seq(Booking) /\ Len(Entries) = Len(journal) /\ Len(journal) \in Nat
         /\ DOMAIN Entries = 1..Len(journal) /\ DOMAIN journal = 1..Len(journal)
         /\ \A i \in 1..Len(journal) : /\ Entries[i].reference = journal[i].reference
                                       /\ Entries[i].effects = journal[i].effects
<1>1. DOMAIN journal = 1..Len(journal) /\ Len(journal) \in Nat
  BY Positions DEF TypeOK
<1>2. \A i \in 1..Len(journal) : /\ journal[i].reference \in References
                                 /\ journal[i].effects \in Effects
  BY <1>1, JournalEntry
<1>3. Entries \in [1..Len(journal) -> Booking]
  <2>1. \A i \in 1..Len(journal) :
          [reference |-> journal[i].reference, effects |-> journal[i].effects] \in Booking
    BY <1>2 DEF Booking
  <2> QED BY <2>1 DEF Entries
<1>4. Entries \in Seq(Booking)
  <2> DEFINE n == Len(journal)
  <2>1. n \in Nat /\ Entries \in [1..n -> Booking]
    BY <1>1, <1>3
  <2>2. Seq(Booking) = UNION {[1..k -> Booking] : k \in Nat}
    BY SeqDef
  <2> HIDE DEF n
  <2> QED BY <2>1, <2>2
<1>5. Len(Entries) = Len(journal)
  <2>1. DOMAIN Entries = 1..Len(Entries) /\ Len(Entries) \in Nat
    BY <1>4, LenProperties
  <2>2. DOMAIN Entries = 1..Len(journal)
    BY <1>3
  <2>3. ASSUME NEW n \in Nat, NEW m \in Nat, 1..n = 1..m PROVE n = m
    <3>1. (n \in 1..n \/ n = 0) /\ (m \in 1..m \/ m = 0)
      OBVIOUS
    <3> QED BY <2>3, <3>1
  <2> QED BY <1>1, <2>1, <2>2, <2>3
<1> QED BY <1>1, <1>3, <1>4, <1>5 DEF Entries

(* The balance the promise works out is the one the account keeps.         *)
LEMMA BalanceSeen ==
  ASSUME TypeOK, JournalExplains, NEW a \in Accounts
  PROVE  Promise!Balance(a) = ledgerBalance[a]
<1>1. [i \in 1..Len(Entries) |-> Entries[i].effects[a]] = EffectsOn(a)
  BY EntriesType DEF EffectsOn
<1>2. Promise!Balance(a) = Total(EffectsOn(a), Len(journal))
  BY <1>1, EntriesType, SameTotal DEF Promise!Balance
<1> QED BY <1>2 DEF JournalExplains

(* So is the reserve.                                                      *)
LEMMA ReservedSeen ==
  ASSUME TypeOK, HoldsExact, NEW a \in Accounts
  PROVE  Promise!Reserved(a) = holdTotal[a]
<1>1. Promise!Kept(a) = ActiveAmount(a)
  BY DEF Promise!Kept, Promise!Holds, ActiveAmount, Reserve
<1> QED BY <1>1, SameTotal DEF Promise!Reserved, HoldsExact

(* A reference is known to the promise exactly when it is booked.          *)
LEMMA KnownSeen ==
  ASSUME TypeOK, NEW r
  PROVE  Promise!Known(r) <=> Booked(r)
BY EntriesType DEF Promise!Known, Booked

(* What the code finds postable the promise can bear.                      *)
LEMMA BorneSeen ==
  ASSUME TypeOK, JournalExplains, NEW e \in Effects, Postable(e)
  PROVE  Promise!Borne(e)
<1> SUFFICES ASSUME NEW a \in Accounts
             PROVE  /\ e[a] # 0 => Life[a] = "OPEN"
                    /\ e[a] < 0 => Promise!Balance(a) + e[a] >= -overdraftLimit[a]
  BY DEF Promise!Borne, Promise!Accounts
<1> QED BY BalanceSeen DEF Postable, WithinFloor, Life

(* A step that keeps the entries changes nothing of what the promise sees  *)
(* of them, whatever it marks.                                             *)
LEMMA EntriesKept ==
  ASSUME TypeOK, Keeps
  PROVE  Entries' = Entries
BY DEF Keeps, Entries

(* An entry the code adds the promise books.                               *)
LEMMA EntryAdded ==
  ASSUME TypeOK, JournalExplains, NEW ref \in References, NEW e \in Effects,
         Adds(ref, e), Postable(e)
  PROVE  Promise!Book(ref, e) /\ Entries' # Entries
<1> DEFINE new == [reference |-> ref, effects |-> e]
           n == Len(journal)
<1>1. n \in Nat /\ Entries \in Seq(Booking) /\ Len(Entries) = n /\ DOMAIN Entries = 1..n
  BY EntriesType
<1>2. new \in Booking
  BY DEF Booking
<1>3. /\ Append(Entries, new) \in Seq(Booking) /\ Len(Append(Entries, new)) = n + 1
      /\ \A i \in 1..n : Append(Entries, new)[i] = Entries[i]
      /\ Append(Entries, new)[n + 1] = new
  BY <1>1, <1>2, AppendProperties
<1>4. DOMAIN Append(Entries, new) = 1..(n + 1)
  BY <1>3, LenProperties
<1>5. /\ Len(journal') = n + 1
      /\ \A i \in 1..n : /\ journal'[i].reference = journal[i].reference
                         /\ journal'[i].effects = journal[i].effects
      /\ journal'[n + 1].reference = ref /\ journal'[n + 1].effects = e
  BY DEF Adds, NewEntry
<1>6. Entries' = [i \in 1..(n + 1) |-> [reference |-> journal'[i].reference,
                                        effects |-> journal'[i].effects]]
  BY <1>5 DEF Entries
<1>7. Entries' = Append(Entries, new)
  <2> HIDE DEF new
  <2>1. \A i \in 1..n : Entries'[i] = Append(Entries, new)[i]
    BY <1>1, <1>3, <1>5, <1>6 DEF Entries
  <2>2. Entries'[n + 1] = Append(Entries, new)[n + 1]
    BY <1>1, <1>3, <1>5, <1>6 DEF new
  <2>3. 1..(n + 1) = 1..n \cup {n + 1}
    BY <1>1
  <2>4. DOMAIN Entries' = 1..(n + 1) /\ Entries' = [i \in DOMAIN Entries' |-> Entries'[i]]
    BY <1>6
  <2>5. Append(Entries, new) = [i \in 1..(n + 1) |-> Append(Entries, new)[i]]
    BY <1>3, <1>4, LenProperties
  <2> HIDE DEF n
  <2> QED BY <2>1, <2>2, <2>3, <2>4, <2>5
<1>8. Entries' # Entries
  <2>1. Len(Entries') = n + 1
    BY <1>3, <1>7
  <2> HIDE DEF n
  <2> QED BY <1>1, <2>1
<1>9. ~Promise!Known(ref)
  BY KnownSeen DEF Adds
<1>10. Promise!Borne(e)
  BY BorneSeen
<1> QED BY <1>7, <1>8, <1>9, <1>10 DEF Promise!Book

(* What the promise can see.                                               *)
Seen == <<Life, overdraftLimit, Reserve, Entries>>

(* What the steps of the promise rest on.                                  *)
BookInv ==
  /\ TypeOK /\ HoldsExact /\ JournalExplains /\ ReversalExact /\ CaptureExact
  /\ ClosedHolds /\ ActiveReserves /\ LimitNeedsFacility

(* A posting is booked, or was before and changes nothing.                 *)
LEMMA PostWithinSeen ==
  ASSUME TypeOK, JournalExplains, NEW ref \in References, NEW e \in Effects, PostWithin(ref, e)
  PROVE  /\ Booked(ref) => Entries' = Entries
         /\ ~Booked(ref) => Promise!Book(ref, e) /\ Entries' # Entries
BY PostWithinJournal, EntriesKept, EntryAdded DEF PostWithin

(* An account that a posting wakes up or activates was open before.        *)
LEMMA LifeRides ==
  ASSUME TypeOK, NEW moves, status' = transitionFor(moves)
  PROVE  Life' = Life
<1>1. ASSUME NEW a \in Accounts
      PROVE  (IF status'[a] \notin MOVEMENT_REFUSALS THEN "OPEN" ELSE status'[a])
               = (IF status[a] \notin MOVEMENT_REFUSALS THEN "OPEN" ELSE status[a])
  BY DEF transitionFor, MOVEMENT_REFUSALS
<1> QED BY <1>1 DEF Life, Usable

(* Nothing the promise sees has changed when its sources have not.         *)
LEMMA SourcesStay ==
  /\ UNCHANGED status => Life' = Life
  /\ UNCHANGED hold => Reserve' = Reserve
  /\ UNCHANGED journal => Entries' = Entries
<1>1. UNCHANGED status => Life' = Life
  BY DEF Life, Usable
<1>2. UNCHANGED hold => Reserve' = Reserve
  BY DEF Reserve
<1>3. UNCHANGED journal => Entries' = Entries
  BY DEF Entries
<1> QED BY <1>1, <1>2, <1>3

(* PostingService.post.                                                    *)
LEMMA PostSeen ==
  ASSUME BookInv, NEW n \in Requests, NEW e \in Recipes, Post(n, e)
  PROVE  [Promise!Next]_Seen
<1>1. TypeOK /\ JournalExplains
  BY DEF BookInv
<1>2. e \in Effects /\ Ref("POST", n) \in References
  BY RecipesType, RefType
<1>3. PostWithin(Ref("POST", n), e) /\ UNCHANGED <<Life, overdraftLimit, Reserve>>
  BY <1>1, LifeRides, SourcesStay DEF Post
<1>4. CASE Booked(Ref("POST", n))
  BY <1>1, <1>2, <1>3, <1>4, PostWithinSeen DEF Seen
<1>5. CASE ~Booked(Ref("POST", n))
  <2>1. Promise!Book(Ref("POST", n), e) /\ Entries' # Entries
    BY <1>1, <1>2, <1>3, <1>5, PostWithinSeen
  <2>2. Promise!Post(n, e)
    BY <1>3, <2>1 DEF Promise!Post, Promise!Original, Ref
  <2> QED BY <2>1, <2>2 DEF Promise!Next, Promise!Books
<1> QED BY <1>4, <1>5

(* ReversalService.reverse: a reversal that is booked is named by what it  *)
(* reverses, so what is not marked is booked now.                          *)
LEMMA ReverseSeen ==
  ASSUME BookInv, NEW i \in DOMAIN journal, Reverse(i)
  PROVE  [Promise!Next]_Seen
<1> DEFINE ref == reversalReference(journal[i].reference)
           mirror == buildReversal(journal[i].effects)
<1>1. TypeOK /\ JournalExplains /\ ReversalExact
  BY DEF BookInv
<1>2. ~Booked(ref) /\ Postable(mirror)
  BY <1>1 DEF ReversalExact, Reverse
<1>3. ref \in References /\ mirror \in Effects /\ Adds(ref, mirror)
  BY <1>1, <1>2, ReverseAdds
<1>4. UNCHANGED <<Life, overdraftLimit, Reserve>>
  BY <1>1, LifeRides, SourcesStay DEF Reverse
<1>5. Promise!Book(ref, mirror) /\ Entries' # Entries
  <2> HIDE DEF ref, mirror
  <2> QED BY <1>1, <1>2, <1>3, EntryAdded
<1>6. i \in DOMAIN Entries /\ ref = Promise!Reversal(Entries[i].reference)
      /\ mirror = Promise!Mirror(Entries[i].effects)
  BY <1>1, EntriesType DEF Promise!Reversal, reversalReference, Promise!Mirror, buildReversal,
    Promise!Accounts
<1>7. Promise!Reverse(i)
  BY <1>4, <1>5, <1>6 DEF Promise!Reverse
<1> QED BY <1>5, <1>6, <1>7 DEF Promise!Next, Promise!Books

(* HoldService.place.                                                      *)
LEMMA PlaceSeen ==
  ASSUME BookInv, NEW h \in Holds, NEW a \in Accounts, NEW m \in Amounts, NEW r \in HoldReason,
         PlaceHold(h, a, m, r)
  PROVE  [Promise!Next]_Seen
<1>1. TypeOK /\ JournalExplains /\ HoldsExact
  BY DEF BookInv
<1>2. m \in Nat /\ m > 0
  BY AmountType
<1>3. UNCHANGED <<Life, overdraftLimit, Entries>>
  BY SourcesStay DEF PlaceHold, bookVars
<1>4. Reserve[h].amount = 0 /\ Life[a] = "OPEN"
  BY DEF Reserve, Life, PlaceHold
<1>5. /\ Reserve' = [Reserve EXCEPT ![h] = [accountId |-> a, amount |-> m]]
      /\ Reserve'[h].amount = m
  <2>1. hold' = [hold EXCEPT ![h] = [status |-> "ACTIVE", accountId |-> a, amount |-> m,
                                     reason |-> r, capturedEntryId |-> 0]]
    BY DEF PlaceHold
  <2>2. hold'[h].status = "ACTIVE" /\ hold'[h].accountId = a /\ hold'[h].amount = m
        /\ \A g \in Holds : g # h => hold'[g] = hold[g]
    BY <1>1, <2>1 DEF TypeOK
  <2> QED BY <2>2 DEF Reserve
<1>6. m \in 1..Promise!Spendable(a)
  <2>1. Promise!Spendable(a) = ledgerBalance[a] - holdTotal[a] + overdraftLimit[a]
    BY <1>1, BalanceSeen, ReservedSeen DEF Promise!Spendable
  <2>2. ledgerBalance[a] \in Int /\ holdTotal[a] \in Nat /\ overdraftLimit[a] \in Nat
    BY <1>1 DEF TypeOK
  <2>3. m <= ledgerBalance[a] - holdTotal[a] + overdraftLimit[a]
    BY <1>2, <2>2 DEF PlaceHold, available
  <2> QED BY <1>2, <2>1, <2>2, <2>3
<1>7. Promise!Place(h, a, m)
  BY <1>3, <1>4, <1>5 DEF Promise!Place
<1>8. Reserve' # Reserve
  BY <1>2, <1>4, <1>5
<1> QED BY <1>6, <1>7, <1>8 DEF Promise!Next, Promise!Keeps, Promise!Holds, Promise!Accounts

(* resolveWithin: the reserve of the hold is gone.                         *)
LEMMA ReserveResolved ==
  ASSUME TypeOK, ActiveReserves, NEW h \in Holds, NEW outcome \in HoldStatus, outcome # "ACTIVE",
         NEW amount, NEW id \in Nat, ResolveWithin(h, outcome, amount, id),
         ledgerBalance' \in [Accounts -> Int]
  PROVE  /\ hold[h].status = "ACTIVE" /\ Reserve[h] = [accountId |-> hold[h].accountId,
                                                       amount |-> hold[h].amount]
         /\ Promise!Emptied(h) /\ Reserve' # Reserve
<1>1. hold[h].status = "ACTIVE" /\ hold[h].amount > 0 /\ hold[h].amount \in Nat
  BY HoldRecord DEF ResolveWithin, ResolvableFrom, ActiveReserves
<1>2. /\ hold'[h].status = outcome /\ hold'[h].accountId = hold[h].accountId
      /\ \A g \in Holds : g # h => hold'[g] = hold[g]
  BY ResolveType
<1>3. /\ Reserve[h] = [accountId |-> hold[h].accountId, amount |-> hold[h].amount]
      /\ Reserve' = [Reserve EXCEPT ![h] = [accountId |-> hold[h].accountId, amount |-> 0]]
  BY <1>1, <1>2 DEF Reserve
<1>4. [Reserve[h] EXCEPT !.amount = 0] = [accountId |-> hold[h].accountId, amount |-> 0]
  BY <1>3
<1>5. Reserve[h].amount # 0
  BY <1>1, <1>3
<1>6. Reserve' = [Reserve EXCEPT ![h].amount = 0]
  BY <1>3, <1>4
<1>7. Reserve' # Reserve
  <2>1. Reserve'[h].amount = 0
    BY <1>3 DEF Reserve
  <2> QED BY <1>5, <2>1
<1> QED BY <1>1, <1>3, <1>5, <1>6, <1>7 DEF Promise!Emptied

(* HoldService.release and expireDue.                                      *)
LEMMA GiveBackSeen ==
  ASSUME BookInv, NEW h \in Holds, NEW outcome \in {"RELEASED", "EXPIRED"}, GiveBack(h, outcome)
  PROVE  [Promise!Next]_Seen
<1>1. TypeOK /\ ActiveReserves
  BY DEF BookInv
<1>2. UNCHANGED <<Life, overdraftLimit, Entries>> /\ ResolveWithin(h, outcome, 0, 0)
      /\ ledgerBalance' \in [Accounts -> Int]
  BY <1>1, SourcesStay DEF GiveBack, bookVars, TypeOK
<1>3. outcome \in HoldStatus /\ outcome # "ACTIVE" /\ 0 \in Nat
  BY DEF HoldStatus
<1>4. Promise!Emptied(h) /\ Reserve' # Reserve
  BY <1>1, <1>2, <1>3, ReserveResolved
<1>5. Promise!Free(h)
  BY <1>2, <1>4 DEF Promise!Free
<1> QED BY <1>4, <1>5 DEF Promise!Next, Promise!Keeps, Promise!Holds

(* HoldCaptureService.capture: an active hold has no capture in the        *)
(* journal, so its capture is never a replay.                              *)
LEMMA CaptureSeen ==
  ASSUME BookInv, NEW h \in Holds, NEW m \in Amounts, CaptureHold(h, m)
  PROVE  [Promise!Next]_Seen
<1> DEFINE a == hold[h].accountId
           ref == Ref("CAPTURE", h)
           taken == Only(a, -m)
<1>1. TypeOK /\ JournalExplains /\ CaptureExact /\ ActiveReserves
  BY DEF BookInv
<1>2. m \in Nat /\ m > 0 /\ m <= hold[h].amount
  BY AmountType DEF CaptureHold
<1>3. ref \in References /\ taken \in Effects /\ PostWithin(ref, taken)
  BY <1>1, HoldRecord, AmountType, OnlyType, RefType DEF CaptureHold
<1>4. ResolveWithin(h, "CAPTURED", m, EntryId(ref))
      /\ ledgerBalance' \in [Accounts -> Int] /\ EntryId(ref) \in Nat
  <2> HIDE DEF ref, taken
  <2>1. ledgerBalance' \in [Accounts -> Int]
    BY <1>1, <1>3, PostWithinType
  <2>2. EntryId(ref) \in Nat
    <3>1. EntryId(ref) \in 1..(Len(journal) + 1)
      BY <1>1, EntryIdType DEF TypeOK
    <3> QED BY <3>1
  <2> QED BY <2>1, <2>2 DEF CaptureHold, ref
<1>5. /\ hold[h].status = "ACTIVE" /\ Promise!Emptied(h)
      /\ Reserve[h].accountId = a /\ Reserve[h].amount = hold[h].amount
  <2>1. "CAPTURED" \in HoldStatus
    BY DEF HoldStatus
  <2>2. /\ hold[h].status = "ACTIVE" /\ Promise!Emptied(h)
        /\ Reserve[h] = [accountId |-> hold[h].accountId, amount |-> hold[h].amount]
    <3> HIDE DEF ref
    <3> QED BY <1>1, <1>4, <2>1, ReserveResolved
  <2> QED BY <2>2
<1>6. ~Booked(ref)
  BY <1>1, <1>5 DEF CaptureExact
<1>7. UNCHANGED <<Life, overdraftLimit>>
  BY <1>1, LifeRides DEF CaptureHold
<1>8. Promise!Book(ref, taken) /\ Entries' # Entries
  <2> HIDE DEF ref, taken
  <2> QED BY <1>1, <1>3, <1>6, PostWithinSeen
<1>9. taken = Promise!Taken(Reserve[h].accountId, m) /\ ref = Promise!Original("CAPTURE", h)
  <2>1. a \in Accounts
    BY <1>1, HoldRecord
  <2> HIDE DEF a
  <2>2. Only(a, -m) = [x \in Accounts |-> IF x = a THEN -m ELSE 0]
    BY <2>1 DEF Only, NoEffect
  <2> QED BY <1>5, <2>2 DEF Promise!Taken, Promise!Accounts, Promise!Original, Ref
<1>10. Promise!Capture(h, m)
  BY <1>5, <1>7, <1>8, <1>9 DEF Promise!Capture
<1>11. m \in 1..Reserve[h].amount
  <2>1. hold[h].amount \in Nat
    BY <1>1, HoldRecord
  <2> QED BY <1>2, <1>5, <2>1
<1> QED BY <1>8, <1>10, <1>11 DEF Promise!Next, Promise!Books, Promise!Holds

(* A status that is written is seen as its life.                           *)
LEMMA StatusSeen ==
  ASSUME TypeOK, NEW a \in Accounts, NEW to, status' = [status EXCEPT ![a] = to]
  PROVE  /\ to \in MOVEMENT_REFUSALS => Life' = [Life EXCEPT ![a] = to]
         /\ to \notin MOVEMENT_REFUSALS => Life' = [Life EXCEPT ![a] = "OPEN"]
<1>1. status'[a] = to /\ \A x \in Accounts : x # a => status'[x] = status[x]
  BY DEF TypeOK
<1> QED BY <1>1 DEF Life, Usable

(* AccountClosureService.close with a residue.                             *)
LEMMA SweepSeen ==
  ASSUME BookInv, NEW a \in Accounts, NEW b \in Accounts, CloseSweeping(a, b)
  PROVE  [Promise!Next]_Seen
<1> DEFINE ref == Ref("CLOSE", a)
           swept == InternalTransfer(a, b, ledgerBalance[a])
<1>1. TypeOK /\ JournalExplains /\ HoldsExact /\ ClosedHolds
  BY DEF BookInv
<1>2. ref \in References /\ swept \in Effects /\ PostWithin(ref, swept)
  BY <1>1, TransferType, RefType DEF CloseSweeping, TypeOK
<1>3. ~Booked(ref)
  BY <1>1 DEF ClosedHolds, CloseSweeping
<1>4. Promise!Book(ref, swept) /\ Entries' # Entries
  <2> HIDE DEF ref, swept
  <2> QED BY <1>1, <1>2, <1>3, PostWithinSeen
<1>5. /\ Promise!Balance(a) = ledgerBalance[a] /\ ledgerBalance[a] \in Int
      /\ ledgerBalance[a] > 0 /\ b # a /\ Owner[b] = Owner[a] /\ Promise!Reserved(a) = 0
  BY <1>1, BalanceSeen, ReservedSeen DEF CloseSweeping, NoActiveHolds, TypeOK
<1>6. swept = Promise!Swept(a, b) /\ ref = Promise!Original("CLOSE", a)
  BY <1>5 DEF InternalTransfer, NoEffect, Promise!Swept, Promise!Accounts, Promise!Original, Ref
<1>7. Life[a] = "OPEN"
  <2>1. swept[a] # 0
    BY <1>5 DEF InternalTransfer, NoEffect
  <2>2. Postable(swept)
    BY <1>2, <1>3 DEF PostWithin
  <2> HIDE DEF swept
  <2> QED BY <2>1, <2>2 DEF Postable, Life
<1>8. Life' = [Life EXCEPT ![a] = "CLOSED"]
  <2> DEFINE rides == transitionFor(Moves(ref, swept))
  <2>1. /\ status' = [rides EXCEPT ![a] = "CLOSED"]
        /\ rides \in [Accounts -> AccountStatus]
    <3>1. Moves(ref, swept) \in Effects
      BY <1>2, MovesType
    <3> QED BY <1>1, <3>1, TransitionType DEF CloseSweeping
  <2>2. \A x \in Accounts : rides[x] # status[x] =>
          rides[x] = "ACTIVE" /\ status[x] \in {"DORMANT", "PENDING"}
    <3> HIDE DEF ref, swept
    <3> QED BY DEF transitionFor
  <2> HIDE DEF rides
  <2>3. status'[a] = "CLOSED" /\ \A x \in Accounts : x # a => status'[x] = rides[x]
    BY <2>1
  <2> QED BY <2>2, <2>3 DEF Life, Usable, MOVEMENT_REFUSALS
<1>9. UNCHANGED <<overdraftLimit, Reserve>>
  BY SourcesStay DEF CloseSweeping
<1>10. Promise!CloseSweeping(a, b)
  BY <1>4, <1>5, <1>6, <1>7, <1>8, <1>9 DEF Promise!CloseSweeping, Promise!Becomes
<1> QED BY <1>4, <1>10 DEF Promise!Next, Promise!Books, Promise!Accounts

(* AccountOpeningService, AccountStatusService, AccountClosureService.     *)
LEMMA StatusStepSeen ==
  ASSUME BookInv, NEW a \in Accounts,
         Open(a) \/ Freeze(a) \/ Unfreeze(a) \/ SweepDormant(a) \/ CloseEmpty(a)
  PROVE  [Promise!Next]_Seen
<1>1. TypeOK /\ JournalExplains /\ HoldsExact /\ ClosedHolds
  BY DEF BookInv
<1>2. UNCHANGED <<overdraftLimit, Reserve, Entries>>
  BY SourcesStay DEF Open, Freeze, Unfreeze, SweepDormant, CloseEmpty, SetStatus, bookVars
<1>3. Life \in [Accounts -> {"OPEN"} \cup AccountStatus]
  BY <1>1 DEF Life, TypeOK
<1>4. ASSUME Promise!Turn(a) \/ Promise!CloseEmpty(a) \/ Life' = Life
      PROVE  [Promise!Next]_Seen
  BY <1>2, <1>4 DEF Promise!Next, Promise!Turns, Promise!Accounts, Seen
<1>5. ASSUME Open(a) \/ Unfreeze(a) \/ SweepDormant(a) PROVE Promise!Turn(a) \/ Life' = Life
  <2>1. PICK to \in {"PENDING", "ACTIVE", "DORMANT"} : status' = [status EXCEPT ![a] = to]
    BY <1>5 DEF Open, Unfreeze, SweepDormant, SetStatus
  <2>2. Life' = [Life EXCEPT ![a] = "OPEN"]
    BY <1>1, <2>1, StatusSeen DEF MOVEMENT_REFUSALS
  <2>3. status[a] \in {"NONE", "FROZEN", "ACTIVE"}
    BY <1>5 DEF Open, Unfreeze, SweepDormant, SetStatus
  <2>4. Life[a] \in {"NONE", "FROZEN", "OPEN"}
    BY <2>3 DEF Life, Usable, MOVEMENT_REFUSALS
  <2> QED BY <1>2, <1>3, <2>2, <2>4 DEF Promise!Turn, Promise!Becomes
<1>6. ASSUME Freeze(a) PROVE Promise!Turn(a) \/ Life' = Life
  <2>1. Life' = [Life EXCEPT ![a] = "FROZEN"]
    BY <1>1, <1>6, StatusSeen DEF Freeze, SetStatus, MOVEMENT_REFUSALS
  <2>2. Life[a] \in {"FROZEN", "OPEN"}
    BY <1>6 DEF Freeze, SetStatus, FREEZABLE, Life, Usable, MOVEMENT_REFUSALS
  <2> QED BY <1>2, <1>3, <2>1, <2>2 DEF Promise!Turn, Promise!Becomes
<1>7. ASSUME CloseEmpty(a) PROVE Promise!CloseEmpty(a) \/ Life' = Life
  <2>1. Life' = [Life EXCEPT ![a] = "CLOSED"]
    BY <1>1, <1>7, StatusSeen DEF CloseEmpty, MOVEMENT_REFUSALS
  <2>2. CASE status[a] = "CLOSED"
    <3>1. Life[a] = "CLOSED"
      BY <2>2 DEF Life, Usable, MOVEMENT_REFUSALS
    <3> QED BY <1>3, <2>1, <3>1
  <2>3. CASE status[a] # "CLOSED"
    <3>1. Promise!Balance(a) = 0 /\ Promise!Reserved(a) = 0
      BY <1>1, <1>7, <2>3, BalanceSeen, ReservedSeen DEF CloseEmpty, NoActiveHolds, NothingToSweep
    <3>2. Life[a] \in {"OPEN", "FROZEN"}
      BY <1>1, <1>7, <2>3 DEF CloseEmpty, TypeOK, AccountStatus, Life, Usable, MOVEMENT_REFUSALS
    <3> QED BY <1>2, <2>1, <3>1, <3>2 DEF Promise!CloseEmpty, Promise!Becomes
  <2> QED BY <2>2, <2>3
<1> QED BY <1>4, <1>5, <1>6, <1>7

(* OverdraftService: a limit is granted to an account that has none.       *)
LEMMA LimitSeen ==
  ASSUME BookInv, NEW a \in Accounts,
         (\E l \in Limits : RequestOverdraft(a, l)) \/ SuspendOverdraft(a) \/ CloseOverdraft(a)
  PROVE  [Promise!Next]_Seen
<1>1. TypeOK /\ LimitNeedsFacility
  BY DEF BookInv
<1>2. UNCHANGED <<Life, Reserve, Entries>>
  BY SourcesStay DEF RequestOverdraft, SuspendOverdraft, CloseOverdraft, SetFacility, bookVars
<1>3. ASSUME (\E l \in Limits : Promise!Grant(a, l)) \/ Promise!Withdraw(a)
               \/ overdraftLimit' = overdraftLimit
      PROVE  [Promise!Next]_Seen
  BY <1>2, <1>3 DEF Promise!Next, Promise!Lends, Promise!Accounts, Seen
<1>4. ASSUME NEW l \in Limits, RequestOverdraft(a, l)
      PROVE  Promise!Grant(a, l) \/ overdraftLimit' = overdraftLimit
  <2>1. CASE l > 0
    <3>1. overdraftLimit[a] = 0
      BY <1>1, <1>4 DEF RequestOverdraft, LimitNeedsFacility
    <3> QED BY <1>2, <1>4, <2>1, <3>1 DEF RequestOverdraft, SetFacility, Promise!Grant
  <2>2. CASE ~(l > 0)
    BY <1>1, <1>4, <2>2 DEF RequestOverdraft, SetFacility, TypeOK
  <2> QED BY <2>1, <2>2
<1>5. ASSUME SuspendOverdraft(a) \/ CloseOverdraft(a) PROVE Promise!Withdraw(a)
  BY <1>2, <1>5 DEF SuspendOverdraft, CloseOverdraft, SetFacility, Promise!Withdraw
<1> QED BY <1>3, <1>4, <1>5

(* Every step of the books is one of the promise, or nothing it sees.      *)
LEMMA PromiseStep ==
  ASSUME BookInv, [Next]_vars
  PROVE  [Promise!Next]_Seen
<1>1. CASE UNCHANGED vars
  BY <1>1, SourcesStay DEF vars, Seen
<1>2. CASE \E h \in Holds : ReleaseHold(h) \/ ExpireHold(h)
  BY <1>2, GiveBackSeen DEF ReleaseHold, ExpireHold
<1> QED BY <1>1, <1>2, PostSeen, ReverseSeen, PlaceSeen, CaptureSeen, SweepSeen,
           StatusStepSeen, LimitSeen DEF Next

(* AccountBook implements BookPromise.                                     *)
THEOREM PromiseKept == Spec => KeepsPromise
<1>1. Init => Promise!Init
  <2> SUFFICES ASSUME Init PROVE Promise!Init
    OBVIOUS
  <2>1. Life = [a \in Accounts |-> "NONE"]
    BY DEF Init, Life, Usable, MOVEMENT_REFUSALS
  <2>2. Reserve = [h \in Holds |-> [accountId |-> 1, amount |-> 0]]
    BY DEF Init, Reserve
  <2>3. Entries = << >>
    <3>1. Entries \in Seq(Booking) /\ Len(Entries) = 0
      BY TypeInit, EntriesType, EmptySeq DEF Init
    <3> QED BY <3>1, EmptySeq
  <2> QED BY <2>1, <2>2, <2>3 DEF Init, Promise!Init, Promise!Accounts, Promise!Holds
<1>2. BookInv /\ [Next]_vars => [Promise!Next]_<<Life, overdraftLimit, Reserve, Entries>>
  BY PromiseStep DEF Seen
<1>3. TypeOK /\ HoldsExact /\ JournalExplains /\ ReversalExact /\ CaptureExact /\ ClosedHolds
        /\ ActiveReserves /\ LimitNeedsFacility => BookInv
  BY DEF BookInv
<1> QED BY <1>1, <1>2, <1>3, TypeCorrect, HoldTotalIsTheHolds, JournalExplainsBalances,
           ReversedOnce, CapturedOnce, ClosedInvariant, FacilityInvariant, PTL
           DEF Spec, KeepsPromise, Promise!Spec
=============================================================================
