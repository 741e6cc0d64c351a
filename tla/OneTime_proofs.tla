--------------------------- MODULE OneTime_proofs ---------------------------
(***************************************************************************)
(* Proofs about OneTime, for any executions, inputs, bindings and bounds,  *)
(* and for names that join to the same key.                                *)
(***************************************************************************)
EXTENDS OneTime, TLAPS

USE DEF Gen, Id, Time, Live, Ended, Final, tableVars, ghostVars

\* The cases of Next, named once.
Asked(s, i) ==
  \/ \E asked \in Time : RegisterRefused(s, i, asked) \/ \E b \in Bindings : Register(s, i, b, asked)
  \/ \E claim \in Claims : Reserve(s, i, claim) \/ ReserveRefused(s, i, claim)
  \/ Cancel(s, i)
  \/ Touch(s, i)

LEMMA Bounds ==
  MaxTime \in Nat /\ MaxGen \in Nat /\ MaxId \in Nat /\ Retention \in Nat
  BY OneTimeAssumption

LEMMA KeyType == \A s \in Scope, i \in Input : Key(s, i) \in Keys
<1> TAKE s \in Scope, i \in Input
<1>1. <<s, i>> \in Scope \X Input
  OBVIOUS
<1> QED
  BY <1>1 DEF Keys

LEMMA UnboundType == Unbound \in Binding
  BY DEF Unbound, Binding

\* The moves that keep an entry an entry.
LEMMA EntryMoves ==
  ASSUME NEW e \in Entry, NEW s \in Live \cup Ended, NEW h \in 0..MaxId
  PROVE  Transitioned(e, s, h) \in Entry
  BY DEF Entry, Transitioned

LEMMA ClampedType ==
  ASSUME now \in Time, NEW asked \in Time PROVE Clamped(asked) \in Nat
  BY Bounds DEF Clamped

Slot == Entry \cup {NoEntry}

LEMMA NoEntryFields ==
  /\ NoEntry.state = "absent" /\ NoEntry.gen = 0
  /\ \A e \in Entry : e.state \in Live \cup Ended /\ e.gen \in Gen /\ e # NoEntry
  BY DEF NoEntry, Entry

\* What the deadline changes in an entry.
LEMMA ExpireEntry ==
  ASSUME NEW e \in Slot
  PROVE  /\ Expire(e) \in Slot
         /\ Expire(e).gen = e.gen /\ Expire(e).scope = e.scope
         /\ Expire(e).binding = e.binding /\ Expire(e).deadline = e.deadline
         /\ Due(e) => e.state \in Live /\ Expire(e).state = "expired"
         /\ ~Due(e) => Expire(e) = e
         /\ Expire(e).state \in Live => ~Due(e)
         /\ e \in Entry <=> Expire(e) \in Entry
<1>1. CASE Due(e)
  <2>1. Expire(e) = Transitioned(e, "expired", 0)
    BY <1>1 DEF Expire
  <2>2. 0 \in 0..MaxId /\ "expired" \in Live \cup Ended
    BY Bounds
  <2>3. /\ Expire(e).gen = e.gen /\ Expire(e).scope = e.scope /\ Expire(e).state = "expired"
        /\ Expire(e).binding = e.binding /\ Expire(e).deadline = e.deadline
    BY <2>1 DEF Transitioned
  <2>4. e \in Entry
    BY <1>1, NoEntryFields DEF Slot, Due
  <2> QED
    BY <1>1, <2>1, <2>2, <2>3, <2>4, EntryMoves DEF Due, Slot
<1>2. CASE ~Due(e)
  BY <1>2 DEF Expire
<1> QED
  BY <1>1, <1>2

LEMMA SweptType ==
  ASSUME entries \in [Keys -> Slot]
  PROVE  /\ Swept \in [Keys -> Slot]
         /\ \A k \in Keys : Swept[k] = Expire(entries[k])
  BY ExpireEntry DEF Swept

LEMMA JournalType ==
  ASSUME journal \in [Gen \X Final -> Nat], NEW L, Journal(L)
  PROVE  journal' \in [Gen \X Final -> Nat]
  BY DEF Journal

\* A consume or a release is served only for the holder of a code not yet due.
LEMMA Held ==
  ASSUME TypeOK, NEW r \in Id, Refusal(r) = "ok"
  PROVE  /\ reservations[r] \in Index
         /\ reservations[r].key \in Keys
         /\ entries[reservations[r].key] \in Entry
         /\ entries[reservations[r].key].state \in Live
         /\ ~Due(entries[reservations[r].key])
         /\ entries[reservations[r].key].gen \in Gen
         /\ entries[reservations[r].key].holder = r
<1> DEFINE k == reservations[r].key
<1>1. reservations[r] # NoIndex /\ Resolves(r)
  BY DEF Refusal, Resolves
<1>2. reservations[r] \in Index /\ k \in Keys /\ reservations[r].gen \in Gen
  BY <1>1 DEF TypeOK, Index
<1>3. entries[k] \in Entry
  BY <1>1, <1>2, NoEntryFields DEF TypeOK, Resolves
<1>4. entries[k].state \in Live \cup Ended /\ entries[k].gen \in Gen
  BY <1>3, NoEntryFields
<1>5. Expire(entries[k]).state \notin Ended
  BY <1>1 DEF Refusal
<1>6. Expire(entries[k]) \in Entry
  BY <1>3, ExpireEntry DEF Slot
<1>7. Expire(entries[k]).state \in Live
  BY <1>5, <1>6, NoEntryFields
<1>8. ~Due(entries[k]) /\ entries[k].state \in Live
  BY <1>3, <1>7, ExpireEntry DEF Slot
<1>9. entries[k].holder = r
  BY <1>1, <1>7, <1>8 DEF Refusal, Expire
<1> QED
  BY <1>2, <1>3, <1>4, <1>8, <1>9

-----------------------------------------------------------------------------
(* Type correctness *)

LEMMA TypeInit == Init => TypeOK
  BY Bounds DEF Init, TypeOK, NoIndex, NoCode, NoAttempt, Code, Attempt, Unbound, Binding

LEMMA TypeAsked ==
  ASSUME TypeOK, NEW s \in Scope, NEW i \in Input, Asked(s, i)
  PROVE  TypeOK'
<1> USE DEF TypeOK, Slot
<1> DEFINE k == Key(s, i)
<1>0. k \in Keys /\ Swept \in [Keys -> Slot] /\ Swept[k] \in Slot /\ entries[k] \in Slot
  BY KeyType, SweptType
<1>1. ASSUME NEW asked \in Time, RegisterRefused(s, i, asked) PROVE TypeOK'
  <2>1. entries' \in [Keys -> Slot]
    BY <1>0, <1>1 DEF RegisterRefused, Retired
  <2>2. journal' \in [Gen \X Final -> Nat]
    BY <1>1, JournalType DEF RegisterRefused
  <2>3. newest' \in [Keys -> 0..MaxGen]
    BY <1>0, <1>1, Bounds DEF RegisterRefused
  <2>4. UNCHANGED <<reservations, nextGeneration, nextId, now, spent, code, attempt>>
    BY <1>1 DEF RegisterRefused
  <2> QED
    BY <2>1, <2>2, <2>3, <2>4
<1>2. ASSUME NEW asked \in Time, NEW b \in Bindings, Register(s, i, b, asked) PROVE TypeOK'
  <2> DEFINE g == nextGeneration + 1
             e == [scope |-> s, binding |-> b, deadline |-> Clamped(asked), gen |-> g,
                   state |-> "available", holder |-> 0]
  <2>1. g \in Gen /\ b \in Binding
    BY <1>2, OneTimeAssumption DEF Register, Binding
  <2>2. e \in Entry
    BY <2>1, ClampedType, Bounds DEF Entry
  <2>3. Retired(k) \in [Keys -> Slot]
    BY <1>0 DEF Retired
  <2>4. entries' \in [Keys -> Slot]
    BY <1>0, <1>2, <2>2, <2>3 DEF Register
  <2>5. journal' \in [Gen \X Final -> Nat]
    BY <1>2, JournalType DEF Register
  <2>6. code' \in [Gen -> Code]
    BY <1>0, <1>2, <2>1, Bounds DEF Register, Code
  <2> QED
    BY <1>0, <1>2, <2>1, <2>4, <2>5, <2>6, Bounds DEF Register
<1>3. ASSUME NEW claim \in Claims, Reserve(s, i, claim) PROVE TypeOK'
  <2> DEFINE r == nextId + 1
  <2>1. r \in Id /\ claim \in Binding
    BY <1>3, OneTimeAssumption DEF Reserve, Binding
  <2>2. Swept[k] \in Entry /\ Swept[k].gen \in Gen
    BY <1>0, <1>3, NoEntryFields DEF Reserve, Claimable
  <2>3. Transitioned(Swept[k], "reserved", r) \in Entry
    BY <1>0, <2>1, <2>2, EntryMoves
  <2>4. entries' = [Swept EXCEPT ![k] = Transitioned(Swept[k], "reserved", r)]
    BY <1>0, <1>3, <2>1 DEF Reserve
  <2>5. entries' \in [Keys -> Slot]
    BY <1>0, <2>3, <2>4
  <2>6. journal' \in [Gen \X Final -> Nat]
    BY <1>3, JournalType DEF Reserve
  <2>7. attempt' \in [Id -> Attempt]
    BY <1>3, <2>1, <2>2 DEF Reserve, Attempt
  <2>8. reservations' \in [Id -> Index \cup {NoIndex}]
    BY <1>0, <1>3, <2>1, <2>2 DEF Reserve, Index
  <2>9. nextId' \in 0..MaxId /\ UNCHANGED <<nextGeneration, now, spent, code, newest>>
    BY <1>3, Bounds DEF Reserve
  <2> QED
    BY <2>5, <2>6, <2>7, <2>8, <2>9
<1>4. ASSUME NEW claim \in Claims, ReserveRefused(s, i, claim) PROVE TypeOK'
  BY <1>0, <1>4, JournalType DEF ReserveRefused
<1>5. CASE Cancel(s, i)
  <2>1. entries[k] \in Entry
    BY <1>0, <1>5, NoEntryFields DEF Cancel
  <2>2. Transitioned(entries[k], "cancelled", 0) \in Entry
    BY <2>1, Bounds, EntryMoves
  <2> QED
    BY <1>0, <1>5, <2>2, JournalType DEF Cancel
<1>6. CASE Touch(s, i)
  <2>1. Expire(entries[k]) \in Slot
    BY <1>0, ExpireEntry
  <2> QED
    BY <1>0, <1>6, <2>1, JournalType DEF Touch
<1> QED
  BY <1>1, <1>2, <1>3, <1>4, <1>5, <1>6 DEF Asked

LEMMA TypeHolder ==
  ASSUME TypeOK, NEW r \in Id, Consume(r) \/ Release(r) \/ HolderRefused(r)
  PROVE  TypeOK'
<1> USE DEF TypeOK, Slot
<1> DEFINE k == reservations[r].key
<1>1. CASE Consume(r)
  <2>1. k \in Keys /\ entries[k] \in Entry /\ entries[k].gen \in Gen
    BY <1>1, Held DEF Consume
  <2>2. Transitioned(entries[k], "consumed", 0) \in Entry
    BY <2>1, Bounds, EntryMoves
  <2>3. Append(spent[entries[k].gen], r) \in Seq(Id)
    BY <2>1
  <2>4. spent' \in [Gen -> Seq(Id)]
    BY <1>1, <2>1, <2>3 DEF Consume
  <2>5. journal' \in [Gen \X Final -> Nat]
    BY <1>1, JournalType DEF Consume
  <2> QED
    BY <1>1, <2>1, <2>2, <2>4, <2>5 DEF Consume
<1>2. CASE Release(r)
  <2>1. k \in Keys /\ entries[k] \in Entry
    BY <1>2, Held DEF Release
  <2>2. Transitioned(entries[k], "available", 0) \in Entry
    BY <2>1, Bounds, EntryMoves
  <2>3. attempt' \in [Id -> Attempt]
    BY <1>2 DEF Release, Attempt
  <2> QED
    BY <1>2, <2>1, <2>2, <2>3 DEF Release
<1>3. CASE HolderRefused(r)
  <2>1. CASE Resolves(r)
    <3>1. k \in Keys
      BY <2>1 DEF Resolves, Index
    <3>2. Expire(entries[k]) \in Slot
      BY <3>1, ExpireEntry
    <3> QED
      BY <1>3, <2>1, <3>1, <3>2, JournalType DEF HolderRefused
  <2>2. CASE ~Resolves(r)
    BY <1>3, <2>2 DEF HolderRefused
  <2> QED
    BY <2>1, <2>2
<1> QED
  BY <1>1, <1>2, <1>3

LEMMA TypeTable ==
  ASSUME TypeOK, Tick \/ Sweep \/ \E s \in Scope : Retire(s)
  PROVE  TypeOK'
<1> USE DEF TypeOK, Slot
<1>1. CASE Tick
  BY <1>1 DEF Tick
<1>2. CASE Sweep
  BY <1>2, SweptType, JournalType DEF Sweep
<1>3. ASSUME NEW s \in Scope, Retire(s) PROVE TypeOK'
  BY <1>3 DEF Retire, Kept
<1> QED
  BY <1>1, <1>2, <1>3

\* Next, by what can happen.
LEMMA NextCases ==
  ASSUME Next, TypeOK
  PROVE  \/ \E s \in Scope, i \in Input : Asked(s, i)
         \/ \E r \in Id : Consume(r) \/ Release(r) \/ HolderRefused(r)
         \/ Tick \/ Sweep \/ \E s \in Scope : Retire(s)
<1>1. 1..nextId \subseteq Id
  BY Bounds DEF TypeOK
<1> QED
  BY <1>1 DEF Next, Asked

LEMMA TypeStep == TypeOK /\ [Next]_vars => TypeOK'
<1> SUFFICES ASSUME TypeOK, [Next]_vars PROVE TypeOK'
  OBVIOUS
<1>1. CASE UNCHANGED vars
  BY <1>1 DEF vars, TypeOK
<1> QED
  BY <1>1, NextCases, TypeAsked, TypeHolder, TypeTable

\* The table keeps its shape: an entry has a value, a holder and a deadline of the
\* right kind, and a reservation that resolves names a code that was registered.
THEOREM TypeCorrect == Spec => []TypeOK
  BY TypeInit, TypeStep, PTL DEF Spec

-----------------------------------------------------------------------------
(* A code is submitted once.  SpentOnce is not inductive: it needs that no   *)
(* two keys hold the same code, that a code not yet registered was not       *)
(* submitted, and that a code still held was not submitted.                  *)

Distinct == \A k, m \in Keys : entries[k].gen = entries[m].gen /\ entries[k].gen # 0 => k = m
Issued   == \A k \in Keys : entries[k].gen <= nextGeneration
Unspent  ==
  /\ \A g \in Gen : g > nextGeneration => spent[g] = <<>>
  /\ \A k \in Keys : entries[k].state \in Live => spent[entries[k].gen] = <<>>

OnceInv == TypeOK /\ Distinct /\ Issued /\ Unspent /\ SpentOnce

\* The fields of a slot, with no entry counting as generation 0.
LEMMA SlotFields ==
  ASSUME NEW e \in Slot
  PROVE  /\ e.gen \in 0..MaxGen /\ e.gen \in Int
         /\ e.state \in Live \/ e.state \in Ended => e \in Entry /\ e.gen \in Gen
         /\ e.gen = 0 => e = NoEntry
  BY NoEntryFields, Bounds DEF Slot

LEMMA OnceInit == Init => OnceInv
<1> SUFFICES ASSUME Init PROVE OnceInv
  OBVIOUS
<1>1. \A k \in Keys : entries[k].gen = 0 /\ entries[k].state \notin Live
  BY NoEntryFields DEF Init
<1> QED
  BY <1>1, TypeInit DEF Init, OnceInv, Distinct, Issued, Unspent, SpentOnce

\* A step that registers and submits nothing keeps it: it may only take entries out
\* or end them.
LEMMA OnceQuiet ==
  ASSUME OnceInv, TypeOK', nextGeneration' = nextGeneration, spent' = spent,
         \A k \in Keys : entries'[k].gen \in {0, entries[k].gen},
         \A k \in Keys : entries'[k].state \in Live => entries[k].state \in Live
  PROVE  OnceInv'
<1>1. \A k \in Keys : entries[k] \in Slot /\ entries'[k] \in Slot
  BY DEF OnceInv, TypeOK, Slot
<1>2. \A k \in Keys : entries[k].gen \in Int /\ entries[k].gen >= 0
  BY <1>1, SlotFields
<1>3. Distinct' /\ Issued'
  <2>1. nextGeneration \in Int /\ nextGeneration >= 0
    BY Bounds DEF OnceInv, TypeOK
  <2>2. \A k \in Keys : entries'[k].gen <= nextGeneration
    BY <1>2, <2>1 DEF OnceInv, Issued
  <2>3. Distinct'
    BY DEF OnceInv, Distinct
  <2> QED
    BY <2>2, <2>3 DEF Issued
<1>4. \A k \in Keys : entries'[k].state \in Live => entries'[k].gen = entries[k].gen
  BY <1>1, SlotFields, Bounds
<1>5. Unspent' /\ SpentOnce'
  BY <1>4 DEF OnceInv, Unspent, SpentOnce
<1> QED
  BY <1>3, <1>5 DEF OnceInv

LEMMA OnceRegister ==
  ASSUME OnceInv, TypeOK', NEW s \in Scope, NEW i \in Input, NEW asked \in Time,
         NEW b \in Bindings, Register(s, i, b, asked)
  PROVE  OnceInv'
<1> DEFINE k == Key(s, i)
           g == nextGeneration + 1
<1>0. k \in Keys /\ g \in Gen /\ nextGeneration \in Int
  BY KeyType, Bounds DEF Register, OnceInv, TypeOK
<1>1. \A m \in Keys : entries[m] \in Slot /\ entries[m].gen \in Int /\ entries[m].gen <= nextGeneration
  BY SlotFields DEF OnceInv, TypeOK, Slot, Issued
<1>2. Swept \in [Keys -> Slot] /\ \A m \in Keys : Swept[m] = Expire(entries[m])
  BY SweptType DEF OnceInv, TypeOK, Slot
<1>3. /\ entries'[k].gen = g /\ entries'[k].state = "available"
      /\ \A m \in Keys \ {k} : entries'[m] = Swept[m]
  BY <1>0, <1>2 DEF Register, Retired
<1>4. \A m \in Keys \ {k} : entries'[m].gen = entries[m].gen
  BY <1>1, <1>2, <1>3, ExpireEntry
<1>5. \A m \in Keys \ {k} : entries'[m].state \in Live => entries[m].state \in Live
  BY <1>1, <1>2, <1>3, ExpireEntry
<1>6. nextGeneration' = g /\ spent' = spent
  BY DEF Register
<1>7. Distinct' /\ Issued'
  BY <1>0, <1>1, <1>3, <1>4, <1>6 DEF OnceInv, Distinct, Issued
<1>8. spent[g] = <<>>
  BY <1>0 DEF OnceInv, Unspent
<1>9. Unspent' /\ SpentOnce'
  BY <1>0, <1>3, <1>4, <1>5, <1>6, <1>8 DEF OnceInv, Unspent, SpentOnce
<1> QED
  BY <1>7, <1>9 DEF OnceInv

LEMMA OnceConsume ==
  ASSUME OnceInv, TypeOK', NEW r \in Id, Consume(r)
  PROVE  OnceInv'
<1> DEFINE k == reservations[r].key
           g == entries[k].gen
<1>1. k \in Keys /\ entries[k].state \in Live /\ g \in Gen
  BY Held DEF Consume, OnceInv
<1>2. /\ entries' = [entries EXCEPT ![k] = Transitioned(entries[k], "consumed", 0)]
      /\ spent' = [spent EXCEPT ![g] = Append(spent[g], r)]
      /\ nextGeneration' = nextGeneration
  BY DEF Consume
<1>3. /\ entries'[k].gen = g /\ entries'[k].state = "consumed"
      /\ \A m \in Keys \ {k} : entries'[m] = entries[m]
  BY <1>1, <1>2 DEF Transitioned, OnceInv, TypeOK
<1>4. Distinct' /\ Issued'
  BY <1>1, <1>2, <1>3 DEF OnceInv, Distinct, Issued
<1>5. spent[g] = <<>> /\ g <= nextGeneration
  BY <1>1 DEF OnceInv, Unspent, Issued
<1>6. \A m \in Keys \ {k} : entries[m].gen # g
  BY <1>1 DEF OnceInv, Distinct
<1>7. \A h \in Gen \ {g} : spent'[h] = spent[h]
  BY <1>1, <1>2 DEF OnceInv, TypeOK
<1>8. Len(spent'[g]) <= 1
  BY <1>1, <1>2, <1>5 DEF OnceInv, TypeOK
<1>9. \A m \in Keys : entries'[m].state \in Live => entries'[m].gen \in Gen \ {g}
  <2> SUFFICES ASSUME NEW m \in Keys, entries'[m].state \in Live
               PROVE  entries'[m].gen \in Gen \ {g}
    OBVIOUS
  <2>1. m # k /\ entries'[m] = entries[m] /\ entries[m] \in Slot
    BY <1>3 DEF OnceInv, TypeOK, Slot
  <2> QED
    BY <2>1, <1>6, SlotFields
<1>10. Unspent'
  <2>1. \A h \in Gen : h > nextGeneration' => spent'[h] = <<>>
    BY <1>2, <1>5, <1>7 DEF OnceInv, Unspent, TypeOK
  <2>2. \A m \in Keys : entries'[m].state \in Live => spent'[entries'[m].gen] = <<>>
    BY <1>3, <1>7, <1>9 DEF OnceInv, Unspent
  <2> QED
    BY <2>1, <2>2 DEF Unspent
<1>11. SpentOnce'
  BY <1>7, <1>8 DEF OnceInv, SpentOnce
<1> QED
  BY <1>4, <1>10, <1>11 DEF OnceInv

\* Registering and consuming apart, a step only expires, ends, hands over, gives
\* back or removes entries.
LEMMA QuietMoves ==
  ASSUME TypeOK, Next,
         ~\E s \in Scope, i \in Input, asked \in Time, b \in Bindings : Register(s, i, b, asked),
         ~\E r \in Id : Consume(r)
  PROVE  /\ nextGeneration' = nextGeneration /\ spent' = spent
         /\ \A k \in Keys : entries'[k].gen \in {0, entries[k].gen}
         /\ \A k \in Keys : entries'[k].state \in Live => entries[k].state \in Live
<1> DEFINE Quiet(k) ==
      /\ entries'[k].gen \in {0, entries[k].gen}
      /\ entries'[k].state \in Live => entries[k].state \in Live
<1>0. /\ Swept \in [Keys -> Slot] /\ entries \in [Keys -> Slot]
      /\ \A k \in Keys : /\ Swept[k].gen = entries[k].gen
                         /\ Swept[k].state \in Live => entries[k].state \in Live
                         /\ Expire(entries[k]).gen = entries[k].gen
                         /\ Expire(entries[k]).state \in Live => entries[k].state \in Live
  <2>1. entries \in [Keys -> Slot]
    BY DEF TypeOK, Slot
  <2>2. \A k \in Keys : /\ Expire(entries[k]).gen = entries[k].gen
                        /\ Expire(entries[k]).state \in Live => entries[k].state \in Live
    BY <2>1, ExpireEntry
  <2> QED
    BY <2>1, <2>2, SweptType
<1>1. ASSUME NEW s \in Scope, NEW i \in Input, NEW asked \in Time, RegisterRefused(s, i, asked)
      PROVE  nextGeneration' = nextGeneration /\ spent' = spent /\ \A k \in Keys : Quiet(k)
  BY <1>0, <1>1, NoEntryFields DEF RegisterRefused, Retired
<1>2. ASSUME NEW s \in Scope, NEW i \in Input, NEW claim \in Claims, Reserve(s, i, claim)
      PROVE  nextGeneration' = nextGeneration /\ spent' = spent /\ \A k \in Keys : Quiet(k)
  BY <1>0, <1>2, KeyType DEF Reserve, Claimable, Transitioned
<1>3. ASSUME NEW s \in Scope, NEW i \in Input, NEW claim \in Claims, ReserveRefused(s, i, claim)
      PROVE  nextGeneration' = nextGeneration /\ spent' = spent /\ \A k \in Keys : Quiet(k)
  BY <1>0, <1>3 DEF ReserveRefused
<1>4. ASSUME NEW s \in Scope, NEW i \in Input, Cancel(s, i) \/ Touch(s, i)
      PROVE  nextGeneration' = nextGeneration /\ spent' = spent /\ \A k \in Keys : Quiet(k)
  BY <1>0, <1>4, KeyType DEF Cancel, Touch, Transitioned
<1>5. ASSUME NEW r \in Id, Release(r)
      PROVE  nextGeneration' = nextGeneration /\ spent' = spent /\ \A k \in Keys : Quiet(k)
  BY <1>0, <1>5, Held DEF Release, Transitioned
<1>6. ASSUME NEW r \in Id, HolderRefused(r)
      PROVE  nextGeneration' = nextGeneration /\ spent' = spent /\ \A k \in Keys : Quiet(k)
  BY <1>0, <1>6 DEF HolderRefused
<1>7. ASSUME Tick \/ Sweep
      PROVE  nextGeneration' = nextGeneration /\ spent' = spent /\ \A k \in Keys : Quiet(k)
  BY <1>0, <1>7 DEF Tick, Sweep
<1>8. ASSUME NEW s \in Scope, Retire(s)
      PROVE  nextGeneration' = nextGeneration /\ spent' = spent /\ \A k \in Keys : Quiet(k)
  BY <1>0, <1>8, NoEntryFields DEF Retire, Kept
<1> QED
  BY <1>1, <1>2, <1>3, <1>4, <1>5, <1>6, <1>7, <1>8, NextCases DEF Asked

LEMMA OnceStep == OnceInv /\ [Next]_vars => OnceInv'
<1> SUFFICES ASSUME OnceInv, [Next]_vars PROVE OnceInv'
  OBVIOUS
<1>1. TypeOK /\ TypeOK'
  BY TypeStep DEF OnceInv
<1>2. CASE UNCHANGED vars
  BY <1>2 DEF vars, OnceInv, TypeOK, Distinct, Issued, Unspent, SpentOnce
<1>3. ASSUME NEW s \in Scope, NEW i \in Input, NEW asked \in Time, NEW b \in Bindings,
             Register(s, i, b, asked)
      PROVE  OnceInv'
  BY <1>1, <1>3, OnceRegister
<1>4. ASSUME NEW r \in Id, Consume(r) PROVE OnceInv'
  BY <1>1, <1>4, OnceConsume
<1>5. ASSUME Next,
             ~\E s \in Scope, i \in Input, asked \in Time, b \in Bindings : Register(s, i, b, asked),
             ~\E r \in Id : Consume(r)
      PROVE  OnceInv'
  BY <1>1, <1>5, QuietMoves, OnceQuiet
<1> QED
  BY <1>2, <1>3, <1>4, <1>5

\* A code is submitted at most once: reservations, releases, re-registrations under
\* the same or a joined key, cancellations and any movement of the clock included.
THEOREM SpentOnceHolds == Spec => []SpentOnce
<1>1. OnceInv => SpentOnce
  BY DEF OnceInv
<1> QED
  BY <1>1, OnceInit, OnceStep, PTL DEF Spec
LEMMA OnceAlways == Spec => []OnceInv
  BY OnceInit, OnceStep, PTL DEF Spec

\* Only a consume submits, and the reservation it names is the last one recorded.
LEMMA SubmitIsConsume ==
  ASSUME OnceInv, [Next]_vars, NEW g \in Gen, Submits(g)
  PROVE  \E r \in Id : /\ Consume(r) /\ entries[reservations[r].key].gen = g
                       /\ spent'[g][Len(spent'[g])] = r
<1>1. spent' # spent
  BY DEF Submits
<1>2. PICK r \in Id : Consume(r)
  <2>1. ~UNCHANGED vars /\ Next
    BY <1>1 DEF vars
  <2>2. ASSUME NEW s \in Scope, NEW i \in Input, NEW asked \in Time, NEW b \in Bindings,
               Register(s, i, b, asked)
        PROVE  FALSE
    BY <1>1, <2>2 DEF Register
  <2> QED
    BY <1>1, <2>1, <2>2, QuietMoves DEF OnceInv
<1> DEFINE h == entries[reservations[r].key].gen
<1>3. h \in Gen /\ spent[h] \in Seq(Id) /\ spent' = [spent EXCEPT ![h] = Append(spent[h], r)]
  BY <1>2, Held DEF Consume, OnceInv, TypeOK
<1>4. h = g
  BY <1>3 DEF Submits, OnceInv, TypeOK
<1>5. spent'[g] = Append(spent[g], r)
  BY <1>3, <1>4 DEF OnceInv, TypeOK
<1>6. spent'[g][Len(spent'[g])] = r
  BY <1>3, <1>4, <1>5
<1> QED
  BY <1>2, <1>4, <1>6

-----------------------------------------------------------------------------
(* What the table holds under a key is the latest registration under it, with *)
(* the binding and the deadline it was registered with.                       *)

Bound(k) ==
  LET e == entries[k] IN
  e.gen # 0 => /\ code[e.gen].key = k /\ newest[k] = e.gen
               /\ e.binding = code[e.gen].binding /\ e.deadline = code[e.gen].limit

BoundInv == \A k \in Keys : Bound(k)

\* Registering apart, a step takes an entry out or keeps what it was registered as.
LEMMA KeepingMoves ==
  ASSUME TypeOK, Next,
         ~\E s \in Scope, i \in Input, asked \in Time, b \in Bindings : Register(s, i, b, asked)
  PROVE  /\ code' = code
         /\ \A k \in Keys : \/ entries'[k].gen = 0
                            \/ /\ entries'[k].gen = entries[k].gen
                               /\ entries'[k].binding = entries[k].binding
                               /\ entries'[k].deadline = entries[k].deadline
                               /\ newest'[k] = newest[k]
<1> DEFINE Same(k) == /\ entries'[k].gen = entries[k].gen
                      /\ entries'[k].binding = entries[k].binding
                      /\ entries'[k].deadline = entries[k].deadline
                      /\ newest'[k] = newest[k]
           Keeps == code' = code /\ \A k \in Keys : entries'[k].gen = 0 \/ Same(k)
<1>0. /\ Swept \in [Keys -> Slot] /\ entries \in [Keys -> Slot] /\ newest \in [Keys -> 0..MaxGen]
      /\ \A k \in Keys : /\ Swept[k].gen = entries[k].gen
                         /\ Swept[k].binding = entries[k].binding
                         /\ Swept[k].deadline = entries[k].deadline
                         /\ Expire(entries[k]).gen = entries[k].gen
                         /\ Expire(entries[k]).binding = entries[k].binding
                         /\ Expire(entries[k]).deadline = entries[k].deadline
  <2>1. entries \in [Keys -> Slot] /\ newest \in [Keys -> 0..MaxGen]
    BY DEF TypeOK, Slot
  <2> QED
    BY <2>1, ExpireEntry, SweptType
<1>1. ASSUME NEW s \in Scope, NEW i \in Input, NEW asked \in Time, RegisterRefused(s, i, asked)
      PROVE  Keeps
  BY <1>0, <1>1, NoEntryFields DEF RegisterRefused, Retired
<1>2. ASSUME NEW s \in Scope, NEW i \in Input, NEW claim \in Claims, Reserve(s, i, claim)
      PROVE  Keeps
  BY <1>0, <1>2, KeyType DEF Reserve, Transitioned
<1>3. ASSUME NEW s \in Scope, NEW i \in Input, NEW claim \in Claims, ReserveRefused(s, i, claim)
      PROVE  Keeps
  BY <1>0, <1>3 DEF ReserveRefused
<1>4. ASSUME NEW s \in Scope, NEW i \in Input, Cancel(s, i) \/ Touch(s, i)
      PROVE  Keeps
  BY <1>0, <1>4, KeyType DEF Cancel, Touch, Transitioned
<1>5. ASSUME NEW r \in Id, Release(r) \/ Consume(r) PROVE Keeps
  <2> DEFINE k == reservations[r].key
  <2>1. k \in Keys /\ code' = code /\ newest' = newest
    BY <1>5, Held DEF Release, Consume
  <2>2. PICK st \in {"available", "consumed"} : entries' = [entries EXCEPT ![k] = Transitioned(@, st, 0)]
    BY <1>5 DEF Release, Consume
  <2> QED
    BY <1>0, <2>1, <2>2 DEF Transitioned
<1>6. ASSUME NEW r \in Id, HolderRefused(r) PROVE Keeps
  BY <1>0, <1>6 DEF HolderRefused
<1>7. ASSUME Tick \/ Sweep PROVE Keeps
  BY <1>0, <1>7 DEF Tick, Sweep
<1>8. ASSUME NEW s \in Scope, Retire(s) PROVE Keeps
  BY <1>0, <1>8, NoEntryFields DEF Retire, Kept
<1> QED
  BY <1>1, <1>2, <1>3, <1>4, <1>5, <1>6, <1>7, <1>8, NextCases DEF Asked

LEMMA BoundRegister ==
  ASSUME OnceInv, BoundInv, NEW s \in Scope, NEW i \in Input, NEW asked \in Time,
         NEW b \in Bindings, Register(s, i, b, asked)
  PROVE  BoundInv'
<1> DEFINE k == Key(s, i)
           g == nextGeneration + 1
<1>0. k \in Keys /\ g \in Gen /\ nextGeneration \in Int /\ b \in Binding
  BY KeyType, Bounds, OneTimeAssumption DEF Register, OnceInv, TypeOK, Binding
<1>1. \A m \in Keys : entries[m] \in Slot /\ entries[m].gen \in Int /\ entries[m].gen <= nextGeneration
  BY SlotFields DEF OnceInv, TypeOK, Slot, Issued
<1>2. Swept \in [Keys -> Slot] /\ \A m \in Keys : Swept[m] = Expire(entries[m])
  BY SweptType DEF OnceInv, TypeOK, Slot
<1>3. entries' = [Retired(k) EXCEPT ![k] =
         [scope |-> s, binding |-> b, deadline |-> Clamped(asked), gen |-> g,
          state |-> "available", holder |-> 0]]
  BY DEF Register
<1>4. /\ entries'[k].gen = g /\ entries'[k].binding = b /\ entries'[k].deadline = Clamped(asked)
      /\ \A m \in Keys \ {k} : entries'[m] = Swept[m]
  BY <1>0, <1>2, <1>3 DEF Retired
<1>5. /\ code'[g].key = k /\ code'[g].binding = b /\ code'[g].limit = Clamped(asked)
      /\ \A h \in Gen \ {g} : code'[h] = code[h]
  BY <1>0, Bounds DEF Register, Clamped, OnceInv, TypeOK
<1>6. newest'[k] = g /\ \A m \in Keys \ {k} : newest'[m] = newest[m]
  BY <1>0 DEF Register, OnceInv, TypeOK
<1>7. ASSUME NEW m \in Keys \ {k} PROVE Bound(m)'
  <2>1. /\ entries'[m].gen = entries[m].gen /\ entries'[m].binding = entries[m].binding
        /\ entries'[m].deadline = entries[m].deadline
    BY <1>1, <1>2, <1>4, ExpireEntry
  <2>2. entries[m].gen # 0 => entries[m].gen \in Gen \ {g}
    BY <1>0, <1>1, SlotFields, NoEntryFields DEF Slot
  <2> QED
    BY <1>5, <1>6, <2>1, <2>2 DEF BoundInv, Bound
<1>8. Bound(k)'
  BY <1>4, <1>5, <1>6 DEF Bound
<1> QED
  BY <1>7, <1>8 DEF BoundInv

LEMMA BoundAlways == Spec => []BoundInv
<1>1. Init => BoundInv
  BY NoEntryFields DEF Init, BoundInv, Bound
<1>2. OnceInv /\ BoundInv /\ [Next]_vars => BoundInv'
  <2> SUFFICES ASSUME OnceInv, BoundInv, [Next]_vars PROVE BoundInv'
    OBVIOUS
  <2>1. CASE UNCHANGED vars
    BY <2>1 DEF vars, BoundInv, Bound
  <2>2. ASSUME NEW s \in Scope, NEW i \in Input, NEW asked \in Time, NEW b \in Bindings,
               Register(s, i, b, asked)
        PROVE  BoundInv'
    BY <2>2, BoundRegister
  <2>3. ASSUME Next, ~\E s \in Scope, i \in Input, asked \in Time, b \in Bindings :
                        Register(s, i, b, asked)
        PROVE  BoundInv'
    BY <2>3, KeepingMoves DEF OnceInv, BoundInv, Bound
  <2> QED
    BY <2>1, <2>2, <2>3
<1> QED
  BY <1>1, <1>2, OnceAlways, PTL DEF Spec

\* Only the code of the latest registration under its name is ever submitted, a
\* refused registration included.
THEOREM NewestOnlyHolds == Spec => NewestOnly
<1>1. ASSUME OnceInv, BoundInv, [Next]_vars, NEW g \in Gen, Submits(g)
      PROVE  newest[code[g].key] = g
  <2>1. PICK r \in Id : Consume(r) /\ entries[reservations[r].key].gen = g
    BY <1>1, SubmitIsConsume
  <2>2. reservations[r].key \in Keys
    BY <1>1, <2>1, Held DEF Consume, OnceInv
  <2> QED
    BY <1>1, <2>1, <2>2 DEF BoundInv, Bound
<1>2. OnceInv /\ BoundInv /\ [Next]_vars
        => [\A g \in Gen : Submits(g) => newest[code[g].key] = g]_vars
  BY <1>1
<1> QED
  BY <1>2, OnceAlways, BoundAlways, PTL DEF Spec, NewestOnly

\* A code is submitted before the deadline it was registered with, however long
\* the attempt was queued, and nothing due is held once a register or a reserve
\* has been served.
THEOREM InTimeHolds == Spec => InTime
<1> DEFINE Served == <<nextGeneration, nextId>>' # <<nextGeneration, nextId>>
           NothingDue == \A k \in Keys :
             entries'[k].state \in Live => now < code'[entries'[k].gen].limit
<1>1. ASSUME OnceInv, BoundInv, [Next]_vars, NEW g \in Gen, Submits(g)
      PROVE  now < code[g].limit
  <2>1. PICK r \in Id : Consume(r) /\ entries[reservations[r].key].gen = g
    BY <1>1, SubmitIsConsume
  <2> DEFINE e == entries[reservations[r].key]
  <2>2. reservations[r].key \in Keys /\ e \in Entry /\ e.state \in Live /\ ~Due(e)
    BY <1>1, <2>1, Held DEF Consume, OnceInv
  <2>3. now < e.deadline
    BY <1>1, <2>2 DEF Due, Entry, OnceInv, TypeOK
  <2> QED
    BY <1>1, <2>1, <2>2, <2>3 DEF BoundInv, Bound
<1>2. ASSUME OnceInv, BoundInv', TypeOK', [Next]_vars, Served PROVE NothingDue
  <2>0. Next /\ ~Tick
    BY <1>2 DEF vars, Tick
  <2>1. now' = now /\ now \in Time
    <3>1. ASSUME NEW ss \in Scope, NEW i \in Input, Asked(ss, i) PROVE now' = now
      BY <3>1
      DEF Asked, RegisterRefused, Register, Reserve, ReserveRefused, Cancel, Touch
    <3>2. ASSUME NEW r \in Id, Consume(r) \/ Release(r) \/ HolderRefused(r) PROVE now' = now
      BY <3>2 DEF Consume, Release, HolderRefused
    <3>3. ASSUME Sweep \/ \E ss \in Scope : Retire(ss) PROVE now' = now
      BY <3>3 DEF Sweep, Retire
    <3> QED
      BY <1>2, <2>0, <3>1, <3>2, <3>3, NextCases DEF OnceInv, TypeOK
  <2>2. ASSUME NEW k \in Keys, entries'[k].state \in Live, now < entries'[k].deadline
        PROVE  now < code'[entries'[k].gen].limit
    <3>1. entries'[k].gen # 0
      BY <1>2, <2>2, NoEntryFields DEF TypeOK
    <3> QED
      BY <1>2, <2>2, <3>1 DEF BoundInv, Bound
  <2>3. entries \in [Keys -> Slot]
    BY <1>2 DEF OnceInv, TypeOK, Slot
  <2>4. Swept \in [Keys -> Slot] /\ \A m \in Keys : Swept[m] = Expire(entries[m])
    BY <2>3, SweptType
  <2>5. ASSUME NEW k \in Keys, Swept[k].state \in Live PROVE now < Swept[k].deadline
    <3>1. Swept[k] \in Entry /\ ~Due(Swept[k])
      <4>1. ~Due(entries[k]) /\ Swept[k] = entries[k]
        BY <2>3, <2>4, <2>5, ExpireEntry
      <4> QED
        BY <2>4, <2>5, <4>1, NoEntryFields DEF Slot
    <3> QED
      BY <2>1, <2>5, <3>1 DEF Due, Entry
  <2>6. ASSUME NEW s \in Scope, NEW i \in Input, NEW asked \in Time, NEW b \in Bindings,
               Register(s, i, b, asked)
        PROVE  NothingDue
    <3> DEFINE k == Key(s, i)
               e == [scope |-> s, binding |-> b, deadline |-> Clamped(asked),
                     gen |-> nextGeneration + 1, state |-> "available", holder |-> 0]
    <3>1. k \in Keys /\ entries' = [Retired(k) EXCEPT ![k] = e]
      BY <2>6, KeyType DEF Register
    <3>2. entries'[k].deadline = Clamped(asked) /\ \A m \in Keys \ {k} : entries'[m] = Swept[m]
      BY <2>4, <3>1 DEF Retired
    <3>3. now < Clamped(asked)
      BY <2>1, <2>6, OneTimeAssumption DEF Register, Clamped
    <3> QED
      BY <2>2, <2>5, <3>2, <3>3
  <2>7. ASSUME NEW s \in Scope, NEW i \in Input, NEW claim \in Claims, Reserve(s, i, claim)
        PROVE  NothingDue
    <3> DEFINE k == Key(s, i)
    <3>1. k \in Keys /\ Swept[k].state = "available"
      BY <2>7, KeyType DEF Reserve, Claimable
    <3>2. entries'[k].deadline = Swept[k].deadline /\ \A m \in Keys \ {k} : entries'[m] = Swept[m]
      BY <2>4, <2>7, <3>1 DEF Reserve, Transitioned
    <3> QED
      BY <2>2, <2>5, <3>1, <3>2
  <2> QED
    BY <1>2, <2>0, <2>6, <2>7
    DEF Next, RegisterRefused, ReserveRefused, Cancel, Touch, Consume, Release, HolderRefused,
        Sweep, Retire
<1>3. OnceInv /\ BoundInv /\ TypeOK' /\ BoundInv' /\ [Next]_vars
        => [/\ \A g \in Gen : Submits(g) => now < code[g].limit
            /\ Served => NothingDue]_vars
  BY <1>1, <1>2
<1> QED
  BY <1>3, OnceAlways, BoundAlways, TypeCorrect, PTL DEF Spec, InTime
-----------------------------------------------------------------------------
(* The holder.  Of the reservations ever made for a code that is still held,  *)
(* the one that was not given back is its holder, and its claim was admitted. *)

Outstanding(q, g) == attempt[q].gen = g /\ ~attempt[q].returned

HeldBy(e) ==
  e.state \in Live =>
    /\ \A q \in Id : Outstanding(q, e.gen) <=> q = e.holder
    /\ e.holder \in Id => Admits(e.binding, attempt[e.holder].claim)
    /\ e.state = "available" => e.holder = 0

HolderInv ==
  /\ \A k \in Keys : HeldBy(entries[k])
  /\ \A q \in Id : /\ attempt[q].gen <= nextGeneration
                   /\ q > nextId => attempt[q].gen = 0

\* Registering, reserving and giving back apart, a step leaves the attempts alone
\* and what is still held as it was.
LEMMA HoldingMoves ==
  ASSUME TypeOK, Next,
         ~\E s \in Scope, i \in Input, asked \in Time, b \in Bindings : Register(s, i, b, asked),
         ~\E s \in Scope, i \in Input, claim \in Claims : Reserve(s, i, claim),
         ~\E r \in Id : Release(r)
  PROVE  /\ UNCHANGED <<attempt, nextId, nextGeneration>>
         /\ \A k \in Keys : entries'[k].state \in Live => entries'[k] = entries[k]
<1> DEFINE Holds == /\ UNCHANGED <<attempt, nextId, nextGeneration>>
                    /\ \A k \in Keys : entries'[k].state \in Live => entries'[k] = entries[k]
<1>0. /\ Swept \in [Keys -> Slot] /\ entries \in [Keys -> Slot]
      /\ \A k \in Keys : /\ Swept[k] = Expire(entries[k])
                         /\ Swept[k].state \in Live => Swept[k] = entries[k]
  <2>1. entries \in [Keys -> Slot]
    BY DEF TypeOK, Slot
  <2> QED
    BY <2>1, ExpireEntry, SweptType
<1>1. ASSUME NEW s \in Scope, NEW i \in Input, NEW asked \in Time, RegisterRefused(s, i, asked)
      PROVE  Holds
  BY <1>0, <1>1, NoEntryFields DEF RegisterRefused, Retired
<1>2. ASSUME NEW s \in Scope, NEW i \in Input, NEW claim \in Claims, ReserveRefused(s, i, claim)
      PROVE  Holds
  BY <1>0, <1>2 DEF ReserveRefused
<1>3. ASSUME NEW s \in Scope, NEW i \in Input, Cancel(s, i) \/ Touch(s, i)
      PROVE  Holds
  BY <1>0, <1>3, KeyType DEF Cancel, Touch, Transitioned
<1>4. ASSUME NEW r \in Id, Consume(r) PROVE Holds
  BY <1>0, <1>4, Held DEF Consume, Transitioned
<1>5. ASSUME NEW r \in Id, HolderRefused(r) PROVE Holds
  BY <1>0, <1>5 DEF HolderRefused
<1>6. ASSUME Tick \/ Sweep PROVE Holds
  BY <1>0, <1>6 DEF Tick, Sweep
<1>7. ASSUME NEW s \in Scope, Retire(s) PROVE Holds
  BY <1>0, <1>7, NoEntryFields DEF Retire, Kept
<1> QED
  BY <1>1, <1>2, <1>3, <1>4, <1>5, <1>6, <1>7, NextCases DEF Asked

\* A new code starts with no attempt made for it.
LEMMA HolderRegister ==
  ASSUME OnceInv, HolderInv, NEW s \in Scope, NEW i \in Input, NEW asked \in Time,
         NEW b \in Bindings, Register(s, i, b, asked)
  PROVE  HolderInv'
<1> DEFINE k == Key(s, i)
           g == nextGeneration + 1
<1>0. \A q \in Id : attempt[q].gen \in Int
  BY Bounds DEF OnceInv, TypeOK, Attempt
<1>1. k \in Keys /\ entries \in [Keys -> Slot] /\ nextGeneration \in Int
  BY KeyType, Bounds DEF OnceInv, TypeOK, Slot
<1>2. Swept \in [Keys -> Slot] /\ \A m \in Keys : Swept[m] = Expire(entries[m])
  BY <1>1, SweptType
<1>3. /\ entries'[k].gen = g /\ entries'[k].holder = 0 /\ entries'[k].state = "available"
      /\ \A m \in Keys \ {k} : entries'[m] = Swept[m]
  BY <1>1, <1>2 DEF Register, Retired
<1>4. attempt' = attempt /\ nextId' = nextId /\ nextGeneration' = g
  BY DEF Register
<1>5. \A m \in Keys \ {k} : entries'[m].state \in Live => entries'[m] = entries[m]
  BY <1>1, <1>2, <1>3, ExpireEntry
<1>6. \A m \in Keys \ {k} : HeldBy(entries[m])'
  BY <1>4, <1>5 DEF HolderInv, HeldBy, Outstanding
<1>7. \A q \in Id : attempt'[q].gen # g
  BY <1>0, <1>1, <1>4 DEF HolderInv
<1>8. HeldBy(entries[k])'
  BY <1>3, <1>7, Bounds DEF HeldBy, Outstanding
<1> QED
  BY <1>0, <1>1, <1>4, <1>6, <1>8 DEF HolderInv

LEMMA HolderReserve ==
  ASSUME OnceInv, HolderInv, NEW s \in Scope, NEW i \in Input, NEW claim \in Claims,
         Reserve(s, i, claim)
  PROVE  HolderInv'
<1> DEFINE k == Key(s, i)
           r == nextId + 1
           g == entries[k].gen
<1>1. k \in Keys /\ entries \in [Keys -> Slot] /\ nextId \in Int /\ r \in Id
  BY KeyType, Bounds DEF Reserve, OnceInv, TypeOK, Slot
<1>2. Swept \in [Keys -> Slot] /\ \A m \in Keys : Swept[m] = Expire(entries[m])
  BY <1>1, SweptType
<1>3. /\ Swept[k] = entries[k] /\ entries[k].state = "available" /\ g \in Gen
      /\ Admits(entries[k].binding, claim)
  BY <1>1, <1>2, ExpireEntry, NoEntryFields DEF Reserve, Claimable, Slot
<1>4. /\ entries'[k].gen = g /\ entries'[k].holder = r /\ entries'[k].state = "reserved"
      /\ entries'[k].binding = entries[k].binding
      /\ \A m \in Keys \ {k} : entries'[m] = Swept[m]
  BY <1>1, <1>2, <1>3 DEF Reserve, Transitioned
<1>5. /\ attempt'[r] = [gen |-> g, claim |-> claim, returned |-> FALSE]
      /\ \A q \in Id \ {r} : attempt'[q] = attempt[q]
      /\ nextId' = r /\ nextGeneration' = nextGeneration
  BY <1>1, <1>3 DEF Reserve, OnceInv, TypeOK
<1>6. \A m \in Keys \ {k} : entries'[m].state \in Live => entries'[m] = entries[m]
  BY <1>1, <1>2, <1>4, ExpireEntry
<1>7. ASSUME NEW m \in Keys \ {k}, entries'[m] = entries[m] PROVE HeldBy(entries[m])'
  <2>1. CASE entries[m].state \in Live
    <3>1. entries[m].gen \in Gen /\ entries[m].gen # g
      BY <1>1, <1>3, <2>1, SlotFields DEF OnceInv, Distinct
    <3>2. attempt[r].gen = 0
      BY <1>1 DEF HolderInv
    <3>3. entries[m].holder # r
      BY <1>1, <2>1, <3>1, <3>2 DEF HolderInv, HeldBy, Outstanding
    <3>4. HeldBy(entries[m])
      BY DEF HolderInv
    <3> QED
      BY <1>5, <1>7, <2>1, <3>1, <3>2, <3>3, <3>4 DEF HeldBy, Outstanding
  <2>2. CASE entries[m].state \notin Live
    BY <1>7, <2>2 DEF HeldBy
  <2> QED
    BY <2>1, <2>2
<1>8. \A m \in Keys \ {k} : HeldBy(entries[m])'
  BY <1>6, <1>7 DEF HeldBy
<1>9. HeldBy(entries[k])'
  <2>1. \A q \in Id : ~Outstanding(q, g)
    BY <1>1, <1>3, Bounds DEF HolderInv, HeldBy
  <2>2. \A q \in Id : attempt'[q].gen = g /\ ~attempt'[q].returned <=> q = r
    BY <1>4, <1>5, <2>1 DEF Outstanding
  <2> QED
    BY <1>3, <1>4, <1>5, <2>2 DEF HeldBy, Outstanding
<1>10. \A q \in Id : attempt'[q].gen <= nextGeneration' /\ (q > nextId' => attempt'[q].gen = 0)
  BY <1>1, <1>5 DEF HolderInv, OnceInv, Issued
<1> QED
  BY <1>8, <1>9, <1>10 DEF HolderInv

LEMMA HolderRelease ==
  ASSUME OnceInv, HolderInv, NEW r \in Id, Release(r)
  PROVE  HolderInv'
<1>0. PICK k \in Keys : k = reservations[r].key
  BY Held DEF Release, OnceInv
<1>1. PICK g \in Gen : entries[k].gen = g /\ entries[k].holder = r /\ entries[k].state \in Live
  BY <1>0, Held DEF Release, OnceInv
<1>2. entries \in [Keys -> Slot] /\ attempt \in [Id -> Attempt]
  BY DEF OnceInv, TypeOK, Slot
<1>3. /\ entries'[k].gen = g /\ entries'[k].holder = 0 /\ entries'[k].state = "available"
      /\ \A m \in Keys \ {k} : entries'[m] = entries[m]
  BY <1>0, <1>1, <1>2 DEF Release, Transitioned
<1>4. /\ attempt'[r].gen = attempt[r].gen /\ attempt'[r].returned
      /\ \A q \in Id \ {r} : attempt'[q] = attempt[q]
      /\ UNCHANGED <<nextId, nextGeneration>>
  BY <1>2 DEF Release, Attempt
<1>5. \A q \in Id : Outstanding(q, g) <=> q = r
  BY <1>1 DEF HolderInv, HeldBy
<1>6. HeldBy(entries[k])'
  <2>1. \A q \in Id : ~(attempt'[q].gen = g /\ ~attempt'[q].returned)
    BY <1>4, <1>5 DEF Outstanding
  <2> QED
    BY <1>3, <2>1, Bounds DEF HeldBy, Outstanding
<1>7. ASSUME NEW m \in Keys \ {k} PROVE HeldBy(entries[m])'
  <2>1. CASE entries[m].state \notin Live
    BY <1>3, <2>1 DEF HeldBy
  <2>2. CASE entries[m].state \in Live
    <3>1. entries[m].gen # g /\ HeldBy(entries[m])
      BY <1>1 DEF OnceInv, Distinct, HolderInv
    <3>2. attempt[r].gen = g /\ entries[m].holder # r
      BY <1>5, <2>2, <3>1 DEF HeldBy, Outstanding
    <3> QED
      BY <1>3, <1>4, <2>2, <3>1, <3>2 DEF HeldBy, Outstanding
  <2> QED
    BY <2>1, <2>2
<1>8. \A q \in Id : attempt'[q].gen = attempt[q].gen
  BY <1>4
<1> QED
  BY <1>4, <1>6, <1>7, <1>8 DEF HolderInv

LEMMA HolderAlways == Spec => []HolderInv
<1>1. Init => HolderInv
  BY NoEntryFields DEF Init, NoAttempt, HolderInv, HeldBy
<1>2. OnceInv /\ HolderInv /\ [Next]_vars => HolderInv'
  <2> SUFFICES ASSUME OnceInv, HolderInv, [Next]_vars PROVE HolderInv'
    OBVIOUS
  <2>1. CASE UNCHANGED vars
    BY <2>1 DEF vars, HolderInv, HeldBy, Outstanding
  <2>2. CASE \E s \in Scope, i \in Input, asked \in Time, b \in Bindings : Register(s, i, b, asked)
    BY <2>2, HolderRegister
  <2>3. CASE \E s \in Scope, i \in Input, claim \in Claims : Reserve(s, i, claim)
    BY <2>3, HolderReserve
  <2>4. CASE \E r \in Id : Release(r)
    BY <2>4, HolderRelease
  <2>5. ASSUME UNCHANGED <<attempt, nextId, nextGeneration>>,
               \A k \in Keys : entries'[k].state \in Live => entries'[k] = entries[k]
        PROVE  HolderInv'
    BY <2>5 DEF HolderInv, HeldBy, Outstanding
  <2> QED
    BY <2>1, <2>2, <2>3, <2>4, <2>5, HoldingMoves DEF OnceInv
<1> QED
  BY <1>1, <1>2, OnceAlways, PTL DEF Spec

\* A code is submitted by the one reservation that holds it, made under a claim that
\* its own registration admits.
THEOREM HolderSubmitsHolds == Spec => HolderSubmits
<1> DEFINE Rightful(g) ==
      LET r == spent'[g][Len(spent'[g])]
      IN /\ attempt[r].gen = g /\ ~attempt[r].returned
         /\ \A q \in Id : attempt[q].gen = g /\ ~attempt[q].returned => q = r
         /\ code[g].binding.destination \in {None, attempt[r].claim.destination}
         /\ None \in {code[g].binding.challenge, attempt[r].claim.challenge}
            \/ code[g].binding.challenge = attempt[r].claim.challenge
<1>1. ASSUME OnceInv, BoundInv, HolderInv, [Next]_vars, NEW g \in Gen, Submits(g)
      PROVE  Rightful(g)
  <2>1. PICK r \in Id : /\ Consume(r) /\ entries[reservations[r].key].gen = g
                        /\ spent'[g][Len(spent'[g])] = r
    BY <1>1, SubmitIsConsume
  <2> DEFINE k == reservations[r].key
  <2>2. k \in Keys /\ entries[k].holder = r /\ entries[k].state \in Live
    BY <1>1, <2>1, Held DEF Consume, OnceInv
  <2>3. /\ \A q \in Id : Outstanding(q, g) <=> q = r
        /\ Admits(entries[k].binding, attempt[r].claim)
    BY <1>1, <2>1, <2>2 DEF HolderInv, HeldBy
  <2>4. code[g].binding = entries[k].binding
    BY <1>1, <2>1, <2>2 DEF BoundInv, Bound
  <2> QED
    BY <2>1, <2>3, <2>4 DEF Outstanding, Admits
<1>2. OnceInv /\ BoundInv /\ HolderInv /\ [Next]_vars
        => [\A g \in Gen : Submits(g) => Rightful(g)]_vars
  BY <1>1
<1> QED
  BY <1>2, OnceAlways, BoundAlways, HolderAlways, PTL DEF Spec, HolderSubmits
-----------------------------------------------------------------------------
(* The journal.  A step writes lines about codes that were still held, one    *)
(* for each that it ends, so a code that ended before is not written again.   *)

Unwritten == \A g \in Gen, t \in Final : g > nextGeneration => journal[<<g, t>>] = 0

JournalInv == JournaledOnce /\ Unwritten

\* L is what a step has to write: it is about codes held until then, says one thing
\* of each, and covers every code that the step ends.
Accounts(L) ==
  /\ \A g \in Gen, t \in Final : <<g, t>> \in L =>
       \E k \in Keys : entries[k].state \in Live /\ entries[k].gen = g
  /\ \A g \in Gen, t, u \in Final : <<g, t>> \in L /\ <<g, u>> \in L => t = u
  /\ \A k \in Keys : entries'[k].state \in Ended =>
       /\ entries'[k].gen = entries[k].gen
       /\ entries'[k].state = entries[k].state \/ <<entries[k].gen, entries'[k].state>> \in L
  /\ \A k \in Keys : entries'[k].state \in Live =>
       \/ entries'[k].gen > nextGeneration
       \/ /\ entries[k].state \in Live /\ entries'[k].gen = entries[k].gen
          /\ \A t \in Final : <<entries[k].gen, t>> \notin L

LEMMA JournalStep ==
  ASSUME OnceInv, TypeOK', JournalInv, NEW L, Accounts(L), Journal(L),
         nextGeneration' >= nextGeneration
  PROVE  JournalInv'
<1>0. /\ \A k \in Keys : entries[k] \in Slot /\ entries'[k] \in Slot
      /\ nextGeneration \in Int /\ nextGeneration' \in Int
      /\ journal \in [Gen \X Final -> Nat]
  BY Bounds DEF OnceInv, TypeOK, Slot
<1>1. \A g \in Gen, t \in Final :
        journal'[<<g, t>>] = IF <<g, t>> \in L THEN journal[<<g, t>>] + 1 ELSE journal[<<g, t>>]
  BY DEF Journal
<1>2. ASSUME NEW g \in Gen, NEW t \in Final, <<g, t>> \in L
      PROVE  /\ g <= nextGeneration /\ journal'[<<g, t>>] = 1
             /\ \A u \in Final \ {t} : journal'[<<g, u>>] = 0
             /\ \A k \in Keys : entries[k].gen = g => entries[k].state \in Live
  <2>1. PICK k \in Keys : entries[k].state \in Live /\ entries[k].gen = g
    BY <1>2 DEF Accounts
  <2>2. \A u \in Final : journal[<<g, u>>] = 0
    BY <2>1 DEF JournalInv, JournaledOnce
  <2>3. \A u \in Final \ {t} : <<g, u>> \notin L
    BY <1>2 DEF Accounts
  <2>4. g <= nextGeneration
    BY <2>1 DEF OnceInv, Issued
  <2>5. \A m \in Keys : entries[m].gen = g => m = k
    BY <2>1, Bounds DEF OnceInv, Distinct
  <2> QED
    BY <1>1, <1>2, <2>1, <2>2, <2>3, <2>4, <2>5
<1>3. \A g \in Gen, t \in Final : g > nextGeneration => <<g, t>> \notin L
  <2> SUFFICES ASSUME NEW g \in Gen, NEW t \in Final, <<g, t>> \in L
               PROVE  ~(g > nextGeneration)
    OBVIOUS
  <2>1. g \in Int
    OBVIOUS
  <2>2. g <= nextGeneration
    BY <1>2
  <2> QED
    BY <1>0, <2>1, <2>2
<1>4. ASSUME NEW g \in Gen, \A t \in Final : <<g, t>> \notin L
      PROVE  \A t \in Final : journal'[<<g, t>>] = journal[<<g, t>>]
  BY <1>1, <1>4
<1>5. Unwritten'
  <2> SUFFICES ASSUME NEW g \in Gen, NEW t \in Final, g > nextGeneration'
               PROVE  journal'[<<g, t>>] = 0
    BY DEF Unwritten
  <2>1. g \in Int /\ g > nextGeneration
    BY <1>0
  <2>2. <<g, t>> \notin L
    BY <1>3, <2>1
  <2>3. journal[<<g, t>>] = 0
    BY <2>1 DEF JournalInv, Unwritten
  <2> QED
    BY <1>1, <2>2, <2>3
<1>6. ASSUME NEW g \in Gen, NEW t \in Final, NEW u \in Final,
             journal'[<<g, t>>] > 0, journal'[<<g, u>>] > 0
      PROVE  t = u /\ journal'[<<g, t>>] = 1
  <2>1. CASE \E v \in Final : <<g, v>> \in L
    <3>1. PICK v \in Final : <<g, v>> \in L
      BY <2>1
    <3>2. journal'[<<g, v>>] = 1 /\ \A w \in Final \ {v} : journal'[<<g, w>>] = 0
      BY <1>2, <3>1
    <3>3. t = v /\ u = v
      BY <1>6, <3>2
    <3> QED
      BY <3>2, <3>3
  <2>2. CASE \A v \in Final : <<g, v>> \notin L
    BY <1>4, <1>6, <2>2 DEF JournalInv, JournaledOnce
  <2> QED
    BY <2>1, <2>2
<1>7. ASSUME NEW k \in Keys, entries'[k].state \in Ended
      PROVE  journal'[<<entries'[k].gen, entries'[k].state>>] = 1
  <2>1. PICK g \in Gen : g = entries[k].gen /\ entries'[k].gen = g
    BY <1>0, <1>7, SlotFields DEF Accounts
  <2>2. PICK t \in Ended : t = entries'[k].state
    BY <1>7
  <2>3. CASE <<g, t>> \in L
    BY <1>2, <2>1, <2>2, <2>3
  <2>4. CASE <<g, t>> \notin L
    <3>1. entries[k].state = t /\ t \notin Live
      BY <1>7, <2>1, <2>2, <2>4 DEF Accounts
    <3>2. \A v \in Final : <<g, v>> \notin L
      BY <1>2, <2>1, <3>1
    <3>3. t \in Final /\ entries[k].state \in Ended
      BY <2>2, <3>1 DEF Ended, Final
    <3>4. journal[<<g, t>>] = 1
      BY <2>1, <3>1, <3>3 DEF JournalInv, JournaledOnce
    <3>5. journal'[<<g, t>>] = journal[<<g, t>>]
      BY <1>4, <3>2, <3>3
    <3> QED
      BY <2>1, <2>2, <3>4, <3>5
  <2> QED
    BY <2>3, <2>4
<1>8. ASSUME NEW k \in Keys, entries'[k].state \in Live, NEW t \in Final
      PROVE  journal'[<<entries'[k].gen, t>>] = 0
  <2>1. PICK g \in Gen : g = entries'[k].gen
    BY <1>0, <1>8, SlotFields
  <2>2. CASE g > nextGeneration
    <3>1. \A u \in Final : <<g, u>> \notin L
      BY <1>3, <2>2
    <3> QED
      BY <1>4, <2>1, <2>2, <3>1 DEF JournalInv, Unwritten
  <2>3. CASE ~(g > nextGeneration)
    <3>1. /\ entries[k].state \in Live /\ g = entries[k].gen
          /\ \A u \in Final : <<g, u>> \notin L
      BY <1>8, <2>1, <2>3 DEF Accounts
    <3>2. journal[<<entries[k].gen, t>>] = 0
      BY <3>1 DEF JournalInv, JournaledOnce
    <3>3. journal'[<<g, t>>] = journal[<<g, t>>]
      BY <1>4, <3>1
    <3> QED
      BY <2>1, <3>1, <3>2, <3>3
  <2> QED
    BY <2>2, <2>3
<1>9. JournaledOnce'
  BY <1>6, <1>7, <1>8 DEF JournaledOnce
<1> QED
  BY <1>5, <1>9 DEF JournalInv

\* The lines of a sweep are about what it expires.
LEMMA SweepLines ==
  ASSUME NEW K, NEW g, NEW t
  PROVE  <<g, t>> \in Lines(K) <=>
           \E k \in K : Due(entries[k]) /\ entries[k].gen = g /\ t = "expired"
  BY DEF Lines

\* Sweeping, and retiring one code or none.
LEMMA RetiringAccounts ==
  ASSUME OnceInv, NEW k \in Keys, NEW Gone \in SUBSET {k},
         \A m \in Keys \ Gone : /\ entries'[m].gen = Swept[m].gen
                              /\ \/ entries'[m].state = Swept[m].state
                                 \/ {entries'[m].state, Swept[m].state} \subseteq Live,
         \A m \in Gone : \/ entries'[m].state = "absent"
                         \/ entries'[m].state = "available" /\ entries'[m].gen > nextGeneration
  PROVE  Accounts(Lines(Keys) \cup (IF Gone = {} THEN {} ELSE RetiredLines(k)))
<1> DEFINE L == Lines(Keys) \cup (IF Gone = {} THEN {} ELSE RetiredLines(k))
<1>1. entries \in [Keys -> Slot]
  BY DEF OnceInv, TypeOK, Slot
<1>2. \A m \in Keys : /\ Swept[m] = Expire(entries[m]) /\ Swept[m].gen = entries[m].gen
                      /\ Due(entries[m]) => entries[m].state \in Live /\ Swept[m].state = "expired"
                      /\ ~Due(entries[m]) => Swept[m] = entries[m]
                      /\ Swept[m].state \in Live => ~Due(entries[m])
  BY <1>1, SweptType, ExpireEntry
<1>3. \A g, t : <<g, t>> \in L <=>
        \/ \E m \in Keys : Due(entries[m]) /\ entries[m].gen = g /\ t = "expired"
        \/ /\ Gone # {} /\ ~Due(entries[k]) /\ entries[k].state \in Live
           /\ g = entries[k].gen /\ t = "superseded"
  <2>1. \A g, t : <<g, t>> \in RetiredLines(k) <=>
          ~Due(entries[k]) /\ entries[k].state \in Live /\ g = entries[k].gen /\ t = "superseded"
    <3>1. Swept[k].state \in Live <=> ~Due(entries[k]) /\ entries[k].state \in Live
      BY <1>2
    <3> QED
      BY <1>2, <3>1 DEF RetiredLines
  <2>2. \A g, t : <<g, t>> \in Lines(Keys) <=>
          \E m \in Keys : Due(entries[m]) /\ entries[m].gen = g /\ t = "expired"
    BY SweepLines
  <2>3. CASE Gone = {}
    BY <2>2, <2>3
  <2>4. CASE Gone # {}
    BY <2>1, <2>2, <2>4
  <2> QED
    BY <2>3, <2>4
<1> HIDE DEF L
<1>4. \A m, n \in Keys : entries[m].gen = entries[n].gen /\ entries[m].state \in Live => m = n
  BY <1>1, SlotFields DEF OnceInv, Distinct
<1>5. \A g \in Gen, t \in Final : <<g, t>> \in L =>
        \E m \in Keys : entries[m].state \in Live /\ entries[m].gen = g
  BY <1>2, <1>3
<1>6. \A g \in Gen, t, u \in Final : <<g, t>> \in L /\ <<g, u>> \in L => t = u
  BY <1>2, <1>3, <1>4
<1>7. ASSUME NEW m \in Keys, entries'[m].state \in Ended
      PROVE  /\ entries'[m].gen = entries[m].gen
             /\ entries'[m].state = entries[m].state \/ <<entries[m].gen, entries'[m].state>> \in L
  <2>1. m \notin Gone /\ entries'[m].gen = Swept[m].gen /\ entries'[m].state = Swept[m].state
    BY <1>7
  <2> QED
    BY <1>2, <1>3, <2>1
<1>8. ASSUME NEW m \in Keys, entries'[m].state \in Live
      PROVE  \/ entries'[m].gen > nextGeneration
             \/ /\ entries[m].state \in Live /\ entries'[m].gen = entries[m].gen
                /\ \A t \in Final : <<entries[m].gen, t>> \notin L
  <2>1. CASE m \in Gone
    BY <1>8, <2>1
  <2>2. CASE m \notin Gone
    <3>1. entries'[m].gen = entries[m].gen /\ ~Due(entries[m]) /\ entries[m].state \in Live
      BY <1>2, <1>8, <2>2
    <3> QED
      BY <1>3, <1>4, <2>2, <3>1
  <2> QED
    BY <2>1, <2>2
<1>9. Accounts(L)
  BY <1>5, <1>6, <1>7, <1>8 DEF Accounts
<1> QED
  BY <1>9 DEF L
\* Ending one code that is held.
LEMMA EndingAccounts ==
  ASSUME OnceInv, NEW k \in Keys, entries[k].state \in Live, NEW t \in Ended,
         entries' = [entries EXCEPT ![k] = Transitioned(entries[k], t, 0)]
  PROVE  Accounts({<<entries[k].gen, t>>})
<1>1. entries \in [Keys -> Slot]
  BY DEF OnceInv, TypeOK, Slot
<1>2. /\ entries'[k].gen = entries[k].gen /\ entries'[k].state = t
      /\ \A m \in Keys \ {k} : entries'[m] = entries[m]
  BY <1>1 DEF Transitioned
<1>3. \A m \in Keys \ {k} : entries[m].gen # entries[k].gen
  BY <1>1, SlotFields DEF OnceInv, Distinct
<1> QED
  BY <1>2, <1>3 DEF Accounts

\* Expiring one code, if it is due.
LEMMA TouchingAccounts ==
  ASSUME OnceInv, NEW k \in Keys, Due(entries[k]),
         entries' = [entries EXCEPT ![k] = Expire(entries[k])]
  PROVE  Accounts(Lines({k}))
<1>1. Lines({k}) = {<<entries[k].gen, "expired">>}
  BY DEF Lines
<1>2. entries[k].state \in Live /\ Expire(entries[k]) = Transitioned(entries[k], "expired", 0)
  BY DEF Due, Expire
<1> QED
  BY <1>1, <1>2, EndingAccounts

\* A step that ends nothing and writes nothing.
LEMMA JournalFrame ==
  ASSUME JournalInv, journal' = journal, nextGeneration' = nextGeneration,
         \A k \in Keys : \/ entries'[k].state \notin Live \cup Ended
                         \/ /\ entries'[k].gen = entries[k].gen
                            /\ \/ entries'[k].state = entries[k].state
                               \/ {entries'[k].state, entries[k].state} \subseteq Live
  PROVE  JournalInv'
  BY DEF JournalInv, JournaledOnce, Unwritten

LEMMA JournalAsked ==
  ASSUME OnceInv, TypeOK', JournalInv, NEW s \in Scope, NEW i \in Input, Asked(s, i)
  PROVE  JournalInv'
<1> DEFINE k == Key(s, i)
<1>1. k \in Keys /\ entries \in [Keys -> Slot] /\ nextGeneration \in Int
  BY KeyType, Bounds DEF OnceInv, TypeOK, Slot
<1>2. Swept \in [Keys -> Slot]
  BY <1>1, SweptType
<1>3. ASSUME NEW asked \in Time, RegisterRefused(s, i, asked) PROVE JournalInv'
  <2> DEFINE L == Lines(Keys) \cup (IF {k} = {} THEN {} ELSE RetiredLines(k))
  <2>0. L = Lines(Keys) \cup RetiredLines(k)
    OBVIOUS
  <2>1. Journal(L) /\ nextGeneration' >= nextGeneration
    BY <1>1, <1>3, <2>0 DEF RegisterRefused
  <2>2. entries'[k].state = "absent" /\ \A m \in Keys \ {k} : entries'[m] = Swept[m]
    BY <1>1, <1>2, <1>3, NoEntryFields DEF RegisterRefused, Retired
  <2>3. Accounts(L)
    BY <1>1, <2>2, RetiringAccounts
  <2> QED
    BY <2>1, <2>3, JournalStep
<1>4. ASSUME NEW asked \in Time, NEW b \in Bindings, Register(s, i, b, asked) PROVE JournalInv'
  <2> DEFINE L == Lines(Keys) \cup (IF {k} = {} THEN {} ELSE RetiredLines(k))
  <2>0. L = Lines(Keys) \cup RetiredLines(k)
    OBVIOUS
  <2>1. Journal(L)
    BY <1>4, <2>0 DEF Register
  <2>2. /\ entries'[k].state = "available" /\ entries'[k].gen > nextGeneration
        /\ \A m \in Keys \ {k} : entries'[m] = Swept[m]
    BY <1>1, <1>2, <1>4 DEF Register, Retired
  <2>3. Accounts(L)
    BY <1>1, <2>2, RetiringAccounts
  <2>4. nextGeneration' >= nextGeneration
    BY <1>1, <1>4 DEF Register
  <2> QED
    BY <2>1, <2>3, <2>4, JournalStep
<1>5. ASSUME NEW claim \in Claims, Reserve(s, i, claim) \/ ReserveRefused(s, i, claim)
      PROVE  JournalInv'
  <2>1. Journal(Lines(Keys) \cup (IF {} = {} THEN {} ELSE RetiredLines(k)))
        /\ nextGeneration' >= nextGeneration
    BY <1>1, <1>5 DEF Reserve, ReserveRefused
  <2>2. \A m \in Keys : /\ entries'[m].gen = Swept[m].gen
                        /\ \/ entries'[m].state = Swept[m].state
                           \/ {entries'[m].state, Swept[m].state} \subseteq Live
    BY <1>1, <1>2, <1>5 DEF Reserve, Claimable, ReserveRefused, Transitioned
  <2>3. Accounts(Lines(Keys) \cup (IF {} = {} THEN {} ELSE RetiredLines(k)))
    BY <1>1, <2>2, RetiringAccounts
  <2> QED
    BY <2>1, <2>3, JournalStep
<1>6. CASE Cancel(s, i)
  <2>1. Accounts({<<entries[k].gen, "cancelled">>})
    BY <1>1, <1>6, EndingAccounts DEF Cancel
  <2> QED
    BY <1>1, <1>6, <2>1, JournalStep DEF Cancel
<1>7. CASE Touch(s, i)
  <2>1. Accounts(Lines({k}))
    BY <1>1, <1>7, TouchingAccounts DEF Touch
  <2> QED
    BY <1>1, <1>7, <2>1, JournalStep DEF Touch
<1> QED
  BY <1>3, <1>4, <1>5, <1>6, <1>7 DEF Asked

LEMMA JournalHolder ==
  ASSUME OnceInv, TypeOK', JournalInv, NEW r \in Id, Consume(r) \/ Release(r) \/ HolderRefused(r)
  PROVE  JournalInv'
<1>1. nextGeneration' = nextGeneration /\ nextGeneration \in Int /\ entries \in [Keys -> Slot]
  <2>1. nextGeneration' = nextGeneration
    BY DEF Consume, Release, HolderRefused
  <2>2. nextGeneration \in Int /\ entries \in [Keys -> Slot]
    BY Bounds DEF OnceInv, TypeOK, Slot
  <2> QED
    BY <2>1, <2>2
<1>2. CASE Consume(r)
  <2>1. PICK k \in Keys : k = reservations[r].key /\ entries[k].state \in Live
    BY <1>2, Held DEF Consume, OnceInv
  <2>2. Accounts({<<entries[k].gen, "consumed">>})
    BY <1>2, <2>1, EndingAccounts DEF Consume
  <2> QED
    BY <1>1, <1>2, <2>1, <2>2, JournalStep DEF Consume
<1>3. CASE Release(r)
  <2>1. PICK k \in Keys : k = reservations[r].key /\ entries[k].state \in Live
    BY <1>3, Held DEF Release, OnceInv
  <2>2. /\ entries'[k].gen = entries[k].gen /\ entries'[k].state = "available"
        /\ \A m \in Keys \ {k} : entries'[m] = entries[m]
        /\ journal' = journal
    BY <1>1, <1>3, <2>1 DEF Release, Transitioned
  <2> QED
    BY <1>1, <2>1, <2>2, JournalFrame
<1>4. CASE HolderRefused(r)
  <2>1. CASE ~Resolves(r)
    BY <1>1, <1>4, <2>1, JournalFrame DEF HolderRefused
  <2>2. CASE Resolves(r)
    <3>1. PICK k \in Keys : k = reservations[r].key
      BY <2>2 DEF Resolves, OnceInv, TypeOK, Index
    <3>2. entries' = [entries EXCEPT ![k] = Expire(entries[k])] /\ Journal(Lines({k}))
      BY <1>4, <2>2, <3>1 DEF HolderRefused
    <3>3. CASE Due(entries[k])
      <4>1. Accounts(Lines({k}))
        BY <3>2, <3>3, TouchingAccounts
      <4>2. nextGeneration' >= nextGeneration
        BY <1>1
      <4> QED
        BY <3>2, <4>1, <4>2, JournalStep
    <3>4. CASE ~Due(entries[k])
      <4>1. Lines({k}) = {} /\ entries' = entries
        BY <1>1, <3>2, <3>4 DEF Lines, Expire
      <4>2. journal' = journal
        BY <3>2, <4>1 DEF Journal, OnceInv, TypeOK
      <4> QED
        BY <1>1, <4>1, <4>2, JournalFrame
    <3> QED
      BY <3>3, <3>4
  <2> QED
    BY <2>1, <2>2
<1> QED
  BY <1>2, <1>3, <1>4

LEMMA JournalTable ==
  ASSUME OnceInv, TypeOK', JournalInv, Tick \/ Sweep \/ \E s \in Scope : Retire(s)
  PROVE  JournalInv'
<1>1. CASE Tick
  BY <1>1, JournalFrame DEF Tick
<1>2. CASE Sweep
  <2>1. PICK k \in Keys : Due(entries[k])
    BY <1>2 DEF Sweep
  <2>2. Accounts(Lines(Keys) \cup (IF {} = {} THEN {} ELSE RetiredLines(k)))
    BY <1>2, RetiringAccounts DEF Sweep
  <2>3. Lines(Keys) \cup (IF {} = {} THEN {} ELSE RetiredLines(k)) = Lines(Keys)
    OBVIOUS
  <2>4. Journal(Lines(Keys)) /\ nextGeneration' >= nextGeneration
    BY <1>2, Bounds DEF Sweep, OnceInv, TypeOK
  <2> QED
    BY <2>2, <2>3, <2>4, JournalStep
<1>3. ASSUME NEW s \in Scope, Retire(s) PROVE JournalInv'
  <2>1. \A k \in Keys : entries'[k].state = "absent" \/ entries'[k] = entries[k]
    BY <1>3, NoEntryFields DEF Retire, Kept
  <2> QED
    BY <1>3, <2>1, JournalFrame DEF Retire
<1> QED
  BY <1>1, <1>2, <1>3

\* The journal has at most one final line for each code, whoever finds it due, and
\* has it as soon as the table says that the code ended.
THEOREM JournaledOnceHolds == Spec => []JournaledOnce
<1>1. Init => JournalInv
  BY NoEntryFields DEF Init, JournalInv, JournaledOnce, Unwritten
<1>2. OnceInv /\ TypeOK' /\ JournalInv /\ [Next]_vars => JournalInv'
  <2> SUFFICES ASSUME OnceInv, TypeOK', JournalInv, [Next]_vars PROVE JournalInv'
    OBVIOUS
  <2>1. CASE UNCHANGED vars
    BY <2>1, JournalFrame DEF vars
  <2> QED
    BY <2>1, NextCases, JournalAsked, JournalHolder, JournalTable DEF OnceInv
<1>3. JournalInv => JournaledOnce
  BY DEF JournalInv
<1> QED
  BY <1>1, <1>2, <1>3, OnceAlways, TypeCorrect, PTL DEF Spec
=============================================================================
