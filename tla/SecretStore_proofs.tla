------------------------- MODULE SecretStore_proofs -------------------------
(***************************************************************************)
(* Proofs about SecretStore, for any secrets, origins, documents, records, *)
(* threads and bounds.                                                     *)
(***************************************************************************)
EXTENDS SecretStore, TLAPS

USE DEF lockVars, diskVars, Parts, Penned

TypeOK ==
  /\ mem \in [Parts -> SUBSET Item]
  /\ status \in [Parts -> {"loaded", "unavailable", "unknown"}]
  /\ dirty \in BOOLEAN /\ inFlight \in BOOLEAN
  /\ guard \in Thread \cup {None} /\ pen \in [Penned -> Thread \cup {None}]
  /\ call \in [Thread -> Call \cup {None}]
  /\ file \in [Parts -> File] /\ older \in [Parts -> SUBSET File] /\ saved \in SUBSET Item
  /\ opened \in [times : 0..MaxOpen, now : BOOLEAN] /\ calls \in 0..MaxCalls
  /\ ghost \in [acked : SUBSET Id, gone : SUBSET Id, given : SUBSET Doc]

\* Who works on a partition, and at which of its steps it has the file to itself.
Writers(p) == {t \in Thread : call[t] # None /\ call[t].part = p}
Holding == {"locked", "publish", "sync"}

\* What a call in progress is: the operation and the step it is at belong to its
\* partition, and it holds the lock that goes with the step.
Fits(t) ==
  call[t] # None =>
    /\ call[t].part = "provisioned" => call[t].op \in {"store", "delete"} /\ call[t].items \subseteq Id
    /\ call[t].part = "captured" => call[t].op \in {"capture", "defer", "clear", "flush"}
    /\ call[t].part = "oauth" => call[t].op \in {"write", "take", "delete"} /\ call[t].items \subseteq Doc
    /\ call[t].part = "oauth" => guard = t
    /\ call[t].at = "mark" => call[t].part = "captured" /\ call[t].op # "flush"
    /\ call[t].at \in {"commit", "settle"} <=> call[t].part = "oauth"
    /\ call[t].at \in Holding => pen[call[t].part] = t

\* Calls end with the process.
CallsInv ==
  /\ ~opened.now => guard = None /\ \A t \in Thread : call[t] = None
  /\ \A t \in Thread : Fits(t)

LEMMA Bounds == MaxRecords \in Nat /\ MaxOpen \in Nat /\ MaxCalls \in Nat /\ None \notin Thread
  BY SecretStoreAssumption

LEMMA CallFields ==
  ASSUME TypeOK, NEW t \in Thread, call[t] # None
  PROVE  /\ call[t] \in Call
         /\ call[t].op \in Ops /\ call[t].at \in Step /\ call[t].part \in Parts
         /\ call[t].items \in SUBSET Item /\ call[t].snap \in SUBSET Item
<1>1. call[t] \in Call
  BY DEF TypeOK
<1> QED
  BY <1>1 DEF Call

\* A thread that goes on, ends or begins changes its own call and no other.
Went(t, s) ==
  /\ call' \in [Thread -> Call \cup {None}] /\ calls' = calls
  /\ call'[t] # None /\ call'[t].at = s /\ call'[t].op = call[t].op
  /\ call'[t].part = call[t].part /\ call'[t].items = call[t].items
  /\ call'[t].snap = call[t].snap
  /\ \A w \in Thread \ {t} : call'[w] = call[w]

LEMMA AtType ==
  ASSUME TypeOK, NEW t \in Thread, call[t] # None, NEW s \in Step, At(t, s)
  PROVE  Went(t, s)
<1>1. call[t] \in Call
  BY CallFields
<1>2. [call[t] EXCEPT !.at = s] \in Call
  BY <1>1 DEF Call
<1>3. call' = [call EXCEPT ![t] = [call[t] EXCEPT !.at = s]] /\ calls' = calls
  BY DEF At
<1>4. call'[t] = [call[t] EXCEPT !.at = s]
  BY <1>3 DEF TypeOK
<1>5. call'[t] # None
  BY <1>2, <1>4, NoneAssumption
<1>6. /\ call'[t].at = s /\ call'[t].op = call[t].op
      /\ call'[t].part = call[t].part /\ call'[t].items = call[t].items
      /\ call'[t].snap = call[t].snap
  BY <1>1, <1>4 DEF Call
<1>7. call' \in [Thread -> Call \cup {None}] /\ \A w \in Thread \ {t} : call'[w] = call[w]
  BY <1>2, <1>3 DEF TypeOK
<1> QED
  BY <1>3, <1>5, <1>6, <1>7 DEF Went

\* The snapshot of a map is taken with the file's lock held.
Shot(t) ==
  /\ call' \in [Thread -> Call \cup {None}] /\ calls' = calls
  /\ call'[t] # None /\ call'[t].at = "publish" /\ call'[t].op = call[t].op
  /\ call'[t].part = call[t].part /\ call'[t].items = call[t].items
  /\ call'[t].snap = mem[call[t].part]
  /\ \A w \in Thread \ {t} : call'[w] = call[w]

LEMMA ShotType ==
  ASSUME TypeOK, NEW t \in Thread, call[t] # None, calls' = calls,
         call' = [call EXCEPT ![t] = [call[t] EXCEPT !.at = "publish", !.snap = mem[call[t].part]]]
  PROVE  Shot(t)
<1> DEFINE c == [call[t] EXCEPT !.at = "publish", !.snap = mem[call[t].part]]
<1>1. call[t] \in Call /\ mem[call[t].part] \in SUBSET Item
  BY CallFields DEF TypeOK
<1>2. c \in Call
  BY <1>1 DEF Call, Step
<1>3. call'[t] = c
  BY DEF TypeOK
<1>4. c # None
  BY <1>2, NoneAssumption
<1>5. /\ c.at = "publish" /\ c.op = call[t].op /\ c.part = call[t].part
      /\ c.items = call[t].items /\ c.snap = mem[call[t].part]
  BY <1>1 DEF Call
<1>6. call' \in [Thread -> Call \cup {None}] /\ \A w \in Thread \ {t} : call'[w] = call[w]
  BY <1>2 DEF TypeOK
<1> QED
  BY <1>3, <1>4, <1>5, <1>6 DEF Shot

LEMMA DoneType ==
  ASSUME TypeOK, NEW t \in Thread, Done(t)
  PROVE  /\ call' \in [Thread -> Call \cup {None}] /\ calls' = calls
         /\ call'[t] = None /\ \A w \in Thread \ {t} : call'[w] = call[w]
  BY DEF Done, TypeOK

Begun(t, op, at, p, items, snap) ==
  /\ call' \in [Thread -> Call \cup {None}] /\ calls' \in 0..MaxCalls
  /\ call'[t] # None /\ call'[t].at = at /\ call'[t].op = op
  /\ call'[t].part = p /\ call'[t].items = items /\ call'[t].snap = snap
  /\ \A w \in Thread \ {t} : call'[w] = call[w]

LEMMA BeginType ==
  ASSUME TypeOK, NEW t \in Thread, NEW op \in Ops, NEW at \in Step, NEW p \in Parts,
         NEW items \in SUBSET Item, NEW snap \in SUBSET Item, Begin(t, op, at, p, items, snap)
  PROVE  Begun(t, op, at, p, items, snap)
<1> DEFINE c == [op |-> op, at |-> at, part |-> p, items |-> items, snap |-> snap]
<1>1. c \in Call
  BY DEF Call
<1>2. call' = [call EXCEPT ![t] = c]
  BY DEF Begin
<1>3. c # None
  BY <1>1, NoneAssumption
<1>4. call'[t] = c
  BY <1>2 DEF TypeOK
<1>5. calls' \in 0..MaxCalls
  BY Bounds DEF Begin, TypeOK
<1>6. call' \in [Thread -> Call \cup {None}] /\ \A w \in Thread \ {t} : call'[w] = call[w]
  BY <1>1, <1>2 DEF TypeOK
<1> QED
  BY <1>3, <1>4, <1>5, <1>6 DEF Begun

LEMMA RenamedType ==
  ASSUME TypeOK, NEW p \in Parts, NEW content \in SUBSET Item, Renamed(p, content)
  PROVE  /\ file' \in [Parts -> File] /\ older' \in [Parts -> SUBSET File]
         /\ file'[p].holds = content /\ Files(p)' = Files(p) \cup {file'[p]}
         /\ \A q \in Parts \ {p} : file'[q] = file[q] /\ older'[q] = older[q]
<1>1. [holds |-> content, readable |-> TRUE] \in File
  BY DEF File
<1>2. Files(p) \in SUBSET File
  BY DEF Files, TypeOK
<1>3. file' \in [Parts -> File] /\ file'[p].holds = content
  BY <1>1 DEF Renamed, TypeOK
<1>4. older' \in [Parts -> SUBSET File] /\ older'[p] = Files(p)
  BY <1>2 DEF Renamed, TypeOK
<1>5. \A q \in Parts \ {p} : file'[q] = file[q] /\ older'[q] = older[q]
  BY DEF Renamed, TypeOK
<1> QED
  BY <1>3, <1>4, <1>5 DEF Files

LEMMA DirSyncedType ==
  ASSUME TypeOK, NEW p \in Parts, DirSynced(p)
  PROVE  /\ older' \in [Parts -> SUBSET File] /\ older'[p] = {}
         /\ \A q \in Parts \ {p} : older'[q] = older[q]
  BY DEF DirSynced, TypeOK

-----------------------------------------------------------------------------
(* Type correctness, and the calls in progress *)

LEMMA TypeInit == Init => TypeOK /\ CallsInv
<1> SUFFICES ASSUME Init PROVE TypeOK /\ CallsInv
  OBVIOUS
<1>1. TypeOK
  <2>1. mem \in [Parts -> SUBSET Item] /\ older \in [Parts -> SUBSET File] /\ saved \in SUBSET Item
    BY DEF Init
  <2>2. file \in [Parts -> File]
    BY DEF Init, Empty, File
  <2>3. opened \in [times : 0..MaxOpen, now : BOOLEAN] /\ calls \in 0..MaxCalls
    BY Bounds DEF Init
  <2>4. call \in [Thread -> Call \cup {None}] /\ pen \in [Penned -> Thread \cup {None}]
    BY DEF Init
  <2>5. ghost \in [acked : SUBSET Id, gone : SUBSET Id, given : SUBSET Doc]
    BY DEF Init, GhostInit
  <2> QED
    BY <2>1, <2>2, <2>3, <2>4, <2>5 DEF Init, TypeOK
<1>2. CallsInv
  BY DEF Init, CallsInv, Fits
<1> QED
  BY <1>1, <1>2

\* One thread moves: the others keep their calls and their locks.
LEMMA OneMoves ==
  ASSUME TypeOK, CallsInv, NEW t \in Thread, opened.now, opened' = opened, Fits(t)',
         \A w \in Thread \ {t} :
           /\ call'[w] = call[w]
           /\ guard = w => guard' = w
           /\ \A p \in Penned : pen[p] = w => pen'[p] = w
  PROVE  CallsInv'
<1>1. ASSUME NEW w \in Thread \ {t} PROVE Fits(w)'
  <2> SUFFICES ASSUME call[w] # None PROVE Fits(w)'
    BY DEF Fits
  <2>1. Fits(w) /\ call'[w] = call[w] /\ call[w].part \in Parts
    BY CallFields DEF CallsInv
  <2>2. call[w].at \in Holding => call[w].part \in Penned
    BY <2>1 DEF Fits, Holding
  <2> QED
    BY <2>1, <2>2 DEF Fits
<1> QED
  BY <1>1 DEF CallsInv

\* What a change of the provisioned or captured map does.
ChangedMap(t, op, at, p, content, items) ==
  /\ mem' \in [Parts -> SUBSET Item] /\ mem'[p] = content
  /\ \A q \in Parts \ {p} : mem'[q] = mem[q]
  /\ Begun(t, op, at, p, items, {})
  /\ UNCHANGED <<status, dirty, inFlight, guard, pen, file, older, saved, opened>>
  /\ opened.now /\ guard = None /\ call[t] = None

LEMMA Changes ==
  ASSUME TypeOK, CallsInv, NEW t \in Thread, NEW op \in Ops, NEW at \in {"mark", "persist"},
         NEW p \in Penned, NEW content \in SUBSET Item, NEW items \in SUBSET Item,
         Changed(t, op, at, p, content, items),
         p = "provisioned" => op \in {"store", "delete"} /\ at = "persist" /\ items \subseteq Id,
         p = "captured" => op \in {"capture", "defer", "clear"}
  PROVE  ChangedMap(t, op, at, p, content, items) /\ CallsInv'
<1>1. p \in Parts /\ at \in Step
  BY DEF Step
<1>2. Begin(t, op, at, p, items, {}) /\ {} \in SUBSET Item
  BY DEF Changed
<1>3. Begun(t, op, at, p, items, {})
  BY <1>1, <1>2, BeginType
<1>4. /\ mem' \in [Parts -> SUBSET Item] /\ mem'[p] = content
      /\ \A q \in Parts \ {p} : mem'[q] = mem[q]
  BY <1>1 DEF Changed, TypeOK
<1>5. /\ UNCHANGED <<status, dirty, inFlight, guard, pen, file, older, saved, opened>>
      /\ opened.now /\ guard = None /\ call[t] = None
  BY DEF Changed, Free
<1>6. Fits(t)'
  BY <1>3 DEF Fits, Holding, Begun
<1>7. CallsInv'
  BY <1>3, <1>5, <1>6, OneMoves DEF Begun
<1> QED
  BY <1>3, <1>4, <1>5, <1>7 DEF ChangedMap

\* Changes of the provisioned map, as one.
LEMMA ProvisionedChange ==
  ASSUME TypeOK, CallsInv, NEW t \in Thread, NEW i \in Id,
         StoreProvisioned(t, i) \/ DeleteProvisioned(t, i)
  PROVE  /\ \E op \in {"store", "delete"}, content \in SUBSET Item :
              ChangedMap(t, op, "persist", "provisioned", content, {i})
         /\ ghost' \in [acked : SUBSET Id, gone : SUBSET Id, given : SUBSET Doc]
         /\ CallsInv'
<1> USE DEF Item, Ops
<1>1. CASE StoreProvisioned(t, i)
  <2>1. mem["provisioned"] \cup {i} \in SUBSET Item
    BY DEF TypeOK
  <2>2. Changed(t, "store", "persist", "provisioned", mem["provisioned"] \cup {i}, {i})
    BY <1>1 DEF StoreProvisioned
  <2>3. ChangedMap(t, "store", "persist", "provisioned", mem["provisioned"] \cup {i}, {i}) /\ CallsInv'
    BY <2>1, <2>2, Changes
  <2>4. ghost' \in [acked : SUBSET Id, gone : SUBSET Id, given : SUBSET Doc]
    BY <1>1 DEF StoreProvisioned, TypeOK
  <2> QED
    BY <2>1, <2>3, <2>4
<1>2. CASE DeleteProvisioned(t, i)
  <2>1. mem["provisioned"] \ {i} \in SUBSET Item
    BY DEF TypeOK
  <2>2. Changed(t, "delete", "persist", "provisioned", mem["provisioned"] \ {i}, {i})
    BY <1>2 DEF DeleteProvisioned
  <2>3. ChangedMap(t, "delete", "persist", "provisioned", mem["provisioned"] \ {i}, {i}) /\ CallsInv'
    BY <2>1, <2>2, Changes
  <2>4. ghost' \in [acked : SUBSET Id, gone : SUBSET Id, given : SUBSET Doc]
    BY <1>2 DEF DeleteProvisioned, TypeOK
  <2> QED
    BY <2>1, <2>3, <2>4
<1> QED
  BY <1>1, <1>2

\* Changes of the captured map, as one.
LEMMA CapturedChange ==
  ASSUME TypeOK, CallsInv, NEW t \in Thread,
         (\E o \in Origin : StoreCaptured(t, o)) \/ ClearCaptured(t)
  PROVE  /\ \E op \in {"capture", "defer", "clear"}, at \in {"mark", "persist"}, content \in SUBSET Item :
              ChangedMap(t, op, at, "captured", content, {})
         /\ ghost' = ghost /\ CallsInv'
<1> USE DEF Item, Ops
<1>1. ASSUME NEW o \in Origin, StoreCaptured(t, o)
      PROVE  \E op \in {"capture", "defer", "clear"}, at \in {"mark", "persist"}, content \in SUBSET Item :
               ChangedMap(t, op, at, "captured", content, {}) /\ CallsInv'
  <2>1. PICK op \in {"capture", "defer"} : Changed(t, op, "mark", "captured", mem["captured"] \cup {o}, {})
    BY <1>1 DEF StoreCaptured
  <2>2. mem["captured"] \cup {o} \in SUBSET Item
    BY DEF TypeOK
  <2>3. ChangedMap(t, op, "mark", "captured", mem["captured"] \cup {o}, {}) /\ CallsInv'
    BY <2>1, <2>2, Changes
  <2> QED
    BY <2>2, <2>3
<1>2. ASSUME ClearCaptured(t)
      PROVE  \E op \in {"capture", "defer", "clear"}, at \in {"mark", "persist"}, content \in SUBSET Item :
               ChangedMap(t, op, at, "captured", content, {}) /\ CallsInv'
  <2>1. PICK cleared : Changed(t, "clear", "persist", "captured", mem["captured"] \ cleared, {})
    BY <1>2 DEF ClearCaptured
  <2>2. mem["captured"] \ cleared \in SUBSET Item
    BY DEF TypeOK
  <2>3. ChangedMap(t, "clear", "persist", "captured", mem["captured"] \ cleared, {}) /\ CallsInv'
    BY <2>1, <2>2, Changes
  <2> QED
    BY <2>2, <2>3
<1> QED
  BY <1>1, <1>2 DEF StoreCaptured, ClearCaptured

LEMMA ProvisionedMoves ==
  ASSUME TypeOK, CallsInv, NEW t \in Thread, NEW i \in Id,
         StoreProvisioned(t, i) \/ DeleteProvisioned(t, i)
  PROVE  TypeOK' /\ CallsInv'
<1>1. PICK op \in {"store", "delete"}, content \in SUBSET Item :
        ChangedMap(t, op, "persist", "provisioned", content, {i})
  BY ProvisionedChange
<1>2. ghost' \in [acked : SUBSET Id, gone : SUBSET Id, given : SUBSET Doc] /\ CallsInv'
  BY ProvisionedChange
<1> QED
  BY <1>1, <1>2 DEF TypeOK, ChangedMap, Begun

LEMMA CapturedMoves ==
  ASSUME TypeOK, CallsInv, NEW t \in Thread,
         (\E o \in Origin : StoreCaptured(t, o)) \/ ClearCaptured(t)
  PROVE  TypeOK' /\ CallsInv'
<1>1. PICK op \in {"capture", "defer", "clear"}, at \in {"mark", "persist"}, content \in SUBSET Item :
        ChangedMap(t, op, at, "captured", content, {})
  BY CapturedChange
<1>2. ghost' = ghost /\ CallsInv'
  BY CapturedChange
<1> QED
  BY <1>1, <1>2 DEF TypeOK, ChangedMap, Begun

LEMMA MarkMoves ==
  ASSUME TypeOK, CallsInv, NEW t \in Thread, MarkDirty(t) PROVE TypeOK' /\ CallsInv'
<1>1. call[t] # None /\ call[t].at = "mark" /\ dirty' = TRUE
  BY DEF MarkDirty
<1>2. UNCHANGED <<mem, status, inFlight, guard, pen, file, older, saved, opened, ghost>>
  BY DEF MarkDirty
<1>3. opened.now /\ Fits(t)
  BY <1>1 DEF CallsInv
<1>4. CASE Done(t)
  <2>1. Fits(t)'
    BY <1>4, DoneType DEF Fits
  <2>2. CallsInv'
    BY <1>2, <1>3, <1>4, <2>1, DoneType, OneMoves
  <2>3. call' \in [Thread -> Call \cup {None}] /\ calls' = calls
    BY <1>4, DoneType
  <2> QED
    BY <1>1, <1>2, <2>2, <2>3 DEF TypeOK
<1>5. CASE At(t, "persist")
  <2>1. Went(t, "persist")
    BY <1>1, <1>5, AtType DEF Step
  <2>2. Fits(t)'
    BY <1>1, <1>2, <1>3, <2>1 DEF Fits, Went, Holding
  <2>3. CallsInv'
    BY <1>2, <1>3, <2>1, <2>2, OneMoves DEF Went
  <2> QED
    BY <1>1, <1>2, <2>1, <2>3 DEF TypeOK, Went
<1> QED
  BY <1>4, <1>5 DEF MarkDirty

LEMMA FlushMoves ==
  ASSUME TypeOK, CallsInv, NEW t \in Thread, FlushCaptured(t) PROVE TypeOK' /\ CallsInv'
<1>1. Begun(t, "flush", "persist", "captured", {}, {})
  BY BeginType DEF FlushCaptured, Ops, Step
<1>2. inFlight' = TRUE /\ UNCHANGED <<mem, status, dirty, guard, pen, file, older, saved, opened, ghost>>
  BY DEF FlushCaptured
<1>3. opened.now /\ call[t] = None /\ guard = None
  BY DEF FlushCaptured, Free
<1>4. Fits(t)'
  BY <1>1 DEF Fits, Holding, Begun
<1>5. CallsInv'
  BY <1>1, <1>2, <1>3, <1>4, OneMoves DEF Begun
<1> QED
  BY <1>1, <1>2, <1>5 DEF TypeOK, Begun

LEMMA LockMoves ==
  ASSUME TypeOK, CallsInv, NEW t \in Thread, LockFile(t) PROVE TypeOK' /\ CallsInv'
<1> DEFINE p == call[t].part
<1>1. /\ call[t] # None /\ call[t].at = "persist" /\ p \in Penned /\ pen[p] = None
      /\ pen' = [pen EXCEPT ![p] = t]
  BY DEF LockFile, Penning
<1>2. Went(t, "locked")
  BY <1>1, AtType DEF LockFile, Step
<1>3. UNCHANGED <<mem, status, inFlight, guard, file, older, saved, opened, ghost>>
  BY DEF LockFile
<1>4. dirty' \in BOOLEAN
  BY DEF LockFile
<1>5. opened.now /\ Fits(t)
  BY <1>1 DEF CallsInv
<1>6. /\ pen' \in [Penned -> Thread \cup {None}] /\ pen'[p] = t
      /\ \A q \in Penned : pen[q] # None => pen'[q] = pen[q]
  BY <1>1 DEF TypeOK
<1>7. Fits(t)'
  BY <1>1, <1>2, <1>3, <1>5, <1>6 DEF Fits, Went, Holding
<1>8. CallsInv'
  BY <1>2, <1>3, <1>5, <1>6, <1>7, Bounds, OneMoves DEF Went
<1> QED
  BY <1>2, <1>3, <1>4, <1>6, <1>8 DEF TypeOK, Went

LEMMA SnapshotMoves ==
  ASSUME TypeOK, CallsInv, NEW t \in Thread, Snapshot(t) PROVE TypeOK' /\ CallsInv'
<1> DEFINE p == call[t].part
<1>1. /\ call[t] # None /\ call[t].at = "locked" /\ p \in Penned
      /\ call' = [call EXCEPT ![t] = [call[t] EXCEPT !.at = "publish", !.snap = mem[p]]]
      /\ UNCHANGED <<mem, status, dirty, inFlight, guard, pen, file, older, saved, opened, calls, ghost>>
  BY DEF Snapshot, Penning
<1>2. Shot(t)
  BY <1>1, ShotType
<1>3. opened.now /\ Fits(t)
  BY <1>1 DEF CallsInv
<1>4. Fits(t)'
  BY <1>1, <1>2, <1>3 DEF Fits, Shot, Holding
<1>5. CallsInv'
  BY <1>1, <1>2, <1>3, <1>4, OneMoves DEF Shot
<1> QED
  BY <1>1, <1>2, <1>5 DEF TypeOK, Shot

LEMMA PublishMoves ==
  ASSUME TypeOK, CallsInv, NEW t \in Thread, Publish(t) PROVE TypeOK' /\ CallsInv'
<1> DEFINE p == call[t].part
<1>1. call[t] # None /\ call[t].at = "publish" /\ p \in Penned
  BY DEF Publish, Penning
<1>2. Went(t, "sync")
  BY <1>1, AtType DEF Publish, Step
<1>3. UNCHANGED <<mem, status, dirty, inFlight, guard, pen, saved, opened, ghost>>
  BY DEF Publish
<1>4. file' \in [Parts -> File] /\ older' \in [Parts -> SUBSET File]
  BY <1>1, CallFields, RenamedType DEF Publish
<1>5. opened.now /\ Fits(t)
  BY <1>1 DEF CallsInv
<1>6. Fits(t)'
  BY <1>1, <1>2, <1>3, <1>5 DEF Fits, Went, Holding
<1>7. CallsInv'
  BY <1>2, <1>3, <1>5, <1>6, OneMoves DEF Went
<1> QED
  BY <1>2, <1>3, <1>4, <1>7 DEF TypeOK, Went

\* What a caller is told is about provisioned secrets it stored or deleted.
LEMMA PersistedMoves ==
  ASSUME TypeOK, CallsInv, NEW t \in Thread, NEW ok \in BOOLEAN, call[t] # None,
         call[t].part \in Penned, call[t].at \in {"publish", "sync"}, Persisted(t, ok)
  PROVE  /\ call' \in [Thread -> Call \cup {None}] /\ calls' = calls
         /\ call'[t] = None /\ \A w \in Thread \ {t} : call'[w] = call[w]
         /\ UNCHANGED <<mem, status, guard, saved, opened>>
         /\ dirty' \in BOOLEAN /\ inFlight' \in BOOLEAN
         /\ pen' \in [Penned -> Thread \cup {None}] /\ pen'[call[t].part] = None
         /\ ghost' \in [acked : SUBSET Id, gone : SUBSET Id, given : SUBSET Doc]
         /\ ghost'.given = ghost.given
         /\ CallsInv'
<1> DEFINE p == call[t].part
<1>1. /\ call' \in [Thread -> Call \cup {None}] /\ calls' = calls
      /\ call'[t] = None /\ \A w \in Thread \ {t} : call'[w] = call[w]
  BY DoneType DEF Persisted
<1>2. UNCHANGED <<mem, status, guard, saved, opened>> /\ pen' = [pen EXCEPT ![p] = None]
  BY DEF Persisted
<1>3. dirty' \in BOOLEAN /\ inFlight' \in BOOLEAN
  BY DEF Persisted
<1>4. pen[p] = t /\ opened.now
  BY DEF CallsInv, Fits, Holding
<1>5. pen' \in [Penned -> Thread \cup {None}] /\ pen'[p] = None
  BY <1>2 DEF TypeOK
<1>6. \A q \in Penned, w \in Thread \ {t} : pen[q] = w => pen'[q] = w
  BY <1>2, <1>4 DEF TypeOK
<1>7. CallsInv'
  <2>1. Fits(t)'
    BY <1>1 DEF Fits
  <2> QED
    BY <1>1, <1>2, <1>4, <1>6, <2>1, OneMoves
<1>8. /\ ghost' \in [acked : SUBSET Id, gone : SUBSET Id, given : SUBSET Doc]
      /\ ghost'.given = ghost.given
  <2>1. ghost' = ghost \/ ghost' = Told(t)
    BY DEF Persisted
  <2>2. call[t].op \in {"store", "delete"} => call[t].items \subseteq Id
    BY CallFields DEF CallsInv, Fits
  <2> QED
    BY <2>1, <2>2 DEF Told, TypeOK
<1> QED
  BY <1>1, <1>2, <1>3, <1>5, <1>7, <1>8

LEMMA WriteEnds ==
  ASSUME TypeOK, CallsInv, NEW t \in Thread, PublishFails(t) \/ Synced(t) \/ SyncFails(t)
  PROVE  TypeOK' /\ CallsInv'
<1> DEFINE p == call[t].part
<1>1. call[t] # None /\ p \in Penned /\ call[t].at \in {"publish", "sync"} /\ p \in Parts
  BY DEF PublishFails, Synced, SyncFails, Penning
<1>2. PICK ok \in BOOLEAN : Persisted(t, ok)
  BY DEF PublishFails, Synced, SyncFails
<1>3. /\ call' \in [Thread -> Call \cup {None}] /\ calls' = calls
      /\ UNCHANGED <<mem, status, guard, saved, opened>>
      /\ dirty' \in BOOLEAN /\ inFlight' \in BOOLEAN
      /\ pen' \in [Penned -> Thread \cup {None}]
      /\ ghost' \in [acked : SUBSET Id, gone : SUBSET Id, given : SUBSET Doc]
      /\ CallsInv'
  BY <1>1, <1>2, PersistedMoves
<1>4. file' = file /\ older' \in [Parts -> SUBSET File]
  <2>1. CASE Synced(t)
    BY <1>1, <2>1, DirSyncedType DEF Synced
  <2>2. CASE PublishFails(t) \/ SyncFails(t)
    BY <2>2 DEF PublishFails, SyncFails, TypeOK
  <2> QED
    BY <2>1, <2>2
<1> QED
  BY <1>3, <1>4 DEF TypeOK

\* An OAuth change holds the state lock from here to its answer.
OauthBegun(t, op, content, items) ==
  /\ mem' \in [Parts -> SUBSET Item] /\ mem'["oauth"] = content
  /\ \A q \in Penned : mem'[q] = mem[q]
  /\ Begun(t, op, "commit", "oauth", items, mem["oauth"])
  /\ guard' = t
  /\ UNCHANGED <<status, dirty, inFlight, pen, file, older, saved, opened, ghost>>
  /\ opened.now /\ guard = None /\ call[t] = None /\ status["oauth"] = "loaded"

LEMMA OauthMoves ==
  ASSUME TypeOK, CallsInv, NEW t \in Thread, NEW op \in {"write", "take", "delete"},
         NEW content \in SUBSET Item, NEW items \in SUBSET Doc,
         OauthChange(t, op, content, items)
  PROVE  OauthBegun(t, op, content, items) /\ TypeOK' /\ CallsInv'
<1>1. op \in Ops /\ "commit" \in Step /\ "oauth" \in Parts /\ items \in SUBSET Item
  BY DEF Ops, Step, Item
<1>2. Begin(t, op, "commit", "oauth", items, mem["oauth"]) /\ mem["oauth"] \in SUBSET Item
  BY DEF OauthChange, TypeOK
<1>3. Begun(t, op, "commit", "oauth", items, mem["oauth"])
  BY <1>1, <1>2, BeginType
<1>4. /\ mem' \in [Parts -> SUBSET Item] /\ mem'["oauth"] = content
      /\ \A q \in Penned : mem'[q] = mem[q]
  BY DEF OauthChange, TypeOK
<1>5. /\ UNCHANGED <<status, dirty, inFlight, pen, file, older, saved, opened, ghost>> /\ guard' = t
      /\ opened.now /\ guard = None /\ call[t] = None /\ status["oauth"] = "loaded"
  BY DEF OauthChange, Free
<1>6. Fits(t)'
  BY <1>3, <1>5 DEF Fits, Holding, Begun
<1>7. CallsInv'
  BY <1>3, <1>5, <1>6, Bounds, OneMoves DEF Begun
<1>8. TypeOK'
  BY <1>3, <1>4, <1>5 DEF TypeOK, Begun
<1> QED
  BY <1>3, <1>4, <1>5, <1>7, <1>8 DEF OauthBegun

\* The document that replaces its record's, and the documents that are removed.
LEMMA WriteOauthIs ==
  ASSUME TypeOK, NEW t \in Thread, NEW d \in Doc, WriteOauth(t, d)
  PROVE  \E content \in SUBSET Item :
           /\ OauthChange(t, "write", content, {d})
           /\ content \subseteq mem["oauth"] \cup {d} /\ d \notin ghost.given
<1> DEFINE content == (mem["oauth"] \ Named(recordOf[d])) \cup {d}
<1>1. content \in SUBSET Item
  BY DEF TypeOK, Item
<1>2. OauthChange(t, "write", content, {d}) /\ d \notin ghost.given
  BY DEF WriteOauth
<1> QED
  BY <1>1, <1>2

LEMMA RemoveOauthIs ==
  ASSUME TypeOK, NEW t \in Thread, NEW r \in Record, RemoveOauth(t, r)
  PROVE  \E op \in {"take", "delete"}, found \in SUBSET Doc :
           OauthChange(t, op, mem["oauth"] \ found, found)
<1>1. mem["oauth"] \cap Named(r) \in SUBSET Doc
  BY DEF Named
<1> QED
  BY <1>1 DEF RemoveOauth

LEMMA OauthType ==
  ASSUME TypeOK, CallsInv, NEW t \in Thread,
         (\E d \in Doc : WriteOauth(t, d)) \/ (\E r \in Record : RemoveOauth(t, r))
  PROVE  TypeOK' /\ CallsInv'
<1>1. ASSUME NEW d \in Doc, WriteOauth(t, d) PROVE TypeOK' /\ CallsInv'
  <2>1. PICK content \in SUBSET Item : OauthChange(t, "write", content, {d})
    BY <1>1, WriteOauthIs
  <2>2. {d} \in SUBSET Doc
    OBVIOUS
  <2> QED
    BY <2>1, <2>2, OauthMoves
<1>2. ASSUME NEW r \in Record, RemoveOauth(t, r) PROVE TypeOK' /\ CallsInv'
  <2>1. PICK op \in {"take", "delete"}, found \in SUBSET Doc :
          OauthChange(t, op, mem["oauth"] \ found, found)
    BY <1>2, RemoveOauthIs
  <2>2. mem["oauth"] \ found \in SUBSET Item
    BY DEF TypeOK
  <2> QED
    BY <2>1, <2>2, OauthMoves
<1> QED
  BY <1>1, <1>2

LEMMA CommitMoves ==
  ASSUME TypeOK, CallsInv, NEW t \in Thread, Commit(t) PROVE TypeOK' /\ CallsInv'
<1>1. call[t] # None /\ call[t].at = "commit" /\ call[t].part = "oauth"
  BY DEF Commit, Committing
<1>2. Went(t, "settle")
  BY <1>1, AtType DEF Commit, Step
<1>3. UNCHANGED <<mem, status, dirty, inFlight, guard, pen, saved, opened, ghost>>
  BY DEF Commit
<1>4. file' \in [Parts -> File] /\ older' \in [Parts -> SUBSET File]
  <2>1. mem["oauth"] \in SUBSET Item /\ "oauth" \in Parts
    BY DEF TypeOK
  <2> QED
    BY <2>1, RenamedType DEF Commit
<1>5. opened.now /\ Fits(t)
  BY <1>1 DEF CallsInv
<1>6. Fits(t)'
  BY <1>1, <1>2, <1>3, <1>5 DEF Fits, Went, Holding
<1>7. CallsInv'
  BY <1>2, <1>3, <1>5, <1>6, OneMoves DEF Went
<1> QED
  BY <1>2, <1>3, <1>4, <1>7 DEF TypeOK, Went

LEMMA AnsweredMoves ==
  ASSUME TypeOK, CallsInv, NEW t \in Thread, call[t] # None, call[t].part = "oauth", Answered(t)
  PROVE  /\ call' \in [Thread -> Call \cup {None}] /\ calls' = calls /\ guard' = None
         /\ UNCHANGED <<dirty, inFlight, pen, saved, opened>>
         /\ call'[t] = None /\ \A w \in Thread \ {t} : call'[w] = call[w]
         /\ CallsInv'
<1>1. /\ call' \in [Thread -> Call \cup {None}] /\ calls' = calls
      /\ call'[t] = None /\ \A w \in Thread \ {t} : call'[w] = call[w]
  BY DoneType DEF Answered
<1>2. guard' = None /\ UNCHANGED <<dirty, inFlight, pen, saved, opened>>
  BY DEF Answered
<1>3. guard = t /\ opened.now
  BY DEF CallsInv, Fits
<1>4. Fits(t)'
  BY <1>1 DEF Fits
<1>5. CallsInv'
  BY <1>1, <1>2, <1>3, <1>4, OneMoves
<1> QED
  BY <1>1, <1>2, <1>5

LEMMA CommitEnds ==
  ASSUME TypeOK, CallsInv, NEW t \in Thread, CommitFails(t) \/ Settle(t) \/ SettleFails(t)
  PROVE  TypeOK' /\ CallsInv'
<1>1. call[t] # None /\ call[t].part = "oauth" /\ Answered(t)
  BY DEF CommitFails, Settle, SettleFails, Committing
<1>2. /\ call' \in [Thread -> Call \cup {None}] /\ calls' = calls /\ guard' = None
      /\ UNCHANGED <<dirty, inFlight, pen, saved, opened>>
      /\ CallsInv'
  BY <1>1, AnsweredMoves
<1>3. mem' \in [Parts -> SUBSET Item]
  BY <1>1, CallFields DEF CommitFails, Settle, SettleFails, TypeOK
<1>4. status' \in [Parts -> {"loaded", "unavailable", "unknown"}] /\ file' = file
  BY DEF CommitFails, Settle, SettleFails, TypeOK
<1>5. older' \in [Parts -> SUBSET File]
  BY DirSyncedType DEF CommitFails, Settle, SettleFails, TypeOK
<1>6. ghost' \in [acked : SUBSET Id, gone : SUBSET Id, given : SUBSET Doc]
  <2>1. CASE CommitFails(t) \/ SettleFails(t)
    BY <2>1 DEF CommitFails, SettleFails, TypeOK
  <2>2. CASE Settle(t)
    <3>1. call[t].items \subseteq Doc
      BY <1>1 DEF CallsInv, Fits
    <3> QED
      BY <2>2, <3>1 DEF Settle, TypeOK
  <2> QED
    BY <2>1, <2>2
<1> QED
  BY <1>2, <1>3, <1>4, <1>5, <1>6 DEF TypeOK

\* A crash leaves each partition one of the files it might have.
LEMMA CrashFiles ==
  ASSUME TypeOK, Crash
  PROVE  /\ file' \in [Parts -> File] /\ older' \in [Parts -> SUBSET File]
         /\ \A p \in Parts : file'[p] \in Files(p) /\ older'[p] \subseteq Files(p)
<1>1. \A p \in Parts : Files(p) \subseteq File /\ file[p] \in Files(p) /\ older[p] \subseteq Files(p)
  BY DEF Files, TypeOK
<1>2. CASE UNCHANGED <<file, older>>
  BY <1>1, <1>2 DEF TypeOK
<1>3. CASE /\ file' \in {f \in [Parts -> UNION {Files(p) : p \in Parts}] :
                           \A p \in Parts : f[p] \in Files(p)}
           /\ older' = [p \in Parts |-> {}]
  <2>1. /\ file' \in [Parts -> UNION {Files(p) : p \in Parts}]
        /\ \A p \in Parts : file'[p] \in Files(p)
    BY <1>3
  <2>2. file' \in [Parts -> File]
    BY <1>1, <2>1
  <2> QED
    BY <1>3, <2>1, <2>2
<1> QED
  BY <1>2, <1>3 DEF Crash

LEMMA CrashMoves == ASSUME TypeOK, CallsInv, Crash PROVE TypeOK' /\ CallsInv'
<1>1. /\ mem' = [p \in Parts |-> {}] /\ status' = [p \in Parts |-> "loaded"]
      /\ dirty' = FALSE /\ inFlight' = FALSE
      /\ guard' = None /\ pen' = [p \in Penned |-> None]
      /\ call' = [t \in Thread |-> None]
      /\ UNCHANGED <<saved, calls, ghost>>
  BY DEF Crash
<1>2. opened' \in [times : 0..MaxOpen, now : BOOLEAN]
  BY DEF Crash, TypeOK
<1>3. CallsInv'
  BY <1>1 DEF CallsInv, Fits
<1>4. file' \in [Parts -> File] /\ older' \in [Parts -> SUBSET File]
  BY CrashFiles
<1>5. /\ mem' \in [Parts -> SUBSET Item] /\ status' \in [Parts -> {"loaded", "unavailable", "unknown"}]
      /\ pen' \in [Penned -> Thread \cup {None}] /\ call' \in [Thread -> Call \cup {None}]
  BY <1>1
<1> QED
  BY <1>1, <1>2, <1>3, <1>4, <1>5 DEF TypeOK

LEMMA DamageFiles ==
  ASSUME TypeOK, NEW p \in Parts, Damage(p)
  PROVE  /\ file' \in [Parts -> File] /\ older' = older
         /\ \A q \in Parts : file'[q].holds = file[q].holds
<1>1. [file[p] EXCEPT !.readable = FALSE] \in File /\ file' = [file EXCEPT ![p] = [file[p] EXCEPT !.readable = FALSE]]
  BY DEF Damage, TypeOK, File
<1>2. [file[p] EXCEPT !.readable = FALSE].holds = file[p].holds
  BY DEF TypeOK, File
<1> QED
  BY <1>1, <1>2 DEF Damage, TypeOK

LEMMA DamageMoves ==
  ASSUME TypeOK, CallsInv, NEW p \in Parts, Damage(p) PROVE TypeOK' /\ CallsInv'
<1>1. UNCHANGED <<mem, status, dirty, inFlight, guard, pen, call, saved, opened, calls, ghost>>
  BY DEF Damage
<1> QED
  BY <1>1, DamageFiles DEF TypeOK, CallsInv, Fits

\* What an open leaves: a file that was moved aside is in quarantine, and may come
\* back; the rest are as they were.
Aside(p) == file'[p] = Empty /\ older'[p] = Files(p) /\ file[p].holds \subseteq saved'
AsBefore(p) == file'[p] = file[p] /\ older'[p] = older[p]

LEMMA OpenFiles ==
  ASSUME TypeOK, NEW mode \in {"new", "open", "resolve"},
         NEW hidden \in SUBSET Parts, NEW stuck \in SUBSET Parts, Open(mode, hidden, stuck)
  PROVE  /\ \A p \in Parts : Aside(p) \/ AsBefore(p)
         /\ saved \subseteq saved' /\ saved' \in SUBSET Item
         /\ file' \in [Parts -> File] /\ older' \in [Parts -> SUBSET File]
<1> DEFINE failed == {p \in Parts : Failed(p, hidden, stuck)}
           reads(p) == mode # "new" \/ \A q \in failed : Rank[p] <= Rank[q]
           moves(p) == reads(p) /\ Moved(p, hidden, stuck)
<1>1. /\ saved' = saved \cup UNION {file[p].holds : p \in {q \in Parts : moves(q)}}
      /\ file' = [p \in Parts |-> IF moves(p) THEN Empty ELSE file[p]]
      /\ older' = [p \in Parts |-> IF moves(p) THEN Files(p) ELSE older[p]]
  BY DEF Open
<1>2. Empty \in File /\ \A p \in Parts : Files(p) \in SUBSET File /\ file[p].holds \in SUBSET Item
  BY DEF Empty, File, Files, TypeOK
<1> HIDE DEF moves
<1>3. saved \subseteq saved' /\ saved' \in SUBSET Item
  BY <1>1, <1>2 DEF TypeOK
<1>4. file' \in [Parts -> File] /\ older' \in [Parts -> SUBSET File]
  BY <1>1, <1>2 DEF TypeOK
<1>5. ASSUME NEW p \in Parts PROVE Aside(p) \/ AsBefore(p)
  <2>1. CASE moves(p)
    <3>1. file[p].holds \subseteq saved'
      BY <1>1, <2>1
    <3> QED
      BY <1>1, <2>1, <3>1 DEF Aside
  <2>2. CASE ~moves(p)
    BY <1>1, <2>2 DEF AsBefore
  <2> QED
    BY <2>1, <2>2
<1> QED
  BY <1>3, <1>4, <1>5

\* A partition that is open after a load is in memory as it is in its file.
LEMMA OpenReads ==
  ASSUME TypeOK, NEW mode \in {"new", "open", "resolve"},
         NEW hidden \in SUBSET Parts, NEW stuck \in SUBSET Parts, Open(mode, hidden, stuck),
         opened'.now, NEW p \in Parts
  PROVE  /\ ~Failed(p, hidden, stuck) \/ (hidden = {} /\ stuck = {}) =>
              mem'[p] = file'[p].holds /\ file[p].holds \subseteq mem'[p] \cup saved'
         /\ Failed(p, hidden, stuck) => status'[p] = "unavailable"
<1> DEFINE failed == {q \in Parts : Failed(q, hidden, stuck)}
           reads(x) == mode # "new" \/ \A q \in failed : Rank[x] <= Rank[q]
           moves(x) == reads(x) /\ Moved(x, hidden, stuck)
           kept == Kept(mode, failed, hidden)
           good(x) == kept /\ file[x].readable /\ x \notin hidden
<1>1. /\ saved' = saved \cup UNION {file[q].holds : q \in {x \in Parts : moves(x)}}
      /\ file' = [x \in Parts |-> IF moves(x) THEN Empty ELSE file[x]]
      /\ mem' = [x \in Parts |-> IF good(x) THEN file[x].holds ELSE {}]
  BY DEF Open
<1>2. /\ opened' = [times |-> opened.times + 1, now |-> kept]
      /\ status' = [x \in Parts |-> IF kept /\ x \in failed THEN "unavailable" ELSE "loaded"]
  BY DEF Open
<1>3. kept
  BY <1>2
<1>4. reads(p)
  BY <1>3 DEF Kept
<1>5. CASE file[p].readable
  <2>1. ~moves(p)
    BY <1>5 DEF Moved
  <2>2. ASSUME p \notin hidden PROVE mem'[p] = file'[p].holds /\ file[p].holds \subseteq mem'[p]
    <3>1. good(p)
      BY <1>3, <1>5, <2>2
    <3> HIDE DEF good, moves
    <3> QED
      BY <1>1, <2>1, <3>1
  <2> QED
    BY <1>2, <1>3, <2>2 DEF Failed
<1>6. CASE ~file[p].readable
  <2>1. ~good(p)
    BY <1>6
  <2>2. ASSUME p \notin hidden \cup stuck
        PROVE  mem'[p] = file'[p].holds /\ file[p].holds \subseteq saved'
    <3>1. moves(p)
      BY <1>4, <1>6, <2>2 DEF Moved
    <3> HIDE DEF good, moves
    <3>2. file'[p] = Empty /\ mem'[p] = {}
      BY <1>1, <2>1, <3>1
    <3>3. file[p].holds \subseteq saved'
      BY <1>1, <3>1
    <3> QED
      BY <3>2, <3>3 DEF Empty
  <2> QED
    BY <1>2, <1>3, <1>6, <2>2 DEF Failed
<1> QED
  BY <1>5, <1>6

LEMMA OpenMoves ==
  ASSUME TypeOK, CallsInv, NEW mode \in {"new", "open", "resolve"},
         NEW hidden \in SUBSET Parts, NEW stuck \in SUBSET Parts, Open(mode, hidden, stuck)
  PROVE  TypeOK' /\ CallsInv'
<1>1. ~opened.now /\ UNCHANGED <<dirty, inFlight, guard, pen, call, calls, ghost>>
  BY DEF Open
<1>2. opened' \in [times : 0..MaxOpen, now : BOOLEAN]
  BY Bounds DEF Open, TypeOK, Kept
<1>3. mem' \in [Parts -> SUBSET Item]
  BY DEF Open, TypeOK, File
<1>4. status' \in [Parts -> {"loaded", "unavailable", "unknown"}]
  BY DEF Open
<1>5. CallsInv'
  BY <1>1 DEF CallsInv, Fits
<1> QED
  BY <1>1, <1>2, <1>3, <1>4, <1>5, OpenFiles DEF TypeOK

\* The cases of Next, named once.
LEMMA Cases ==
  Next => \/ \E t \in Thread : Work(t)
          \/ Crash
          \/ \E p \in Parts : Damage(p)
          \/ \E mode \in {"new", "open", "resolve"}, hidden \in SUBSET Parts, stuck \in SUBSET Parts :
               Open(mode, hidden, stuck)
<1>1. SUBSET {p \in Parts : file[p] # Empty} \subseteq SUBSET Parts
  OBVIOUS
<1>2. SUBSET {p \in Parts : ~file[p].readable} \subseteq SUBSET Parts
  OBVIOUS
<1> QED
  BY <1>1, <1>2 DEF Next

LEMMA TypeNext == TypeOK /\ CallsInv /\ [Next]_vars => TypeOK' /\ CallsInv'
<1> SUFFICES ASSUME TypeOK, CallsInv, [Next]_vars PROVE TypeOK' /\ CallsInv'
  OBVIOUS
<1>1. ASSUME NEW t \in Thread, Work(t) PROVE TypeOK' /\ CallsInv'
  BY <1>1, ProvisionedMoves, CapturedMoves, MarkMoves, FlushMoves, LockMoves, SnapshotMoves,
     PublishMoves, WriteEnds, OauthType, CommitMoves, CommitEnds DEF Work
<1>2. CASE Crash
  BY <1>2, CrashMoves
<1>3. ASSUME NEW p \in Parts, Damage(p) PROVE TypeOK' /\ CallsInv'
  BY <1>3, DamageMoves
<1>4. ASSUME NEW mode \in {"new", "open", "resolve"}, NEW hidden \in SUBSET Parts,
             NEW stuck \in SUBSET Parts, Open(mode, hidden, stuck)
      PROVE  TypeOK' /\ CallsInv'
  BY <1>4, OpenMoves
<1>5. CASE UNCHANGED vars
  BY <1>5 DEF vars, TypeOK, CallsInv, Fits
<1> QED
  BY <1>1, <1>2, <1>3, <1>4, <1>5, Cases

\* The variables hold what they should, and each call in progress is at a step of
\* its own operation with the lock of that step (store.rs, the locks of SecretStore).
THEOREM TypeCorrect == Spec => [](TypeOK /\ CallsInv)
<1>1. Init => TypeOK /\ CallsInv
  BY TypeInit
<1>2. TypeOK /\ CallsInv /\ [Next]_vars => TypeOK' /\ CallsInv'
  BY TypeNext
<1> QED
  BY <1>1, <1>2, PTL DEF Spec

-----------------------------------------------------------------------------
(* What was answered Ok is on disk *)

\* What was answered is so in a map and in every snapshot of it that is yet to be
\* renamed; and the writer whose rename is done is alone with its file.
ProvisionedInv ==
  /\ opened.now => /\ ghost.acked \subseteq mem["provisioned"] \cup saved
                   /\ ghost.gone \cap mem["provisioned"] = {}
  /\ \A t \in Writers("provisioned") :
       /\ call[t].at \in {"publish", "sync"} => /\ ghost.acked \subseteq call[t].snap \cup saved
                                                /\ ghost.gone \cap call[t].snap = {}
       /\ call[t].at = "sync" => file["provisioned"].holds = call[t].snap

Answers == AckedSurvives /\ ProvisionedInv

\* A writer that no step has taken to another step is as it was.
Snapped(t) ==
  call'[t] # None /\ call'[t].part = "provisioned" /\ call'[t].at \in {"publish", "sync"} =>
    call'[t] = call[t]

LEMMA AnswersInit == Init => Answers
  BY DEF Init, Answers, AckedSurvives, ProvisionedInv, Writers, GhostInit, Empty

\* What the other partitions do leaves the provisioned one alone.
LEMMA AnswersStill ==
  ASSUME Answers, \A t \in Thread : Snapped(t),
         mem'["provisioned"] = mem["provisioned"], file'["provisioned"] = file["provisioned"],
         older'["provisioned"] = older["provisioned"] \/ older'["provisioned"] = {},
         saved' = saved, opened' = opened, ghost'.acked = ghost.acked, ghost'.gone = ghost.gone
  PROVE  Answers'
<1>1. AckedSurvives'
  BY DEF Answers, AckedSurvives, Files
<1>2. ProvisionedInv'
  BY DEF Answers, ProvisionedInv, Writers, Snapped
<1> QED
  BY <1>1, <1>2 DEF Answers

LEMMA AnswersChange ==
  ASSUME TypeOK, CallsInv, Answers, NEW t \in Thread, NEW i \in Id,
         StoreProvisioned(t, i) \/ DeleteProvisioned(t, i)
  PROVE  Answers'
<1> USE DEF Item, Ops
<1>1. CASE StoreProvisioned(t, i)
  <2>1. mem["provisioned"] \cup {i} \in SUBSET Item
    BY DEF TypeOK
  <2>2. Changed(t, "store", "persist", "provisioned", mem["provisioned"] \cup {i}, {i})
    BY <1>1 DEF StoreProvisioned
  <2>3. ChangedMap(t, "store", "persist", "provisioned", mem["provisioned"] \cup {i}, {i})
    BY <2>1, <2>2, Changes
  <2>4. ghost'.acked = ghost.acked /\ ghost'.gone = ghost.gone \ {i}
    BY <1>1 DEF StoreProvisioned, TypeOK
  <2>5. AckedSurvives'
    BY <2>3, <2>4 DEF Answers, AckedSurvives, Files, ChangedMap
  <2>6. \A w \in Thread : Snapped(w)
    BY <2>3 DEF Snapped, ChangedMap, Begun
  <2>7. ProvisionedInv'
    BY <2>3, <2>4, <2>6 DEF Answers, ProvisionedInv, Writers, ChangedMap, Snapped
  <2> QED
    BY <2>5, <2>7 DEF Answers
<1>2. CASE DeleteProvisioned(t, i)
  <2>1. mem["provisioned"] \ {i} \in SUBSET Item
    BY DEF TypeOK
  <2>2. Changed(t, "delete", "persist", "provisioned", mem["provisioned"] \ {i}, {i})
    BY <1>2 DEF DeleteProvisioned
  <2>3. ChangedMap(t, "delete", "persist", "provisioned", mem["provisioned"] \ {i}, {i})
    BY <2>1, <2>2, Changes
  <2>4. ghost'.acked = ghost.acked \ {i} /\ ghost'.gone = ghost.gone
    BY <1>2 DEF DeleteProvisioned, TypeOK
  <2>5. AckedSurvives'
    BY <2>3, <2>4 DEF Answers, AckedSurvives, Files, ChangedMap
  <2>6. \A w \in Thread : Snapped(w)
    BY <2>3 DEF Snapped, ChangedMap, Begun
  <2>7. ProvisionedInv'
    BY <2>3, <2>4, <2>6 DEF Answers, ProvisionedInv, Writers, ChangedMap, Snapped
  <2> QED
    BY <2>5, <2>7 DEF Answers
<1> QED
  BY <1>1, <1>2

LEMMA AnswersCaptured ==
  ASSUME TypeOK, CallsInv, Answers, NEW t \in Thread,
         (\E o \in Origin : StoreCaptured(t, o)) \/ ClearCaptured(t)
  PROVE  Answers'
<1>1. PICK op, at, content : ChangedMap(t, op, at, "captured", content, {})
  BY CapturedChange
<1>2. ghost' = ghost
  BY CapturedChange
<1>3. \A w \in Thread : Snapped(w)
  BY <1>1 DEF Snapped, ChangedMap, Begun
<1> QED
  BY <1>1, <1>2, <1>3, AnswersStill DEF ChangedMap

LEMMA AnswersSteps ==
  ASSUME TypeOK, CallsInv, Answers, NEW t \in Thread,
         MarkDirty(t) \/ FlushCaptured(t) \/ LockFile(t) \/ Snapshot(t)
  PROVE  Answers'
<1>1. CASE MarkDirty(t)
  <2>1. Went(t, "persist") \/ (call'[t] = None /\ \A w \in Thread \ {t} : call'[w] = call[w])
    BY <1>1, AtType, DoneType DEF MarkDirty, Step
  <2>2. \A w \in Thread : Snapped(w)
    BY <2>1 DEF Snapped, Went
  <2> QED
    BY <1>1, <2>2, AnswersStill DEF MarkDirty
<1>2. CASE FlushCaptured(t)
  <2>1. Begun(t, "flush", "persist", "captured", {}, {})
    BY <1>2, BeginType DEF FlushCaptured, Ops, Step
  <2>2. \A w \in Thread : Snapped(w)
    BY <2>1 DEF Snapped, Begun
  <2> QED
    BY <1>2, <2>2, AnswersStill DEF FlushCaptured
<1>3. CASE LockFile(t)
  <2>1. Went(t, "locked")
    BY <1>3, AtType DEF LockFile, Penning, Step
  <2>2. \A w \in Thread : Snapped(w)
    BY <2>1 DEF Snapped, Went
  <2> QED
    BY <1>3, <2>2, AnswersStill DEF LockFile
<1>4. CASE Snapshot(t)
  <2>1. call[t] # None /\ UNCHANGED <<mem, file, older, saved, opened, ghost>>
    BY <1>4 DEF Snapshot, Penning
  <2>2. Shot(t)
    BY <1>4, ShotType DEF Snapshot, Penning
  <2>3. opened.now
    BY <2>1 DEF CallsInv
  <2>4. AckedSurvives'
    BY <2>1 DEF Answers, AckedSurvives, Files
  <2>5. ProvisionedInv'
    BY <2>1, <2>2, <2>3 DEF Answers, ProvisionedInv, Writers, Shot
  <2> QED
    BY <2>4, <2>5 DEF Answers
<1> QED
  BY <1>1, <1>2, <1>3, <1>4

\* A file has one writer from its snapshot to its answer.
LEMMA OneWriter ==
  ASSUME CallsInv, NEW t \in Thread, NEW w \in Thread, call[t] # None, call[w] # None,
         call[t].part = call[w].part, call[t].at \in Holding, call[w].at \in Holding
  PROVE  t = w
  BY DEF CallsInv, Fits

LEMMA AnswersPublish ==
  ASSUME TypeOK, CallsInv, Answers, NEW t \in Thread, Publish(t)
  PROVE  Answers'
<1>0. PICK p : p = call[t].part
  OBVIOUS
<1>1. /\ call[t] # None /\ call[t].at = "publish" /\ p \in Penned
      /\ Renamed(p, call[t].snap) /\ UNCHANGED <<mem, saved, opened, ghost>>
  BY <1>0 DEF Publish, Penning
<1>2. Went(t, "sync")
  BY <1>1, AtType DEF Publish, Step
<1>3. /\ file'[p].holds = call[t].snap /\ Files(p)' = Files(p) \cup {file'[p]}
      /\ \A q \in Parts \ {p} : file'[q] = file[q] /\ older'[q] = older[q]
  BY <1>1, CallFields, RenamedType
<1>4. CASE p = "captured"
  <2>1. \A w \in Thread : Snapped(w)
    BY <1>0, <1>2, <1>4 DEF Snapped, Went
  <2> QED
    BY <1>1, <1>3, <1>4, <2>1, AnswersStill
<1>5. CASE p = "provisioned"
  <2>1. ghost.acked \subseteq call[t].snap \cup saved /\ ghost.gone \cap call[t].snap = {}
    BY <1>0, <1>1, <1>5 DEF Answers, ProvisionedInv, Writers
  <2>2. Files("provisioned")' = Files("provisioned") \cup {file'["provisioned"]}
    BY <1>3, <1>5
  <2>3. AckedSurvives'
    BY <1>1, <1>3, <1>5, <2>1, <2>2 DEF Answers, AckedSurvives
  <2>4. \A w \in Writers("provisioned") : call[w].at \in Holding => w = t
    BY <1>0, <1>1, <1>5, OneWriter DEF Writers, Holding
  <2>5. ProvisionedInv'
    BY <1>0, <1>1, <1>2, <1>3, <1>5, <2>1, <2>4 DEF Answers, ProvisionedInv, Writers, Went, Holding
  <2> QED
    BY <2>3, <2>5 DEF Answers
<1> QED
  BY <1>1, <1>4, <1>5

LEMMA AnswersEnds ==
  ASSUME TypeOK, CallsInv, Answers, NEW t \in Thread, PublishFails(t) \/ Synced(t) \/ SyncFails(t)
  PROVE  Answers'
<1> DEFINE p == call[t].part
<1>1. call[t] # None /\ p \in Penned /\ call[t].at \in {"publish", "sync"} /\ p \in Parts
  BY DEF PublishFails, Synced, SyncFails, Penning
<1>2. PICK ok \in BOOLEAN : Persisted(t, ok) /\ (ok => Synced(t))
  BY DEF PublishFails, Synced, SyncFails
<1>3. /\ call'[t] = None /\ \A w \in Thread \ {t} : call'[w] = call[w]
      /\ UNCHANGED <<mem, saved, opened>>
  BY <1>1, <1>2, PersistedMoves
<1>4. file' = file /\ \A q \in Parts : older'[q] = older[q] \/ older'[q] = {}
  BY <1>1, DirSyncedType DEF PublishFails, Synced, SyncFails
<1>5. \A w \in Thread : Snapped(w)
  BY <1>3 DEF Snapped
<1>6. CASE ghost'.acked = ghost.acked /\ ghost'.gone = ghost.gone
  BY <1>3, <1>4, <1>5, <1>6, AnswersStill
<1>7. CASE ok /\ p = "provisioned"
  <2>1. Synced(t) /\ ghost' = Told(t) /\ call[t].at = "sync"
    BY <1>2, <1>7 DEF Persisted, Synced, Penning
  <2>2. older'["provisioned"] = {}
    BY <1>7, <2>1, DirSyncedType DEF Synced
  <2>3. Files("provisioned")' = {file["provisioned"]} /\ file["provisioned"] \in Files("provisioned")
    BY <1>4, <2>2 DEF Files
  <2>4. file["provisioned"].holds = call[t].snap
    BY <1>1, <1>7, <2>1 DEF Answers, ProvisionedInv, Writers
  <2>5. \A w \in Writers("provisioned") : call[w].at \in Holding => w = t
    BY <1>1, <1>7, OneWriter DEF Writers, Holding
  <2>6. opened.now
    BY <1>1 DEF CallsInv
  <2>7. \A w \in Writers("provisioned")' : call'[w].at \notin Holding
    BY <1>3, <2>5 DEF Writers
  <2>8. /\ ghost'.acked \subseteq ghost.acked \cup (mem["provisioned"] \cap call[t].snap)
        /\ ghost'.gone \subseteq ghost.gone \cup (call[t].items \ (mem["provisioned"] \cup call[t].snap))
    BY <2>1 DEF Told, TypeOK
  <2>9. AckedSurvives'
    BY <1>3, <1>4, <2>3, <2>4, <2>8 DEF Answers, AckedSurvives
  <2>10. ProvisionedInv'
    BY <1>3, <2>6, <2>7, <2>8 DEF Answers, ProvisionedInv, Holding
  <2> QED
    BY <2>9, <2>10 DEF Answers
<1>8. CASE ~(ok /\ p = "provisioned")
  <2>1. ok => call[t].op \notin {"store", "delete"}
    BY <1>1, <1>8 DEF CallsInv, Fits
  <2>2. ghost' = ghost
    BY <1>2, <2>1 DEF Persisted, Told
  <2> QED
    BY <1>6, <2>2
<1> QED
  BY <1>7, <1>8

\* What an OAuth step does to the provisioned partition: nothing.
LEMMA AnswersOauth ==
  ASSUME TypeOK, CallsInv, Answers, NEW t \in Thread,
         \/ \E d \in Doc : WriteOauth(t, d)
         \/ \E r \in Record : RemoveOauth(t, r)
         \/ Commit(t) \/ CommitFails(t) \/ Settle(t) \/ SettleFails(t)
  PROVE  Answers'
<1>1. ASSUME NEW op \in {"write", "take", "delete"}, NEW content \in SUBSET Item,
             NEW items \in SUBSET Doc, OauthChange(t, op, content, items)
      PROVE  Answers'
  <2>1. OauthBegun(t, op, content, items)
    BY <1>1, OauthMoves
  <2>2. op \in Ops /\ "commit" \in Step /\ items \in SUBSET Item /\ mem["oauth"] \in SUBSET Item
    BY DEF Ops, Step, Item, TypeOK
  <2>3. Begun(t, op, "commit", "oauth", items, mem["oauth"])
    BY <2>1, <2>2, BeginType DEF OauthBegun
  <2>4. \A w \in Thread : Snapped(w)
    BY <2>3 DEF Snapped, Begun
  <2> QED
    BY <2>1, <2>4, AnswersStill DEF OauthBegun
<1>2. ASSUME NEW d \in Doc, WriteOauth(t, d) PROVE Answers'
  <2>1. PICK content \in SUBSET Item : OauthChange(t, "write", content, {d})
    BY <1>2, WriteOauthIs
  <2> QED
    BY <1>1, <2>1
<1>3. ASSUME NEW r \in Record, RemoveOauth(t, r) PROVE Answers'
  <2>1. PICK op \in {"take", "delete"}, found \in SUBSET Doc :
          OauthChange(t, op, mem["oauth"] \ found, found)
    BY <1>3, RemoveOauthIs
  <2>2. mem["oauth"] \ found \in SUBSET Item
    BY DEF TypeOK
  <2> QED
    BY <1>1, <2>1, <2>2
<1>4. CASE Commit(t)
  <2>1. Went(t, "settle")
    BY <1>4, AtType DEF Commit, Committing, Step
  <2>2. \A w \in Thread : Snapped(w)
    BY <2>1 DEF Snapped, Went
  <2>3. file'["provisioned"] = file["provisioned"] /\ older'["provisioned"] = older["provisioned"]
    BY <1>4 DEF Commit, Renamed, TypeOK
  <2> QED
    BY <1>4, <2>2, <2>3, AnswersStill DEF Commit
<1>5. CASE CommitFails(t) \/ Settle(t) \/ SettleFails(t)
  <2>1. call[t] # None /\ call[t].part = "oauth" /\ Answered(t)
    BY <1>5 DEF CommitFails, Settle, SettleFails, Committing
  <2>2. /\ call'[t] = None /\ \A w \in Thread \ {t} : call'[w] = call[w]
        /\ UNCHANGED <<saved, opened>>
    BY <2>1, AnsweredMoves
  <2>3. \A w \in Thread : Snapped(w)
    BY <2>2 DEF Snapped
  <2>4. mem'["provisioned"] = mem["provisioned"] /\ file' = file
    BY <1>5 DEF CommitFails, Settle, SettleFails, TypeOK
  <2>5. older'["provisioned"] = older["provisioned"]
    BY <1>5, DirSyncedType DEF CommitFails, Settle, SettleFails
  <2>6. ghost'.acked = ghost.acked /\ ghost'.gone = ghost.gone
    BY <1>5 DEF CommitFails, Settle, SettleFails, TypeOK
  <2> QED
    BY <2>2, <2>3, <2>4, <2>5, <2>6, AnswersStill
<1> QED
  BY <1>2, <1>3, <1>4, <1>5

LEMMA AnswersCrash == ASSUME TypeOK, CallsInv, Answers, Crash PROVE Answers'
<1>1. opened'.now = FALSE /\ call' = [t \in Thread |-> None] /\ saved' = saved /\ ghost' = ghost
  BY DEF Crash, TypeOK
<1>2. Files("provisioned")' \subseteq Files("provisioned")
  BY CrashFiles DEF Files
<1>3. AckedSurvives'
  BY <1>1, <1>2 DEF Answers, AckedSurvives
<1>4. ProvisionedInv'
  BY <1>1 DEF ProvisionedInv, Writers
<1> QED
  BY <1>3, <1>4 DEF Answers

LEMMA AnswersDamage ==
  ASSUME TypeOK, CallsInv, Answers, NEW p \in Parts, Damage(p) PROVE Answers'
<1>1. UNCHANGED <<mem, call, saved, opened, ghost>>
  BY DEF Damage
<1>2. \A f \in Files("provisioned")' : \E g \in Files("provisioned") : f.holds = g.holds
  BY DamageFiles DEF Files
<1>3. AckedSurvives'
  BY <1>1, <1>2 DEF Answers, AckedSurvives
<1>4. ProvisionedInv'
  BY <1>1, DamageFiles DEF Answers, ProvisionedInv, Writers
<1> QED
  BY <1>3, <1>4 DEF Answers

LEMMA AnswersOpen ==
  ASSUME TypeOK, CallsInv, Answers, NEW mode \in {"new", "open", "resolve"}, Open(mode, {}, {})
  PROVE  Answers'
<1> DEFINE p == "provisioned"
<1>1. ghost' = ghost /\ call' = call /\ \A t \in Thread : call[t] = None
  BY DEF Open, CallsInv
<1>2. saved \subseteq saved' /\ (Aside(p) \/ AsBefore(p))
  BY OpenFiles
<1>3. file[p] \in Files(p) /\ ghost.acked \subseteq file[p].holds \cup saved /\ ghost.gone \cap file[p].holds = {}
  BY DEF Answers, AckedSurvives, Files
<1>4. AckedSurvives'
  <2>1. CASE AsBefore(p)
    BY <1>1, <1>2, <2>1 DEF Answers, AckedSurvives, Files, AsBefore
  <2>2. CASE Aside(p)
    <3>1. Files(p)' = Files(p) \cup {Empty} /\ file[p].holds \subseteq saved'
      BY <2>2 DEF Aside, Files
    <3> QED
      BY <1>1, <1>2, <1>3, <3>1 DEF Answers, AckedSurvives, Empty
  <2> QED
    BY <1>2, <2>1, <2>2
<1>5. ASSUME opened'.now
      PROVE  ghost'.acked \subseteq mem'[p] \cup saved' /\ ghost'.gone \cap mem'[p] = {}
  <2>1. mem'[p] = file'[p].holds /\ file[p].holds \subseteq mem'[p] \cup saved'
    BY <1>5, OpenReads
  <2>2. file'[p] \in Files(p)'
    BY DEF Files
  <2> QED
    BY <1>1, <1>2, <1>3, <1>4, <2>1, <2>2 DEF AckedSurvives
<1>6. ProvisionedInv'
  BY <1>1, <1>5 DEF ProvisionedInv, Writers
<1> QED
  BY <1>4, <1>6 DEF Answers

\* With no fault but damage, every file that is opened can be got at and moved.
LEMMA OpenPlainly ==
  ASSUME Faults \subseteq {"damaged"}, NEW mode, NEW hidden, NEW stuck, Open(mode, hidden, stuck)
  PROVE  hidden = {} /\ stuck = {}
  BY DEF Open

LEMMA AnswersNext ==
  ASSUME Faults \subseteq {"damaged"}, TypeOK, CallsInv, Answers, [Next]_vars
  PROVE  Answers'
<1>1. ASSUME NEW t \in Thread, Work(t) PROVE Answers'
  BY <1>1, AnswersChange, AnswersCaptured, AnswersSteps, AnswersPublish, AnswersEnds, AnswersOauth
     DEF Work
<1>2. CASE Crash
  BY <1>2, AnswersCrash
<1>3. ASSUME NEW p \in Parts, Damage(p) PROVE Answers'
  BY <1>3, AnswersDamage
<1>4. ASSUME NEW mode \in {"new", "open", "resolve"}, NEW hidden \in SUBSET Parts,
             NEW stuck \in SUBSET Parts, Open(mode, hidden, stuck)
      PROVE  Answers'
  BY <1>4, OpenPlainly, AnswersOpen
<1>5. CASE UNCHANGED vars
  BY <1>5 DEF vars, Answers, AckedSurvives, ProvisionedInv, Writers, Files
<1> QED
  BY <1>1, <1>2, <1>3, <1>4, <1>5, Cases

\* A secret whose storing was answered Ok is in its file or in quarantine over any
\* power failure, and one whose deletion was answered is not; for files that can
\* be got at and moved aside (store_provisioned, delete_provisioned,
\* persist_provisioned, load_provisioned).
THEOREM AckedSurvivesHolds == ASSUME Faults \subseteq {"damaged"} PROVE Spec => []AckedSurvives
<1>1. Init => TypeOK /\ CallsInv /\ Answers
  BY TypeInit, AnswersInit
<1>2. (TypeOK /\ CallsInv /\ Answers) /\ [Next]_vars => (TypeOK /\ CallsInv /\ Answers)'
  BY TypeNext, AnswersNext
<1>3. TypeOK /\ CallsInv /\ Answers => AckedSurvives
  BY DEF Answers
<1> QED
  BY <1>1, <1>2, <1>3, PTL DEF Spec

-----------------------------------------------------------------------------
(* A flush that skips loses nothing *)

\* A flush that others leave the work to is under way.
Flushing == inFlight => \E t \in Thread : call[t] # None /\ call[t].op = "flush"

\* A clean map that its file does not follow yet has a writer on the way to it, ...
Behind ==
  opened.now /\ ~dirty /\ mem["captured"] # file["captured"].holds =>
    \E t \in Writers("captured") : call[t].at # "sync"

\* ... also when that writer's snapshot has been overtaken.
Overtaken ==
  \A t \in Writers("captured") :
    call[t].at = "publish" /\ ~dirty /\ call[t].snap # mem["captured"] =>
      \E w \in Writers("captured") : call[w].at \in {"mark", "persist"}

CapturedInv == Flushing /\ Behind /\ Overtaken

LEMMA CapturedInit == Init => CapturedInv
  BY DEF Init, CapturedInv, Flushing, Behind, Overtaken, Writers, Empty

\* A change of another partition, by a thread that is not on a captured call.
LEMMA CapturedStill ==
  ASSUME CapturedInv, NEW t \in Thread, call[t] = None \/ call[t].part # "captured",
         call'[t] = None \/ call'[t].part # "captured",
         call[t] = None \/ call[t].op # "flush",
         \A w \in Thread \ {t} : call'[w] = call[w],
         mem'["captured"] = mem["captured"], file'["captured"] = file["captured"],
         dirty' = dirty, inFlight' = inFlight \/ ~inFlight', opened' = opened
  PROVE  CapturedInv'
<1>1. \A w \in Writers("captured") : w # t /\ w \in Writers("captured")' /\ call'[w] = call[w]
  BY DEF Writers
<1>2. \A w \in Writers("captured")' : w # t /\ w \in Writers("captured") /\ call'[w] = call[w]
  BY DEF Writers
<1>3. Flushing'
  BY DEF CapturedInv, Flushing
<1>4. Behind'
  BY <1>1 DEF CapturedInv, Behind
<1>5. Overtaken'
  BY <1>1, <1>2 DEF CapturedInv, Overtaken
<1> QED
  BY <1>3, <1>4, <1>5 DEF CapturedInv

\* A thread joins the writers, or goes back to the wait for the file's lock.
LEMMA CapturedJoins ==
  ASSUME CapturedInv, NEW t \in Thread, call[t] = None \/ call[t].at = "mark",
         call'[t] # None, call'[t].part = "captured", call'[t].at \in {"mark", "persist"},
         call[t] = None \/ call[t].op = call'[t].op,
         \A w \in Thread \ {t} : call'[w] = call[w],
         ~inFlight' \/ inFlight' = inFlight \/ call'[t].op = "flush"
  PROVE  CapturedInv'
<1>1. t \in Writers("captured")' /\ call'[t].at \in {"mark", "persist"}
  BY DEF Writers
<1>2. Flushing'
  BY DEF CapturedInv, Flushing
<1>3. Behind'
  BY <1>1 DEF Behind
<1>4. Overtaken'
  BY <1>1 DEF Overtaken
<1> QED
  BY <1>2, <1>3, <1>4 DEF CapturedInv

LEMMA CapturedMarks ==
  ASSUME TypeOK, CallsInv, CapturedInv, NEW t \in Thread, MarkDirty(t)
  PROVE  CapturedInv'
<1>1. /\ call[t] # None /\ call[t].at = "mark" /\ dirty' = TRUE /\ inFlight' = inFlight
      /\ call[t].part = "captured" /\ call[t].op # "flush"
  BY DEF MarkDirty, CallsInv, Fits
<1>2. CASE At(t, "persist")
  <2>1. Went(t, "persist")
    BY <1>1, <1>2, AtType DEF Step
  <2> QED
    BY <1>1, <2>1, CapturedJoins DEF Went
<1>3. CASE Done(t)
  <2>1. call'[t] = None /\ \A w \in Thread \ {t} : call'[w] = call[w]
    BY <1>3, DoneType
  <2>2. Flushing'
    BY <1>1, <2>1 DEF CapturedInv, Flushing
  <2> QED
    BY <1>1, <2>2 DEF CapturedInv, Behind, Overtaken
<1> QED
  BY <1>2, <1>3 DEF MarkDirty

LEMMA CapturedBegins ==
  ASSUME TypeOK, CallsInv, CapturedInv, NEW t \in Thread,
         \/ \E o \in Origin : StoreCaptured(t, o)
         \/ ClearCaptured(t)
         \/ FlushCaptured(t)
  PROVE  CapturedInv'
<1>1. CASE (\E o \in Origin : StoreCaptured(t, o)) \/ ClearCaptured(t)
  <2>1. PICK op \in {"capture", "defer", "clear"}, at \in {"mark", "persist"}, content \in SUBSET Item :
          ChangedMap(t, op, at, "captured", content, {})
    BY <1>1, CapturedChange
  <2> QED
    BY <2>1, CapturedJoins DEF ChangedMap, Begun
<1>2. CASE FlushCaptured(t)
  <2>1. Begun(t, "flush", "persist", "captured", {}, {})
    BY <1>2, BeginType DEF FlushCaptured, Ops, Step
  <2>2. call[t] = None
    BY <1>2 DEF FlushCaptured, Free
  <2> QED
    BY <2>1, <2>2, CapturedJoins DEF Begun
<1> QED
  BY <1>1, <1>2

\* The map is marked clean before its snapshot is taken.
LEMMA CapturedLocks ==
  ASSUME TypeOK, CallsInv, CapturedInv, NEW t \in Thread, LockFile(t)
  PROVE  CapturedInv'
<1>0. PICK p : p = call[t].part
  OBVIOUS
<1>1. /\ call[t] # None /\ call[t].at = "persist" /\ p \in Penned /\ pen[p] = None
      /\ UNCHANGED <<mem, inFlight, file, opened>>
  BY <1>0 DEF LockFile, Penning
<1>2. Went(t, "locked")
  BY <1>1, AtType DEF LockFile, Step
<1>3. CASE p = "provisioned"
  <2>1. dirty' = dirty
    BY <1>0, <1>3 DEF LockFile, TypeOK
  <2>2. call[t].op # "flush"
    BY <1>0, <1>1, <1>3 DEF CallsInv, Fits
  <2> QED
    BY <1>0, <1>1, <1>2, <1>3, <2>1, <2>2, CapturedStill DEF Went
<1>4. CASE p = "captured"
  <2>1. t \in Writers("captured")' /\ call'[t].at = "locked"
    BY <1>0, <1>2, <1>4 DEF Writers, Went
  <2>2. Behind'
    BY <2>1 DEF Behind
  <2>3. \A w \in Writers("captured") : call[w].at # "publish"
    BY <1>1, <1>4, Bounds DEF CallsInv, Fits, Writers, Holding
  <2>4. Overtaken'
    BY <1>2, <2>3 DEF Overtaken, Went, Writers
  <2>5. Flushing'
    BY <1>1, <1>2 DEF CapturedInv, Flushing, Went
  <2> QED
    BY <2>2, <2>4, <2>5 DEF CapturedInv
<1> QED
  BY <1>1, <1>3, <1>4

LEMMA CapturedShots ==
  ASSUME TypeOK, CallsInv, CapturedInv, NEW t \in Thread, Snapshot(t)
  PROVE  CapturedInv'
<1>1. /\ call[t] # None /\ call[t].at = "locked" /\ call[t].part \in Penned
      /\ UNCHANGED <<mem, dirty, inFlight, file, opened>>
  BY DEF Snapshot, Penning
<1>2. Shot(t)
  BY <1>1, ShotType DEF Snapshot
<1>3. CASE call[t].part = "provisioned"
  <2>1. call[t].op # "flush"
    BY <1>1, <1>3 DEF CallsInv, Fits
  <2> QED
    BY <1>1, <1>2, <1>3, <2>1, CapturedStill DEF Shot
<1>4. CASE call[t].part = "captured"
  <2>1. t \in Writers("captured")' /\ call'[t].at = "publish" /\ call'[t].snap = mem["captured"]
    BY <1>2, <1>4 DEF Writers, Shot
  <2>2. Behind'
    BY <2>1 DEF Behind
  <2>3. \A w \in Writers("captured") : call[w].at \in Holding => w = t
    BY <1>1, <1>4, OneWriter DEF Writers, Holding
  <2>4. \A w \in Writers("captured")' : w = t \/ call'[w].at # "publish"
    BY <1>2, <2>3 DEF Writers, Holding, Shot
  <2>5. Overtaken'
    BY <1>1, <2>1, <2>4 DEF Overtaken
  <2>6. Flushing'
    BY <1>1, <1>2 DEF CapturedInv, Flushing, Shot
  <2> QED
    BY <2>2, <2>5, <2>6 DEF CapturedInv
<1> QED
  BY <1>1, <1>3, <1>4

LEMMA CapturedPublishes ==
  ASSUME TypeOK, CallsInv, CapturedInv, NEW t \in Thread, Publish(t)
  PROVE  CapturedInv'
<1>0. PICK p : p = call[t].part
  OBVIOUS
<1>1. /\ call[t] # None /\ call[t].at = "publish" /\ p \in Penned
      /\ Renamed(p, call[t].snap) /\ UNCHANGED <<mem, dirty, inFlight, opened>>
  BY <1>0 DEF Publish, Penning
<1>2. Went(t, "sync")
  BY <1>1, AtType DEF Publish, Step
<1>3. /\ file'[p].holds = call[t].snap
      /\ \A q \in Parts \ {p} : file'[q] = file[q]
  BY <1>1, CallFields, RenamedType
<1>4. CASE p = "provisioned"
  <2>1. call[t].op # "flush"
    BY <1>0, <1>1, <1>4 DEF CallsInv, Fits
  <2> QED
    BY <1>0, <1>1, <1>2, <1>3, <1>4, <2>1, CapturedStill DEF Went
<1>5. CASE p = "captured"
  <2>1. t \in Writers("captured")
    BY <1>0, <1>1, <1>5 DEF Writers
  <2>2. \A w \in Writers("captured") : call[w].at \in Holding => w = t
    BY <1>0, <1>1, <1>5, OneWriter DEF Writers, Holding
  <2>3. ASSUME ~dirty, mem["captured"] # call[t].snap
        PROVE  \E w \in Writers("captured")' : call'[w].at \in {"mark", "persist"}
    <3>1. PICK w \in Writers("captured") : call[w].at \in {"mark", "persist"}
      BY <1>1, <2>1, <2>3 DEF CapturedInv, Overtaken
    <3> QED
      BY <1>1, <1>2, <3>1 DEF Writers, Went
  <2>4. Behind'
    BY <1>1, <1>3, <1>5, <2>3 DEF Behind
  <2>5. \A w \in Writers("captured")' : call'[w].at # "publish"
    BY <1>2, <2>2 DEF Writers, Holding, Went
  <2>6. Overtaken'
    BY <2>5 DEF Overtaken
  <2>7. Flushing'
    BY <1>1, <1>2 DEF CapturedInv, Flushing, Went
  <2> QED
    BY <2>4, <2>6, <2>7 DEF CapturedInv
<1> QED
  BY <1>1, <1>4, <1>5

\* A write that failed leaves the map dirty, and one that did not was at its end.
LEMMA CapturedEnds ==
  ASSUME TypeOK, CallsInv, CapturedInv, NEW t \in Thread, PublishFails(t) \/ Synced(t) \/ SyncFails(t)
  PROVE  CapturedInv'
<1>0. PICK p : p = call[t].part
  OBVIOUS
<1>1. call[t] # None /\ p \in Penned /\ call[t].at \in {"publish", "sync"} /\ file' = file
  BY <1>0 DEF PublishFails, Synced, SyncFails, Penning
<1>2. PICK ok \in BOOLEAN : Persisted(t, ok) /\ (ok => Synced(t))
  BY DEF PublishFails, Synced, SyncFails
<1>3. /\ call'[t] = None /\ \A w \in Thread \ {t} : call'[w] = call[w]
      /\ UNCHANGED <<mem, opened>>
  BY <1>0, <1>1, <1>2, PersistedMoves
<1>4. Flushing'
  <2>1. inFlight' => inFlight /\ call[t].op # "flush"
    BY <1>2 DEF Persisted
  <2> QED
    BY <1>3, <2>1 DEF CapturedInv, Flushing
<1>5. CASE p = "provisioned"
  <2>1. call[t].op # "flush"
    BY <1>0, <1>1, <1>5 DEF CallsInv, Fits
  <2>2. dirty' = dirty
    <3>1. dirty' = (dirty \/ (call[t].part = "captured" /\ ~ok))
      BY <1>2 DEF Persisted
    <3> QED
      BY <1>0, <1>5, <3>1 DEF TypeOK
  <2>3. inFlight' = inFlight \/ ~inFlight'
    <3>1. inFlight' = (inFlight /\ call[t].op # "flush")
      BY <1>2 DEF Persisted
    <3> QED
      BY <2>1, <3>1 DEF TypeOK
  <2> QED
    BY <1>0, <1>1, <1>3, <1>5, <2>1, <2>2, <2>3, CapturedStill
<1>6. CASE p = "captured" /\ ~ok
  <2>1. dirty'
    BY <1>0, <1>2, <1>6 DEF Persisted
  <2> QED
    BY <1>4, <2>1 DEF CapturedInv, Behind, Overtaken
<1>7. CASE p = "captured" /\ ok
  <2>1. call[t].at = "sync"
    BY <1>2, <1>7 DEF Synced, Penning
  <2>2. dirty' => dirty
    BY <1>0, <1>2, <1>7 DEF Persisted
  <2>3. dirty => dirty'
    BY <1>2 DEF Persisted
  <2>4. Behind'
    BY <1>1, <1>3, <2>1, <2>2, <2>3 DEF CapturedInv, Behind, Writers
  <2>5. \A w \in Writers("captured") : call[w].at \in Holding => w = t
    BY <1>0, <1>1, <1>7, OneWriter DEF Writers, Holding
  <2>6. Overtaken'
    BY <1>3, <2>5 DEF Overtaken, Writers, Holding
  <2> QED
    BY <1>4, <2>4, <2>6 DEF CapturedInv
<1> QED
  BY <1>1, <1>5, <1>6, <1>7

\* What an OAuth step does to the captured partition: nothing.
LEMMA CapturedOauth ==
  ASSUME TypeOK, CallsInv, CapturedInv, NEW t \in Thread,
         \/ \E d \in Doc : WriteOauth(t, d)
         \/ \E r \in Record : RemoveOauth(t, r)
         \/ Commit(t) \/ CommitFails(t) \/ Settle(t) \/ SettleFails(t)
  PROVE  CapturedInv'
<1>1. ASSUME NEW op \in {"write", "take", "delete"}, NEW content \in SUBSET Item,
             NEW items \in SUBSET Doc, OauthChange(t, op, content, items)
      PROVE  CapturedInv'
  <2>1. OauthBegun(t, op, content, items)
    BY <1>1, OauthMoves
  <2>2. op \in Ops /\ "commit" \in Step /\ items \in SUBSET Item /\ mem["oauth"] \in SUBSET Item
    BY DEF Ops, Step, Item, TypeOK
  <2>3. Begun(t, op, "commit", "oauth", items, mem["oauth"])
    BY <2>1, <2>2, BeginType DEF OauthBegun
  <2> QED
    BY <2>1, <2>3, CapturedStill DEF OauthBegun, Begun
<1>2. ASSUME NEW d \in Doc, WriteOauth(t, d) PROVE CapturedInv'
  <2>1. PICK content \in SUBSET Item : OauthChange(t, "write", content, {d})
    BY <1>2, WriteOauthIs
  <2> QED
    BY <1>1, <2>1
<1>3. ASSUME NEW r \in Record, RemoveOauth(t, r) PROVE CapturedInv'
  <2>1. PICK op \in {"take", "delete"}, found \in SUBSET Doc :
          OauthChange(t, op, mem["oauth"] \ found, found)
    BY <1>3, RemoveOauthIs
  <2>2. mem["oauth"] \ found \in SUBSET Item
    BY DEF TypeOK
  <2> QED
    BY <1>1, <2>1, <2>2
<1>4. CASE Commit(t) \/ CommitFails(t) \/ Settle(t) \/ SettleFails(t)
  <2>1. call[t] # None /\ call[t].part = "oauth" /\ call[t].op # "flush"
    BY <1>4 DEF Commit, CommitFails, Settle, SettleFails, Committing, CallsInv, Fits
  <2>2. call'[t] = None \/ call'[t].part # "captured"
    BY <1>4, <2>1, AtType, DoneType
       DEF Commit, CommitFails, Settle, SettleFails, Answered, Went, Step
  <2>3. \A w \in Thread \ {t} : call'[w] = call[w]
    BY <1>4, <2>1, AtType, DoneType
       DEF Commit, CommitFails, Settle, SettleFails, Answered, Went, Step
  <2>4. mem'["captured"] = mem["captured"] /\ file'["captured"] = file["captured"]
    BY <1>4 DEF Commit, CommitFails, Settle, SettleFails, Renamed, TypeOK
  <2>5. UNCHANGED <<dirty, inFlight, opened>>
    BY <1>4 DEF Commit, CommitFails, Settle, SettleFails, Answered
  <2> QED
    BY <2>1, <2>2, <2>3, <2>4, <2>5, CapturedStill
<1> QED
  BY <1>2, <1>3, <1>4

\* Nobody is at work when the store is closed, opened or damaged.
LEMMA CapturedOpens ==
  ASSUME TypeOK, CallsInv, CapturedInv,
         \/ Crash
         \/ \E p \in Parts : Damage(p)
         \/ \E mode \in {"new", "open", "resolve"} : Open(mode, {}, {})
  PROVE  CapturedInv'
<1>1. CASE Crash
  <2>1. opened'.now = FALSE /\ inFlight' = FALSE /\ call' = [t \in Thread |-> None]
    BY <1>1 DEF Crash, TypeOK
  <2> QED
    BY <2>1 DEF CapturedInv, Flushing, Behind, Overtaken, Writers
<1>2. ASSUME NEW p \in Parts, Damage(p) PROVE CapturedInv'
  <2>1. UNCHANGED <<mem, inFlight, dirty, call, opened>> /\ file'["captured"].holds = file["captured"].holds
    BY <1>2, DamageFiles DEF Damage
  <2> QED
    BY <2>1 DEF CapturedInv, Flushing, Behind, Overtaken, Writers
<1>3. ASSUME NEW mode \in {"new", "open", "resolve"}, Open(mode, {}, {}) PROVE CapturedInv'
  <2>1. call' = call /\ inFlight' = inFlight /\ \A t \in Thread : call[t] = None
    BY <1>3 DEF Open, CallsInv
  <2>2. opened'.now => mem'["captured"] = file'["captured"].holds
    BY <1>3, OpenReads
  <2> QED
    BY <2>1, <2>2 DEF CapturedInv, Flushing, Behind, Overtaken, Writers
<1> QED
  BY <1>1, <1>2, <1>3

LEMMA CapturedNext ==
  ASSUME Faults \subseteq {"damaged"}, TypeOK, CallsInv, CapturedInv, [Next]_vars
  PROVE  CapturedInv'
<1>1. ASSUME NEW t \in Thread, Work(t) PROVE CapturedInv'
  <2>1. ASSUME NEW i \in Id, StoreProvisioned(t, i) \/ DeleteProvisioned(t, i) PROVE CapturedInv'
    <3>1. PICK op \in {"store", "delete"}, content \in SUBSET Item :
            ChangedMap(t, op, "persist", "provisioned", content, {i})
      BY <2>1, ProvisionedChange
    <3> QED
      BY <3>1, CapturedStill DEF ChangedMap, Begun
  <2> QED
    BY <1>1, <2>1, CapturedMarks, CapturedBegins, CapturedLocks, CapturedShots, CapturedPublishes,
       CapturedEnds, CapturedOauth DEF Work
<1>2. CASE Crash
  BY <1>2, CapturedOpens
<1>3. ASSUME NEW p \in Parts, Damage(p) PROVE CapturedInv'
  BY <1>3, CapturedOpens
<1>4. ASSUME NEW mode \in {"new", "open", "resolve"}, NEW hidden \in SUBSET Parts,
             NEW stuck \in SUBSET Parts, Open(mode, hidden, stuck)
      PROVE  CapturedInv'
  BY <1>4, OpenPlainly, CapturedOpens
<1>5. CASE UNCHANGED vars
  BY <1>5 DEF vars, CapturedInv, Flushing, Behind, Overtaken, Writers
<1> QED
  BY <1>1, <1>2, <1>3, <1>4, <1>5, Cases

-----------------------------------------------------------------------------
(* OAuth documents: memory and file, and what was taken *)

\* An open partition is in memory as it is on disk, but for the commit of the one
\* thread that has the state lock; what it is about to give out it has removed.
OauthInv ==
  /\ (opened.now /\ status["oauth"] = "loaded" /\ guard = None) => mem["oauth"] = file["oauth"].holds
  /\ \A t \in Writers("oauth") :
       /\ status["oauth"] = "loaded"
       /\ call[t].at = "commit" => file["oauth"].holds = call[t].snap
       /\ call[t].at = "settle" => file["oauth"].holds = mem["oauth"]
       /\ call[t].op = "take" => call[t].items \cap mem["oauth"] = {}

Taken == OauthInv /\ TakenIsGone

LEMMA TakenInit == Init => Taken
  BY DEF Init, Taken, OauthInv, TakenIsGone, Files, Writers, GhostInit, Empty

\* A change of another partition.
LEMMA TakenStill ==
  ASSUME Taken,
         \A w \in Thread : call'[w] # None /\ call'[w].part = "oauth" => call'[w] = call[w],
         mem'["oauth"] = mem["oauth"], file'["oauth"] = file["oauth"],
         older'["oauth"] = older["oauth"], status' = status, guard' = guard, opened' = opened,
         ghost'.given = ghost.given
  PROVE  Taken'
<1>1. OauthInv'
  BY DEF Taken, OauthInv, Writers
<1>2. TakenIsGone'
  BY DEF Taken, TakenIsGone, Files
<1> QED
  BY <1>1, <1>2 DEF Taken

LEMMA TakenOthers ==
  ASSUME TypeOK, CallsInv, Taken, NEW t \in Thread,
         \/ \E i \in Id : StoreProvisioned(t, i) \/ DeleteProvisioned(t, i)
         \/ (\E o \in Origin : StoreCaptured(t, o)) \/ ClearCaptured(t)
         \/ MarkDirty(t) \/ FlushCaptured(t) \/ LockFile(t) \/ Snapshot(t)
  PROVE  Taken'
<1>1. ASSUME NEW i \in Id, StoreProvisioned(t, i) \/ DeleteProvisioned(t, i) PROVE Taken'
  <2>1. PICK op \in {"store", "delete"}, content \in SUBSET Item :
          ChangedMap(t, op, "persist", "provisioned", content, {i})
    BY <1>1, ProvisionedChange
  <2>2. ghost'.given = ghost.given
    BY <1>1 DEF StoreProvisioned, DeleteProvisioned, TypeOK
  <2> QED
    BY <2>1, <2>2, TakenStill DEF ChangedMap, Begun
<1>2. CASE (\E o \in Origin : StoreCaptured(t, o)) \/ ClearCaptured(t)
  <2>1. PICK op \in {"capture", "defer", "clear"}, at \in {"mark", "persist"}, content \in SUBSET Item :
          ChangedMap(t, op, at, "captured", content, {})
    BY <1>2, CapturedChange
  <2>2. ghost' = ghost
    BY <1>2, CapturedChange
  <2> QED
    BY <2>1, <2>2, TakenStill DEF ChangedMap, Begun
<1>3. CASE MarkDirty(t)
  <2>1. call[t] # None /\ call[t].part = "captured"
    BY <1>3 DEF MarkDirty, CallsInv, Fits
  <2>2. Went(t, "persist") \/ (call'[t] = None /\ \A w \in Thread \ {t} : call'[w] = call[w])
    BY <1>3, AtType, DoneType DEF MarkDirty, Step
  <2> QED
    BY <1>3, <2>1, <2>2, TakenStill DEF MarkDirty, Went
<1>4. CASE FlushCaptured(t)
  <2>1. Begun(t, "flush", "persist", "captured", {}, {})
    BY <1>4, BeginType DEF FlushCaptured, Ops, Step
  <2> QED
    BY <1>4, <2>1, TakenStill DEF FlushCaptured, Begun
<1>5. CASE LockFile(t)
  <2>1. Went(t, "locked") /\ call[t].part # "oauth"
    BY <1>5, AtType DEF LockFile, Penning, Step
  <2> QED
    BY <1>5, <2>1, TakenStill DEF LockFile, Went
<1>6. CASE Snapshot(t)
  <2>1. Shot(t) /\ call[t].part # "oauth"
    BY <1>6, ShotType DEF Snapshot, Penning
  <2> QED
    BY <1>6, <2>1, TakenStill DEF Snapshot, Shot
<1> QED
  BY <1>1, <1>2, <1>3, <1>4, <1>5, <1>6

LEMMA TakenWrites ==
  ASSUME TypeOK, CallsInv, Taken, NEW t \in Thread,
         Publish(t) \/ PublishFails(t) \/ Synced(t) \/ SyncFails(t)
  PROVE  Taken'
<1>0. PICK p : p = call[t].part
  OBVIOUS
<1>1. call[t] # None /\ p \in Penned /\ p \in Parts /\ call[t].at \in {"publish", "sync"}
  BY <1>0 DEF Publish, PublishFails, Synced, SyncFails, Penning
<1>2. CASE Publish(t)
  <2>1. Went(t, "sync") /\ Renamed(p, call[t].snap)
    BY <1>0, <1>1, <1>2, AtType DEF Publish, Step
  <2>2. file'["oauth"] = file["oauth"] /\ older'["oauth"] = older["oauth"]
    BY <1>1, <2>1, CallFields, RenamedType
  <2> QED
    BY <1>0, <1>1, <1>2, <2>1, <2>2, TakenStill DEF Publish, Went
<1>3. CASE PublishFails(t) \/ Synced(t) \/ SyncFails(t)
  <2>1. PICK ok \in BOOLEAN : Persisted(t, ok)
    BY <1>3 DEF PublishFails, Synced, SyncFails
  <2>2. /\ call'[t] = None /\ \A w \in Thread \ {t} : call'[w] = call[w]
        /\ UNCHANGED <<mem, status, guard, saved, opened>> /\ ghost'.given = ghost.given
    BY <1>0, <1>1, <2>1, PersistedMoves
  <2>3. file' = file /\ older'["oauth"] = older["oauth"]
    BY <1>0, <1>1, <1>3, DirSyncedType DEF PublishFails, Synced, SyncFails
  <2> QED
    BY <2>2, <2>3, TakenStill
<1> QED
  BY <1>2, <1>3

\* Only the thread with the state lock is on an OAuth call.
LEMMA OneChange ==
  ASSUME CallsInv, NEW w \in Writers("oauth") PROVE w = guard
  BY DEF CallsInv, Fits, Writers

LEMMA TakenBegins ==
  ASSUME TypeOK, CallsInv, Taken, NEW t \in Thread, NEW op \in {"write", "take", "delete"},
         NEW content \in SUBSET Item, NEW items \in SUBSET Doc, OauthChange(t, op, content, items),
         content \cap ghost.given = {}, op = "take" => items \cap content = {}
  PROVE  Taken'
<1>1. OauthBegun(t, op, content, items)
  BY OauthMoves
<1>2. op \in Ops /\ "commit" \in Step /\ items \in SUBSET Item /\ mem["oauth"] \in SUBSET Item
  BY DEF Ops, Step, Item, TypeOK
<1>3. Begun(t, op, "commit", "oauth", items, mem["oauth"])
  BY <1>1, <1>2, BeginType DEF OauthBegun
<1>4. file["oauth"].holds = mem["oauth"]
  BY <1>1 DEF OauthBegun, Taken, OauthInv
<1>5. \A w \in Writers("oauth")' : w = t
  <2>1. Writers("oauth") = {}
    BY <1>1, OneChange, Bounds DEF OauthBegun, Writers
  <2> QED
    BY <1>3, <2>1 DEF Writers, Begun
<1>6. OauthInv'
  <2>1. guard' # None
    BY <1>1, Bounds DEF OauthBegun
  <2> QED
    BY <1>1, <1>3, <1>4, <1>5, <2>1 DEF OauthInv, OauthBegun, Begun
<1>7. TakenIsGone'
  BY <1>1 DEF Taken, TakenIsGone, Files, OauthBegun
<1> QED
  BY <1>6, <1>7 DEF Taken

LEMMA TakenChanges ==
  ASSUME TypeOK, CallsInv, Taken, NEW t \in Thread,
         (\E d \in Doc : WriteOauth(t, d)) \/ (\E r \in Record : RemoveOauth(t, r))
  PROVE  Taken'
<1>0. mem["oauth"] \cap ghost.given = {}
  BY DEF Taken, TakenIsGone, Files
<1>1. ASSUME NEW d \in Doc, WriteOauth(t, d) PROVE Taken'
  <2>1. PICK content \in SUBSET Item :
          /\ OauthChange(t, "write", content, {d})
          /\ content \subseteq mem["oauth"] \cup {d} /\ d \notin ghost.given
    BY <1>1, WriteOauthIs
  <2>2. content \cap ghost.given = {} /\ {d} \in SUBSET Doc
    BY <1>0, <2>1
  <2> QED
    BY <2>1, <2>2, TakenBegins
<1>2. ASSUME NEW r \in Record, RemoveOauth(t, r) PROVE Taken'
  <2>1. PICK op \in {"take", "delete"}, found \in SUBSET Doc :
          OauthChange(t, op, mem["oauth"] \ found, found)
    BY <1>2, RemoveOauthIs
  <2>2. /\ mem["oauth"] \ found \in SUBSET Item /\ (mem["oauth"] \ found) \cap ghost.given = {}
        /\ found \cap (mem["oauth"] \ found) = {}
    BY <1>0 DEF TypeOK
  <2> QED
    BY <2>1, <2>2, TakenBegins
<1> QED
  BY <1>1, <1>2

LEMMA TakenCommits ==
  ASSUME TypeOK, CallsInv, Taken, NEW t \in Thread, Commit(t)
  PROVE  Taken'
<1>1. /\ call[t] # None /\ call[t].part = "oauth" /\ call[t].at = "commit"
      /\ Renamed("oauth", mem["oauth"]) /\ UNCHANGED <<mem, status, guard, opened, ghost>>
  BY DEF Commit, Committing
<1>2. Went(t, "settle")
  BY <1>1, AtType DEF Commit, Step
<1>3. "oauth" \in Parts /\ mem["oauth"] \in SUBSET Item
  BY DEF TypeOK
<1>4. file'["oauth"].holds = mem["oauth"] /\ Files("oauth")' = Files("oauth") \cup {file'["oauth"]}
  BY <1>1, <1>3, RenamedType
<1>5. t \in Writers("oauth") /\ guard = t /\ guard # None
  BY <1>1, OneChange, Bounds DEF Writers
<1>6. \A w \in Writers("oauth")' : w = t
  BY <1>2, <1>5, OneChange DEF Writers, Went
<1>7. OauthInv'
  BY <1>1, <1>2, <1>4, <1>5, <1>6 DEF Taken, OauthInv, Went
<1>8. ghost.given \cap mem["oauth"] = {}
  BY DEF Taken, TakenIsGone, Files
<1>9. TakenIsGone'
  BY <1>1, <1>4, <1>8 DEF Taken, TakenIsGone
<1> QED
  BY <1>7, <1>9 DEF Taken

\* A commit that failed is undone in memory; one that is settled gives out what it
\* took from memory, file and all that may come back.
LEMMA TakenEnds ==
  ASSUME TypeOK, CallsInv, Taken, NEW t \in Thread, CommitFails(t) \/ Settle(t) \/ SettleFails(t)
  PROVE  Taken'
<1>1. /\ call[t] # None /\ call[t].part = "oauth" /\ Answered(t)
      /\ file' = file /\ guard' = None
  BY DEF CommitFails, Settle, SettleFails, Committing, Answered
<1>2. call'[t] = None /\ opened' = opened /\ \A w \in Thread \ {t} : call'[w] = call[w]
  BY <1>1, AnsweredMoves
<1>3. t \in Writers("oauth") /\ guard = t /\ opened.now
  BY <1>1, OneChange DEF Writers, CallsInv
<1>4. Writers("oauth")' = {}
  BY <1>2, <1>3, OneChange DEF Writers
<1>5. ghost.given \cap file["oauth"].holds = {} /\ ghost.given \cap mem["oauth"] = {}
  BY DEF Taken, TakenIsGone, Files
<1>6. CASE CommitFails(t)
  <2>1. mem'["oauth"] = call[t].snap /\ UNCHANGED <<status, older, ghost>> /\ call[t].at = "commit"
    BY <1>6 DEF CommitFails, Committing, TypeOK
  <2>2. mem'["oauth"] = file["oauth"].holds
    BY <1>3, <2>1 DEF Taken, OauthInv
  <2>3. OauthInv'
    BY <1>1, <1>4, <2>2 DEF OauthInv
  <2>4. TakenIsGone'
    BY <1>1, <1>5, <2>1, <2>2 DEF Taken, TakenIsGone, Files
  <2> QED
    BY <2>3, <2>4 DEF Taken
<1>7. CASE Settle(t)
  <2>1. mem' = mem /\ DirSynced("oauth") /\ status' = status /\ call[t].at = "settle"
    BY <1>7 DEF Settle, Committing
  <2>2. file["oauth"].holds = mem["oauth"]
    BY <1>3, <2>1 DEF Taken, OauthInv
  <2>3. OauthInv'
    BY <1>1, <1>4, <2>1, <2>2 DEF OauthInv
  <2>4. Files("oauth")' = {file["oauth"]}
    BY <1>1, <2>1, DirSyncedType DEF Files
  <2>5. ghost'.given \cap mem["oauth"] = {}
    <3>1. CASE call[t].op = "take"
      <4>1. call[t].items \cap mem["oauth"] = {}
        BY <1>3, <3>1 DEF Taken, OauthInv
      <4>2. ghost'.given = ghost.given \cup call[t].items
        BY <1>7, <3>1 DEF Settle, TypeOK
      <4> QED
        BY <1>5, <4>1, <4>2
    <3>2. CASE call[t].op # "take"
      BY <1>5, <1>7, <3>2 DEF Settle
    <3> QED
      BY <3>1, <3>2
  <2>6. TakenIsGone'
    BY <2>1, <2>2, <2>4, <2>5 DEF TakenIsGone
  <2> QED
    BY <2>3, <2>6 DEF Taken
<1>8. CASE SettleFails(t)
  <2>1. status'["oauth"] = "unknown" /\ UNCHANGED <<mem, older, ghost>>
    BY <1>8 DEF SettleFails, TypeOK
  <2>2. OauthInv'
    BY <1>4, <2>1 DEF OauthInv
  <2>3. TakenIsGone'
    BY <1>1, <2>1 DEF Taken, TakenIsGone, Files
  <2> QED
    BY <2>2, <2>3 DEF Taken
<1> QED
  BY <1>6, <1>7, <1>8

LEMMA TakenCrashes == ASSUME TypeOK, CallsInv, Taken, Crash PROVE Taken'
<1>1. /\ opened'.now = FALSE /\ call' = [t \in Thread |-> None] /\ ghost' = ghost
      /\ mem' = [p \in Parts |-> {}]
  BY DEF Crash, TypeOK
<1>2. Files("oauth")' \subseteq Files("oauth")
  BY CrashFiles DEF Files
<1>3. TakenIsGone'
  BY <1>1, <1>2 DEF Taken, TakenIsGone
<1>4. OauthInv'
  BY <1>1 DEF OauthInv, Writers
<1> QED
  BY <1>3, <1>4 DEF Taken

LEMMA TakenDamage == ASSUME TypeOK, CallsInv, Taken, NEW p \in Parts, Damage(p) PROVE Taken'
<1>1. UNCHANGED <<mem, call, status, guard, opened, ghost>> /\ ~opened.now
  BY DEF Damage
<1>2. \A f \in Files("oauth")' : \E g \in Files("oauth") : f.holds = g.holds
  BY DamageFiles DEF Files
<1>3. TakenIsGone'
  BY <1>1, <1>2 DEF Taken, TakenIsGone
<1>4. OauthInv'
  BY <1>1 DEF OauthInv, Writers, CallsInv
<1> QED
  BY <1>3, <1>4 DEF Taken

LEMMA TakenOpens ==
  ASSUME TypeOK, CallsInv, Taken, NEW mode \in {"new", "open", "resolve"},
         NEW hidden \in SUBSET Parts, NEW stuck \in SUBSET Parts, Open(mode, hidden, stuck)
  PROVE  Taken'
<1> DEFINE p == "oauth"
<1>1. ghost' = ghost /\ call' = call /\ \A t \in Thread : call[t] = None
  BY DEF Open, CallsInv
<1>2. Aside(p) \/ AsBefore(p)
  BY OpenFiles
<1>3. \A f \in Files(p)' : ghost.given \cap f.holds = {}
  BY <1>2 DEF Files, Aside, AsBefore, Empty, Taken, TakenIsGone
<1>4. mem'[p] \subseteq file[p].holds
  BY DEF Open
<1>5. file[p] \in Files(p)
  BY DEF Files
<1>6. TakenIsGone'
  BY <1>1, <1>3, <1>4, <1>5 DEF Taken, TakenIsGone
<1>7. opened'.now /\ status'[p] = "loaded" => mem'[p] = file'[p].holds
  BY OpenReads
<1>8. OauthInv'
  BY <1>1, <1>7 DEF OauthInv, Writers
<1> QED
  BY <1>6, <1>8 DEF Taken

LEMMA TakenNext == ASSUME TypeOK, CallsInv, Taken, [Next]_vars PROVE Taken'
<1>1. ASSUME NEW t \in Thread, Work(t) PROVE Taken'
  BY <1>1, TakenOthers, TakenWrites, TakenChanges, TakenCommits, TakenEnds DEF Work
<1>2. CASE Crash
  BY <1>2, TakenCrashes
<1>3. ASSUME NEW p \in Parts, Damage(p) PROVE Taken'
  BY <1>3, TakenDamage
<1>4. ASSUME NEW mode \in {"new", "open", "resolve"}, NEW hidden \in SUBSET Parts,
             NEW stuck \in SUBSET Parts, Open(mode, hidden, stuck)
      PROVE  Taken'
  BY <1>4, TakenOpens
<1>5. CASE UNCHANGED vars
  BY <1>5 DEF vars, Taken, OauthInv, TakenIsGone, Writers, Files
<1> QED
  BY <1>1, <1>2, <1>3, <1>4, <1>5, Cases

\* A document that take returned is in memory no more and in no file that a restart
\* may read, whatever is wrong with the files (take_mcp_oauth, write_mcp_oauth).
THEOREM TakenIsGoneHolds == Spec => []TakenIsGone
<1>1. Init => TypeOK /\ CallsInv /\ Taken
  BY TypeInit, TakenInit
<1>2. (TypeOK /\ CallsInv /\ Taken) /\ [Next]_vars => (TypeOK /\ CallsInv /\ Taken)'
  BY TypeNext, TakenNext
<1>3. Taken => TakenIsGone
  BY DEF Taken
<1> QED
  BY <1>1, <1>2, <1>3, PTL DEF Spec

\* Captured sessions that are clean and that nobody writes are on disk as they are in
\* memory, and so is every OAuth document of an open partition; a flush that others
\* leave the next one to is really under way; for files that can be got at and moved
\* aside (flush_captured, persist_captured, write_mcp_oauth).
THEOREM DiskFollowsMemoryHolds ==
  ASSUME Faults \subseteq {"damaged"} PROVE Spec => []DiskFollowsMemory
<1>1. Init => TypeOK /\ CallsInv /\ Taken /\ CapturedInv
  BY TypeInit, TakenInit, CapturedInit
<1>2. /\ TypeOK /\ CallsInv /\ Taken /\ CapturedInv /\ [Next]_vars
      => (TypeOK /\ CallsInv /\ Taken /\ CapturedInv)'
  BY TypeNext, TakenNext, CapturedNext
<1>3. Taken /\ CapturedInv => DiskFollowsMemory
  BY DEF Taken, OauthInv, CapturedInv, Flushing, Behind, DiskFollowsMemory, Writers
<1> QED
  BY <1>1, <1>2, <1>3, PTL DEF Spec

=============================================================================
