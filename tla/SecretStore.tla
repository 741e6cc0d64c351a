---------------------------- MODULE SecretStore ----------------------------
(***************************************************************************)
(* The durable partitions of one secret store (magicvault-core/src/        *)
(* store.rs): provisioned secrets, captured sessions and OAuth documents,  *)
(* each with a map in memory and an encrypted file that every write        *)
(* replaces whole (magicvault-primitives/src/durable_io.rs).               *)
(*                                                                         *)
(* Provisioned and captured changes are made under the state lock, which   *)
(* is let go before the file is written; a lock per file orders the        *)
(* writers.  An OAuth change holds the state lock until its file is        *)
(* written or has failed.  What a session holds is in CapturedSession;     *)
(* here an entry is there or not.  Encryption is a primitive: a file can   *)
(* be read, or it cannot.                                                  *)
(***************************************************************************)
EXTENDS Naturals, FiniteSets

CONSTANTS
  Id,          \* provisioned secrets
  Origin,      \* origins of captured sessions
  Doc,         \* OAuth documents
  Record,      \* OAuth record identifiers
  recordOf,    \* the record each document is written under
  Thread,      \* callers of the store
  None,        \* absence of a value
  MaxRecords,  \* MAX_MCP_OAUTH_RECORDS
  Faults,      \* what may be wrong with a file that is opened
  MaxOpen,     \* bounds of the model: how often the store is opened,
  MaxCalls     \* and how many calls that change something are made

ASSUME SecretStoreAssumption ==
  /\ recordOf \in [Doc -> Record]
  /\ None \notin Thread
  /\ Faults \subseteq {"damaged", "inaccessible", "stuck"}
  /\ {MaxRecords, MaxOpen, MaxCalls} \subseteq Nat
  /\ IsFiniteSet(Doc)

VARIABLES
  mem,       \* the maps of SecretStoreState
  status,    \* provisioned_status, captured_status, mcp_oauth_status
  dirty,     \* captured_dirty
  inFlight,  \* flush_in_flight
  guard,     \* who keeps the state lock over an OAuth commit
  pen,       \* who holds the lock of each partition's file
  call,      \* what each thread is doing
  file,      \* the file at the path of each partition
  older,     \* files a power failure may bring back, for want of a directory sync
  saved,     \* what lies in quarantine
  opened,    \* how often the store has been opened, and whether it is
  calls,     \* how many calls have been made
  ghost      \* what callers were told: see GhostInit

lockVars == <<dirty, inFlight, guard, pen>>
diskVars == <<file, older, saved>>
vars == <<mem, status, lockVars, call, diskVars, opened, calls, ghost>>

Parts == {"provisioned", "captured", "oauth"}
Penned == {"provisioned", "captured"}
Item  == Id \cup Origin \cup Doc
File  == [holds : SUBSET Item, readable : BOOLEAN]
Empty == [holds |-> {}, readable |-> TRUE]

Ops  == {"store", "delete", "capture", "defer", "clear", "flush", "write", "take"}
Step == {"mark", "persist", "locked", "publish", "sync", "commit", "settle"}
Call == [op : Ops, at : Step, part : Parts, items : SUBSET Item, snap : SUBSET Item]

\* None stands for no call.
ASSUME NoneAssumption == None \notin Call

\* acked: secrets whose storing was answered Ok; gone: secrets whose deletion was;
\* given: documents that take returned.
GhostInit == [acked |-> {}, gone |-> {}, given |-> {}]

Init ==
  /\ mem = [p \in Parts |-> {}] /\ status = [p \in Parts |-> "loaded"]
  /\ dirty = FALSE /\ inFlight = FALSE
  /\ guard = None /\ pen = [p \in Penned |-> None]
  /\ call = [t \in Thread |-> None]
  /\ file = [p \in Parts |-> Empty] /\ older = [p \in Parts |-> {}]
  /\ saved = {}
  /\ opened = [times |-> 0, now |-> FALSE] /\ calls = 0
  /\ ghost = GhostInit

-----------------------------------------------------------------------------
(* Helpers. *)

\* The state lock is free for this thread to read or write the maps.
Free(t) == opened.now /\ call[t] = None /\ guard = None
Named(r) == {d \in Doc : recordOf[d] = r}
Files(p) == older[p] \cup {file[p]}

\* A thread goes on at another step of its call.
At(t, s) == call' = [call EXCEPT ![t] = [@ EXCEPT !.at = s]] /\ UNCHANGED calls
Done(t)  == call' = [call EXCEPT ![t] = None] /\ UNCHANGED calls
Begin(t, op, at, p, items, snap) ==
  /\ calls < MaxCalls /\ calls' = calls + 1
  /\ call' = [call EXCEPT ![t] = [op |-> op, at |-> at, part |-> p, items |-> items, snap |-> snap]]

\* rename: until the directory is synced, the file before may come back.
Renamed(p, content) ==
  /\ file' = [file EXCEPT ![p] = [holds |-> content, readable |-> TRUE]]
  /\ older' = [older EXCEPT ![p] = Files(p)]
\* Faulty variant: the writers leave the directory to the operating system.
NotSynced(p) == UNCHANGED older
DirSynced(p) == older' = [older EXCEPT ![p] = {}]

-----------------------------------------------------------------------------
(* Changes of the provisioned and captured maps. *)

Changed(t, op, at, p, content, items) ==
  /\ Free(t)
  /\ mem' = [mem EXCEPT ![p] = content]
  /\ Begin(t, op, at, p, items, {})
  /\ UNCHANGED <<status, lockVars, diskVars, opened>>

\* store_provisioned, up to its persist.
StoreProvisioned(t, i) ==
  /\ Changed(t, "store", "persist", "provisioned", mem["provisioned"] \cup {i}, {i})
  /\ ghost' = [ghost EXCEPT !.gone = @ \ {i}]

\* delete_provisioned of a secret that is in memory; of any other it writes nothing.
DeleteProvisioned(t, i) ==
  /\ i \in mem["provisioned"]
  /\ Changed(t, "delete", "persist", "provisioned", mem["provisioned"] \ {i}, {i})
  /\ ghost' = [ghost EXCEPT !.acked = @ \ {i}]

\* store_captured and its deferred forms; the flag is set after the lock is free.
StoreCaptured(t, o) ==
  /\ \E op \in {"capture", "defer"} :
       Changed(t, op, "mark", "captured", mem["captured"] \cup {o}, {})
  /\ UNCHANGED ghost

MarkDirty(t) ==
  /\ call[t] # None /\ call[t].at = "mark"
  /\ dirty' = TRUE
  /\ IF call[t].op = "defer" THEN Done(t) ELSE At(t, "persist")
  /\ UNCHANGED <<mem, status, inFlight, guard, pen, diskVars, opened, ghost>>

\* clear_captured and clear_all_captured; nothing marks the map dirty before the write.
ClearCaptured(t) ==
  /\ \E gone \in {{o} : o \in mem["captured"]} \cup {mem["captured"]} :
       Changed(t, "clear", "persist", "captured", mem["captured"] \ gone, {})
  /\ UNCHANGED ghost

\* flush_captured that has something to do and is not coalesced with another.
FlushCaptured(t) ==
  /\ Free(t) /\ dirty /\ ~inFlight
  /\ inFlight' = TRUE
  /\ Begin(t, "flush", "persist", "captured", {}, {})
  /\ UNCHANGED <<mem, status, dirty, guard, pen, diskVars, opened, ghost>>

-----------------------------------------------------------------------------
(* persist_provisioned, persist_captured. *)

Penning(t, at) == call[t] # None /\ call[t].at = at /\ call[t].part \in Penned

\* Faulty variant: writers of one file do not wait for one another.
WritesUnlocked(t) ==
  /\ Penning(t, "persist")
  /\ pen' = [pen EXCEPT ![call[t].part] = t]
  /\ dirty' = (dirty /\ call[t].part # "captured")
  /\ At(t, "locked")
  /\ UNCHANGED <<mem, status, inFlight, guard, diskVars, opened, ghost>>
LockFile(t) ==
  LET p == call[t].part
  IN /\ Penning(t, "persist") /\ pen[p] = None
     /\ pen' = [pen EXCEPT ![p] = t]
     /\ dirty' = (dirty /\ p # "captured")
     /\ At(t, "locked")
     /\ UNCHANGED <<mem, status, inFlight, guard, diskVars, opened, ghost>>

Snapshot(t) ==
  /\ Penning(t, "locked") /\ guard = None
  /\ call' = [call EXCEPT ![t] = [@ EXCEPT !.at = "publish", !.snap = mem[call[t].part]]]
  /\ UNCHANGED <<mem, status, lockVars, diskVars, opened, calls, ghost>>

\* Faulty variant: the map is marked clean once it is written.
PublishThenClean(t) ==
  /\ Penning(t, "publish")
  /\ Renamed(call[t].part, call[t].snap)
  /\ dirty' = (dirty /\ call[t].part # "captured")
  /\ At(t, "sync")
  /\ UNCHANGED <<mem, status, inFlight, guard, pen, saved, opened, ghost>>
Publish(t) ==
  /\ Penning(t, "publish")
  /\ Renamed(call[t].part, call[t].snap)
  /\ At(t, "sync")
  /\ UNCHANGED <<mem, status, lockVars, saved, opened, ghost>>

\* What the answer Ok tells the caller about what it stored or deleted.
Told(t) ==
  LET c == call[t]
      still == c.items \cap mem["provisioned"] \cap c.snap
  IN CASE c.op = "store"  -> [ghost EXCEPT !.acked = @ \cup still]
       [] c.op = "delete" ->
            [ghost EXCEPT !.gone = @ \cup (c.items \ (mem["provisioned"] \cup c.snap))]
       [] OTHER -> ghost

\* The end of a persist: a failed write of captured sessions leaves the map dirty.
Persisted(t, ok) ==
  LET p == call[t].part
  IN /\ pen' = [pen EXCEPT ![p] = None]
     /\ dirty' = (dirty \/ (p = "captured" /\ ~ok))
     /\ inFlight' = (inFlight /\ call[t].op # "flush")
     /\ ghost' = IF ok THEN Told(t) ELSE ghost
     /\ Done(t)
     /\ UNCHANGED <<mem, status, guard, saved, opened>>

\* The key, the staging file, its sync or the rename fails: the file is as before.
PublishFails(t) ==
  /\ Penning(t, "publish")
  /\ Persisted(t, FALSE)
  /\ UNCHANGED <<file, older>>

\* The directory is synced, and then the file's mode may still fail to be set.
Synced(t) ==
  /\ Penning(t, "sync")
  /\ DirSynced(call[t].part)
  /\ \E ok \in BOOLEAN : Persisted(t, ok)
  /\ UNCHANGED file

SyncFails(t) ==
  /\ Penning(t, "sync")
  /\ Persisted(t, FALSE)
  /\ UNCHANGED <<file, older>>

-----------------------------------------------------------------------------
(* OAuth documents: the state lock is kept from the checks to the answer. *)

OauthChange(t, op, content, items) ==
  /\ Free(t) /\ status["oauth"] = "loaded"
  /\ mem' = [mem EXCEPT !["oauth"] = content]
  /\ guard' = t
  /\ Begin(t, op, "commit", "oauth", items, mem["oauth"])
  /\ UNCHANGED <<status, dirty, inFlight, pen, diskVars, opened, ghost>>

\* A document replaces that of its record (a caller that only creates does no more
\* than that); a document that was taken is not written again.
WriteOauth(t, d) ==
  LET before == mem["oauth"]
      after  == (before \ Named(recordOf[d])) \cup {d}
  IN /\ d \notin ghost.given
     /\ Cardinality(after) <= MaxRecords
     /\ OauthChange(t, "write", after, {d})

\* take_mcp_oauth returns the document it removes, delete_mcp_oauth does not.
RemoveOauth(t, r) ==
  LET found == mem["oauth"] \cap Named(r)
  IN /\ found # {}
     /\ \E op \in {"take", "delete"} : OauthChange(t, op, mem["oauth"] \ found, found)

Committing(t, at) == call[t] # None /\ call[t].part = "oauth" /\ call[t].at = at

Commit(t) ==
  /\ Committing(t, "commit")
  /\ Renamed("oauth", mem["oauth"])
  /\ At(t, "settle")
  /\ UNCHANGED <<mem, status, lockVars, saved, opened, ghost>>

Answered(t) ==
  /\ guard' = None
  /\ Done(t)
  /\ UNCHANGED <<dirty, inFlight, pen, saved, opened>>

\* Any failure up to the rename: memory goes back to what the file holds.
CommitFails(t) ==
  /\ Committing(t, "commit")
  /\ mem' = [mem EXCEPT !["oauth"] = call[t].snap]
  /\ Answered(t)
  /\ UNCHANGED <<status, file, older, ghost>>

Settle(t) ==
  /\ Committing(t, "settle")
  /\ DirSynced("oauth")
  /\ ghost' = IF call[t].op = "take" THEN [ghost EXCEPT !.given = @ \cup call[t].items] ELSE ghost
  /\ Answered(t)
  /\ UNCHANGED <<mem, status, file>>

\* After the rename nobody knows what a power failure leaves: the partition is
\* closed until the store is opened again.
SettleFails(t) ==
  /\ Committing(t, "settle")
  /\ status' = [status EXCEPT !["oauth"] = "unknown"]
  /\ Answered(t)
  /\ UNCHANGED <<mem, file, older, ghost>>

-----------------------------------------------------------------------------
(* Closing, damage, opening. *)

\* The process ends anywhere; in a power failure what was not synced may be undone.
Crash ==
  /\ opened.now /\ opened.times < MaxOpen
  /\ opened' = [opened EXCEPT !.now = FALSE]
  /\ \/ UNCHANGED <<file, older>>
     \/ /\ file' \in {f \in [Parts -> UNION {Files(p) : p \in Parts}] :
                        \A p \in Parts : f[p] \in Files(p)}
        /\ older' = [p \in Parts |-> {}]
  /\ mem' = [p \in Parts |-> {}] /\ status' = [p \in Parts |-> "loaded"]
  /\ dirty' = FALSE /\ inFlight' = FALSE
  /\ guard' = None /\ pen' = [p \in Penned |-> None]
  /\ call' = [t \in Thread |-> None]
  /\ UNCHANGED <<saved, calls, ghost>>

\* The bytes, or the key they are read with, are not what was written.
Damage(p) ==
  /\ "damaged" \in Faults /\ ~opened.now
  /\ file[p].readable /\ file[p].holds # {}
  /\ file' = [file EXCEPT ![p] = [@ EXCEPT !.readable = FALSE]]
  /\ UNCHANGED <<mem, status, lockVars, call, older, saved, opened, calls, ghost>>

\* The order in which a load reads the partitions.
Rank == [p \in Parts |-> CASE p = "provisioned" -> 1 [] p = "captured" -> 2 [] p = "oauth" -> 3]

\* Unreadable bytes are moved aside unless that fails too (stuck); a file that
\* cannot be got at (hidden) stays where it is.  An OAuth file that was moved
\* aside is no failure of the load.
Moved(p, hidden, stuck)  == ~file[p].readable /\ p \notin hidden \cup stuck
Failed(p, hidden, stuck) == p \in hidden \/ (~file[p].readable /\ (p # "oauth" \/ p \in stuck))
Corrupt(p, hidden) == p # "oauth" /\ p \notin hidden

\* new stops at the first partition that fails; open keeps a store whatever
\* happened; the resolver keeps it when the first failure was corruption.
Kept(mode, failed, hidden) ==
  \/ failed = {}
  \/ mode = "open"
  \/ /\ mode = "resolve"
     /\ \E p \in failed : (\A q \in failed : Rank[p] <= Rank[q]) /\ Corrupt(p, hidden)

Open(mode, hidden, stuck) ==
  LET failed == {p \in Parts : Failed(p, hidden, stuck)}
      reads(p)  == mode # "new" \/ \A q \in failed : Rank[p] <= Rank[q]
      moves(p)  == reads(p) /\ Moved(p, hidden, stuck)
      kept == Kept(mode, failed, hidden)
      good(p) == kept /\ file[p].readable /\ p \notin hidden
  IN /\ ~opened.now /\ opened.times < MaxOpen
     /\ hidden = {} \/ "inaccessible" \in Faults
     /\ stuck = {} \/ "stuck" \in Faults
     /\ opened' = [times |-> opened.times + 1, now |-> kept]
     /\ mem' = [p \in Parts |-> IF good(p) THEN file[p].holds ELSE {}]
     /\ status' = [p \in Parts |-> IF kept /\ p \in failed THEN "unavailable" ELSE "loaded"]
     /\ saved' = saved \cup UNION {file[p].holds : p \in {q \in Parts : moves(q)}}
     /\ file' = [p \in Parts |-> IF moves(p) THEN Empty ELSE file[p]]
     /\ older' = [p \in Parts |-> IF moves(p) THEN Files(p) ELSE older[p]]
     /\ UNCHANGED <<lockVars, call, calls, ghost>>

-----------------------------------------------------------------------------

Work(t) ==
  \/ \E i \in Id : StoreProvisioned(t, i)
  \/ \E i \in Id : DeleteProvisioned(t, i)
  \/ \E o \in Origin : StoreCaptured(t, o)
  \/ MarkDirty(t)
  \/ ClearCaptured(t)
  \/ FlushCaptured(t)
  \/ LockFile(t)
  \/ Snapshot(t)
  \/ Publish(t)
  \/ PublishFails(t)
  \/ Synced(t)
  \/ SyncFails(t)
  \/ \E d \in Doc : WriteOauth(t, d)
  \/ \E r \in Record : RemoveOauth(t, r)
  \/ Commit(t)
  \/ CommitFails(t)
  \/ Settle(t)
  \/ SettleFails(t)

Next ==
  \/ \E t \in Thread : Work(t)
  \/ Crash
  \/ \E p \in Parts : Damage(p)
  \/ \E mode \in {"new", "open", "resolve"} :
       \E hidden \in SUBSET {p \in Parts : file[p] # Empty} :
       \E stuck \in SUBSET {p \in Parts : ~file[p].readable} : Open(mode, hidden, stuck)

Spec == Init /\ [][Next]_vars

-----------------------------------------------------------------------------
(* Properties. *)

\* A secret whose storing was answered Ok is in its file, whatever a power failure
\* brings back, or in quarantine; one whose deletion was answered Ok is in no
\* such file: no older snapshot is renamed over a newer one (store.rs, the
\* comments on provisioned_write_lock and persist_provisioned).
AckedSurvives ==
  \A f \in Files("provisioned") :
    /\ ghost.acked \subseteq f.holds \cup saved
    /\ ghost.gone \cap f.holds = {}

\* What memory and disk say to each other when nobody is writing: captured
\* sessions that are not dirty are on disk as they are in memory, so that a
\* flush that skips loses nothing, and so is every OAuth document of a partition
\* that is open; and a flush leaves the next to one that some thread really performs
\* (flush_captured, persist_captured, write_mcp_oauth).
DiskFollowsMemory ==
  /\ inFlight => \E t \in Thread : call[t] # None /\ call[t].op = "flush"
  /\ (/\ opened.now /\ ~dirty
      /\ \A t \in Thread : call[t] = None \/ call[t].part # "captured")
       => mem["captured"] = file["captured"].holds
  /\ (opened.now /\ status["oauth"] = "loaded" /\ guard = None)
       => mem["oauth"] = file["oauth"].holds

\* A document that take returned is in no file a restart may read and not in
\* memory, so it is never returned again, over crashes, power failures and
\* commits that nobody knows the end of (take_mcp_oauth).
TakenIsGone ==
  \A f \in Files("oauth") : ghost.given \cap (f.holds \cup mem["oauth"]) = {}

\* "The bytes that could not be read are already preserved next to the vault [...]
\* so a later write replaces nothing that quarantine has not saved" (store.rs, the
\* comment on SecretPartitionStatus): with the partition unavailable, what was
\* stored and acknowledged before is on disk or in quarantine.
UnreadIsKept ==
  status["provisioned"] = "unavailable" =>
    ghost.acked \subseteq file["provisioned"].holds \cup saved
=============================================================================
