------------------------ MODULE BrowserBroker_proofs ------------------------
(***************************************************************************)
(* Proofs about BrowserBroker, for any clients, credentials, profiles,     *)
(* connections, operations, origins, documents and bounds.                 *)
(***************************************************************************)
EXTENDS BrowserBroker, FiniteSetTheorems, TLAPS

USE DEF PC, Link, Finished, registryVars, tableVars, workVars, permitVars, wireVars,
        serviceVars

-----------------------------------------------------------------------------
(* The cases of Next, by what they leave alone.                              *)

\* Steps of a connection, an administrative request or a discovery that commit
\* nothing, and what happens in the browsers.
Quiet ==
  \/ \E k \in Conn, c \in Client, p \in Profile, m \in BOOLEAN : NativeHello(k, c, p, m)
  \/ \E k \in Conn : NativeAllowed(k) \/ NativeEnds(k)
  \/ \E h \in Handle : Greeted(h) \/ BrowserLost(h) \/ Navigate(h)
  \/ \E c \in Client : RegisterCdpBegin(c)
  \/ \E c, t \in Client : RevokeBegin(c, t)
  \/ \E c \in Client, k \in Cred, origins \in SUBSET Origin : ConfigureBegin(c, k, origins)
  \/ AdminAllowed \/ CdpConnected \/ AdminEnds
  \/ \E c \in Client, h \in Handle : BrowserTargets(c, h)
  \/ TargetsFound \/ TargetsFail
  \/ Signal

\* Transactions that may write the registry, or register a browser.
Commit ==
  \/ Reap
  \/ \E k \in Conn : NativeAsk(k) \/ NativeApprove(k) \/ NativeRegister(k)
  \/ RegisterCdpCommit \/ ConfigureCommit \/ RevokeCommit
  \/ \E c \in Client, h \in Handle : DisconnectBrowser(c, h)
  \/ \E c \in Client : ClearConsents(c)
  \/ \E c \in Client, g \in reg.consents : RevokeConsent(c, g)

\* Steps of a fill's task that commit nothing.
Task(o) ==
  \/ Spawn(o) \/ PromptExpires(o) \/ PromptCancelled(o) \/ Decide(o)
  \/ AuthorizeRefused(o) \/ EffectRefused(o) \/ EffectStarts(o) \/ StaleFound(o)
  \/ Replied(o) \/ Cut(o)

Admits(o) ==
  \E c \in Client, t \in Target :
    SecurePromptFill(o, c, t) \/ \E creds \in SUBSET Cred : SecureFill(o, c, t, creds)

LEMMA NextCases ==
  ASSUME Next
  PROVE  \/ Quiet \/ Commit
         \/ \E o \in Op : \/ Task(o) \/ Admits(o) \/ Aborted(o) \/ CancelFill(o)
                          \/ Authorize(o) \/ Dispatch(o) \/ Complete(o)
         \/ Forget \/ BindTargets \/ StopAll \/ Crash \/ Restart
         \/ \E t \in Target : Acts(t)
<1>1. CASE Native_
  BY <1>1 DEF Native_, Quiet, Commit
<1>2. CASE Administration
  BY <1>2 DEF Administration, Quiet, Commit
<1>3. ASSUME NEW o \in Op, Fill(o)
      PROVE  \/ Task(o) \/ Admits(o) \/ Aborted(o) \/ CancelFill(o)
             \/ Authorize(o) \/ Dispatch(o) \/ Complete(o)
  BY <1>3 DEF Fill, Task, Admits
<1> QED
  BY <1>1, <1>2, <1>3 DEF Next, Quiet, Commit

\* Adapters of a quiet step: one that stopped never works again.
LEMMA QuietFrame ==
  ASSUME Quiet
  PROVE  UNCHANGED <<registryVars, tableVars, workVars, flight, up, epoch, ids, ghost>>
<1>1. ASSUME NEW k \in Conn, NEW c \in Client, NEW p \in Profile, NEW m \in BOOLEAN,
             NativeHello(k, c, p, m)
      PROVE  UNCHANGED <<registryVars, tableVars, workVars, flight, up, epoch, ids, ghost>>
  BY <1>1 DEF NativeHello
<1>2. ASSUME NEW k \in Conn, NativeAllowed(k) \/ NativeEnds(k)
      PROVE  UNCHANGED <<registryVars, tableVars, workVars, flight, up, epoch, ids, ghost>>
  BY <1>2 DEF NativeAllowed, NativeEnds
<1>3. ASSUME NEW h \in Handle, Greeted(h) \/ BrowserLost(h) \/ Navigate(h)
      PROVE  UNCHANGED <<registryVars, tableVars, workVars, flight, up, epoch, ids, ghost>>
  BY <1>3 DEF Greeted, BrowserLost, Navigate
<1>4. ASSUME NEW kind, NEW c, NEW t, NEW k, NEW origins, AdminBegin(kind, c, t, k, origins)
      PROVE  UNCHANGED <<registryVars, tableVars, workVars, flight, up, epoch, ids, ghost>>
  BY <1>4 DEF AdminBegin
<1>5. CASE AdminAllowed \/ CdpConnected \/ AdminEnds \/ Signal
  BY <1>5 DEF AdminAllowed, CdpConnected, AdminEnds, Signal
<1>6. ASSUME NEW c \in Client, NEW h \in Handle, BrowserTargets(c, h)
      PROVE  UNCHANGED <<registryVars, tableVars, workVars, flight, up, epoch, ids, ghost>>
  BY <1>6 DEF BrowserTargets
<1>7. CASE TargetsFound \/ TargetsFail
  BY <1>7 DEF TargetsFound, TargetsFail
<1> QED
  BY <1>1, <1>2, <1>3, <1>4, <1>5, <1>6, <1>7
  DEF Quiet, RegisterCdpBegin, RevokeBegin, ConfigureBegin

\* A step of the task moves the operation, may settle it, may fire its token.
LEMMA TaskFrame ==
  ASSUME NEW o \in Op, Task(o)
  PROVE  /\ UNCHANGED <<registryVars, tableVars, ticket, permitVars, page, flight,
                        serviceVars, ids, ghost>>
         /\ pc[o] # "idle"
         /\ \E p \in PC \ {"idle", "effect"} : pc' = [pc EXCEPT ![o] = p]
         /\ cancel' \in {cancel, cancel \cup {o}}
<1> USE DEF OnlyWork, WireOnly, Settle
<1>1. CASE Spawn(o) \/ AuthorizeRefused(o)
  BY <1>1 DEF Spawn, AuthorizeRefused
<1>2. CASE PromptExpires(o) \/ PromptCancelled(o)
  BY <1>2 DEF PromptExpires, PromptCancelled, Asking
<1>3. CASE Decide(o)
  BY <1>3 DEF Decide, DecideStored, DecidePrompted, Asking
<1>4. CASE EffectRefused(o) \/ EffectStarts(o)
  BY <1>4 DEF EffectRefused, EffectStarts
<1>5. CASE StaleFound(o) \/ Replied(o) \/ Cut(o)
  BY <1>5 DEF StaleFound, Replied, Cut
<1> QED
  BY <1>1, <1>2, <1>3, <1>4, <1>5 DEF Task

\* A commit leaves the fills' tasks, the jobs and what is on the wire alone.
LEMMA CommitFrame ==
  ASSUME Commit
  PROVE  /\ UNCHANGED <<job, spent, pc, ticket, result, probe, wire, page, flight, serviceVars>>
         /\ up
<1> DEFINE Goal == /\ UNCHANGED <<job, spent, pc, ticket, result, probe, wire, page, flight,
                                  serviceVars>>
                   /\ up
<1>1. CASE Reap
  BY <1>1 DEF Reap
<1>2. ASSUME NEW k \in Conn, NativeAsk(k) \/ NativeApprove(k) \/ NativeRegister(k)
      PROVE  Goal
  BY <1>2 DEF NativeAsk, NativeApprove, NativeRegister, Paired, Ready
<1>3. CASE RegisterCdpCommit \/ ConfigureCommit \/ RevokeCommit
  BY <1>3 DEF RegisterCdpCommit, ConfigureCommit, RevokeCommit, AdminCommits, Paired, Ready
<1>4. ASSUME NEW c \in Client, NEW h \in Handle, DisconnectBrowser(c, h) PROVE Goal
  BY <1>4 DEF DisconnectBrowser, Paired, Ready
<1>5. ASSUME NEW c, NEW ss, NEW uses, Withdraw(c, ss, uses) PROVE Goal
  BY <1>5 DEF Withdraw, Paired, Ready
<1> QED
  BY <1>1, <1>2, <1>3, <1>4, <1>5 DEF Commit, RevokeConsent, ClearConsents

-----------------------------------------------------------------------------
(* Types.  They are inductive only together with who holds the permit: a     *)
(* workflow that decides on a lasting consent is alone, so that there is an  *)
(* identity left for it.                                                     *)

RegistryTyped ==
  /\ reg \in Registry /\ disk \in Registry
  /\ epochs \in [Client -> Epochs] /\ faulted \in BOOLEAN
TableTyped ==
  /\ inst \in [Handle -> Instance \cup {None}] /\ bound \in [Target -> Bound \cup {None}]
  /\ job \in [Op -> Job] /\ spent \subseteq Op
WorkTyped ==
  /\ cancel \subseteq Op /\ pc \in [Op -> PC]
  /\ ticket \in [Op -> Ticket \cup {None}] /\ result \in [Op -> Finished \cup {None}]
PermitTyped ==
  /\ gate \in Op \cup Conn \cup {"admin", None} /\ admin \in Admin \cup {None}
  /\ conn \in [Conn -> Hello \cup {None}] /\ probe \in Probe \cup {None}
WireTyped ==
  /\ link \in [Handle -> Link] /\ wire \in [Handle -> Op \cup {"probe", None}]
  /\ page \in [Handle -> Doc] /\ flight \subseteq Target
ServiceTyped ==
  /\ up \in BOOLEAN /\ shutdown \in BOOLEAN /\ epoch \in 1..MaxEpoch
  /\ ids \in [handle : 1..(MaxHandle + 1), target : 1..(MaxTarget + 1),
               grant : 1..(MaxGrantId + 1)]
GhostTyped ==
  ghost \in [gave : [Target -> Nat], wrote : [Target -> {"none", "all", "some"}],
             asked : SUBSET (Client \X Profile), cut : SUBSET (Client \X Profile),
             revoked : SUBSET (1..MaxGrantId), void : SUBSET Op]

\* The permit has one holder: a fill's task, the administrative request, or a
\* connection whose human is being asked.
HoldsPermit ==
  /\ \A o \in Op : pc[o] # "idle" => gate = o
  /\ admin # None => gate = "admin"
  /\ \A k \in Conn :
       conn[k] # None /\ conn[k].step \in {"prompt", "approved"} => gate = k

\* A task that lives has captured a ticket of the job it works for.
Captured ==
  \A o \in Op :
    /\ pc[o] = "idle" <=> ticket[o] = None
    /\ pc[o] = "settled" => result[o] \in Finished
    /\ pc[o] # "idle" =>
         /\ job[o].state \in {"pending", "filling"}
         /\ pc[o] \in {"reserved", "prompt", "once", "always"} => job[o].state = "pending"
         /\ job[o].owner = ticket[o].owner /\ job[o].browser = ticket[o].browser
    /\ job[o].state # "none" => job[o].target \in Target

Room == \A o \in Op : pc[o] = "always" => ids.grant <= MaxGrantId

Base ==
  /\ RegistryTyped /\ TableTyped /\ WorkTyped /\ PermitTyped /\ WireTyped
  /\ ServiceTyped /\ GhostTyped
  /\ HoldsPermit /\ Captured /\ Room

LEMMA Bounds ==
  /\ MaxHandle \in Nat /\ MaxTarget \in Nat /\ MaxGrantId \in Nat /\ MaxEpoch \in Nat \ {0}
  /\ MaxBrowsers \in Nat /\ MaxGrants \in Nat /\ MaxNative \in Nat /\ MaxPermissions \in Nat
  BY BrowserAssumption

LEMMA BlankTyped == Blank \in Registry
  BY DEF Blank, Registry

LEMMA NoJobTyped == NoJob \in Job
  BY DEF NoJob, Job

LEMMA BaseInit == Init => Base
<1> SUFFICES ASSUME Init PROVE Base
  OBVIOUS
<1>1. 0 \in Epochs
  BY BrowserAssumption, FS_CardinalityType DEF Epochs
<1>2. RegistryTyped
  BY <1>1, BlankTyped DEF Init, RegistryTyped, Registry
<1>3. TableTyped
  BY NoJobTyped DEF Init, TableTyped
<1>4. WorkTyped /\ PermitTyped /\ WireTyped
  BY DEF Init, WorkTyped, PermitTyped, WireTyped
<1>5. ServiceTyped
  <2>1. 1 \in 1..MaxEpoch /\ 1 \in 1..(MaxHandle + 1) /\ 1 \in 1..(MaxTarget + 1)
        /\ 1 \in 1..(MaxGrantId + 1)
    BY Bounds
  <2> QED
    BY <2>1 DEF Init, ServiceTyped
<1>6. GhostTyped
  BY DEF Init, GhostInit, GhostTyped
<1>7. HoldsPermit /\ Captured /\ Room
  BY DEF Init, HoldsPermit, Captured, Room, NoJob
<1> QED
  BY <1>2, <1>3, <1>4, <1>5, <1>6, <1>7 DEF Base

\* What a quiet step leaves is typed too, and so is who holds the permit.
LEMMA BaseQuiet ==
  ASSUME Base, Quiet
  PROVE  Base'
<1>1. RegistryTyped' /\ TableTyped' /\ WorkTyped' /\ GhostTyped' /\ Captured' /\ Room'
  BY QuietFrame DEF Base, RegistryTyped, TableTyped, WorkTyped, GhostTyped, Captured, Room
<1>2. PermitTyped' /\ WireTyped' /\ ServiceTyped' /\ HoldsPermit'
  <2> DEFINE Goal == PermitTyped' /\ WireTyped' /\ ServiceTyped' /\ HoldsPermit'
  <2> USE DEF Base, PermitTyped, WireTyped, ServiceTyped, HoldsPermit
  <2>1. ASSUME NEW k \in Conn, NEW c \in Client, NEW p \in Profile, NEW m \in BOOLEAN,
               NativeHello(k, c, p, m)
        PROVE  Goal
    <3>1. PICK s \in {"trusted", "asking"}, f \in BOOLEAN :
            conn' = [conn EXCEPT ![k] = [client |-> c, profile |-> p, manual |-> m,
                                         fresh |-> f, step |-> s]]
      BY <2>1 DEF NativeHello
    <3>2. [client |-> c, profile |-> p, manual |-> m, fresh |-> f, step |-> s] \in Hello
      BY <3>1 DEF Hello
    <3> QED
      BY <2>1, <3>1, <3>2 DEF NativeHello
  <2>2. ASSUME NEW k \in Conn, NativeAllowed(k) PROVE Goal
    <3>1. conn[k] \in Hello /\ gate = k
      BY <2>2 DEF NativeAllowed
    <3>2. [conn[k] EXCEPT !.step = "approved"] \in Hello
      BY <3>1 DEF Hello
    <3> QED
      BY <2>2, <3>1, <3>2 DEF NativeAllowed, ConnGoes
  <2>3. ASSUME NEW k \in Conn, NativeEnds(k) PROVE Goal
    BY <2>3, BrowserAssumption DEF NativeEnds, ConnEnds
  <2>4. ASSUME NEW h \in Handle, Greeted(h) \/ BrowserLost(h) \/ Navigate(h) PROVE Goal
    BY <2>4 DEF Greeted, BrowserLost, Navigate
  <2>5. ASSUME NEW kind \in {"cdp", "configure", "revoke"}, NEW c \in Client,
               NEW t \in Client, NEW k \in Cred, NEW origins \in SUBSET Origin,
               AdminBegin(kind, c, t, k, origins)
        PROVE  Goal
    BY <2>5, BrowserAssumption DEF AdminBegin, Admin, PermitFree
  <2>6. CASE AdminAllowed \/ CdpConnected
    <3>1. PICK s \in {"allowed", "connected"} : admin' = [admin EXCEPT !.step = s]
      BY <2>6 DEF AdminAllowed, CdpConnected, AdminGoes
    <3>2. admin \in Admin /\ UNCHANGED <<gate, conn, probe, pc, wireVars, serviceVars, ids>>
      BY <2>6 DEF AdminAllowed, CdpConnected
    <3> QED
      BY <3>1, <3>2, NoneAssumption DEF Admin
  <2>7. CASE AdminEnds
    BY <2>7, BrowserAssumption DEF AdminEnds
  <2>8. ASSUME NEW c \in Client, NEW h \in Handle, BrowserTargets(c, h) PROVE Goal
    BY <2>8 DEF BrowserTargets, Probe
  <2>9. CASE TargetsFound
    <3>1. probe \in Probe /\ probe.browser \in Handle
      BY <2>9 DEF TargetsFound, Probe
    <3>2. probe' \in Probe
      BY <2>9, <3>1 DEF TargetsFound, Probe
    <3> QED
      BY <2>9, <3>1, <3>2 DEF TargetsFound
  <2>10. CASE TargetsFail
    BY <2>10 DEF TargetsFail, Stopped
  <2>11. CASE Signal
    BY <2>11 DEF Signal
  <2> QED
    BY <2>1, <2>2, <2>3, <2>4, <2>5, <2>6, <2>7, <2>8, <2>9, <2>10, <2>11
    DEF Quiet, RegisterCdpBegin, RevokeBegin, ConfigureBegin
<1> QED
  BY <1>1, <1>2 DEF Base

LEMMA BaseTask ==
  ASSUME Base, NEW o \in Op, Task(o)
  PROVE  Base'
<1>1. RegistryTyped' /\ TableTyped' /\ ServiceTyped' /\ GhostTyped' /\ PermitTyped'
  BY TaskFrame DEF Base, RegistryTyped, TableTyped, ServiceTyped, GhostTyped, PermitTyped
<1>2. HoldsPermit'
  BY TaskFrame DEF Base, HoldsPermit, WorkTyped
<1>3. WireTyped'
  <2>1. CASE Spawn(o) \/ PromptExpires(o) \/ PromptCancelled(o) \/ Decide(o)
             \/ AuthorizeRefused(o) \/ EffectRefused(o)
    BY <2>1 DEF Spawn, PromptExpires, PromptCancelled, Decide, AuthorizeRefused,
                EffectRefused, OnlyWork, WireOnly, Base, WireTyped
  <2>2. CASE EffectStarts(o) \/ StaleFound(o) \/ Replied(o) \/ Cut(o)
    BY <2>2 DEF EffectStarts, StaleFound, Replied, Cut, Stopped, Base, WireTyped
  <2> QED
    BY <2>1, <2>2 DEF Task
<1>4. WorkTyped' /\ Captured' /\ Room'
  <2> USE DEF Base, WorkTyped, Captured, Room, OnlyWork, WireOnly
  <2>1. CASE Spawn(o)
    BY <2>1 DEF Spawn
  <2>2. ASSUME NEW s \in Finished, Settle(o, s), pc[o] # "idle",
               UNCHANGED <<ticket, tableVars, ids>>, cancel' \in {cancel, cancel \cup {o}}
        PROVE  WorkTyped' /\ Captured' /\ Room'
    BY <2>2 DEF Settle
  <2>3. CASE PromptExpires(o) \/ PromptCancelled(o)
    BY <2>2, <2>3, TaskFrame DEF PromptExpires, PromptCancelled
  <2>4. CASE Decide(o)
    <3>1. CASE \E s \in Finished : Settle(o, s)
      BY <2>2, <2>4, <3>1, TaskFrame
    <3>2. CASE ~\E s \in Finished : Settle(o, s)
      BY <2>4, <3>2 DEF Decide, DecideStored, DecidePrompted, Asking
    <3> QED
      BY <3>1, <3>2
  <2>5. CASE AuthorizeRefused(o) \/ EffectRefused(o)
    BY <2>2, <2>5, TaskFrame DEF AuthorizeRefused, EffectRefused
  <2>6. CASE EffectStarts(o)
    BY <2>6 DEF EffectStarts
  <2>7. CASE StaleFound(o) \/ Cut(o)
    BY <2>2, <2>7, TaskFrame DEF StaleFound, Cut, CutIs
  <2>8. CASE Replied(o)
    BY <2>2, <2>8, TaskFrame DEF Replied, Outcome
  <2> QED
    BY <2>1, <2>3, <2>4, <2>5, <2>6, <2>7, <2>8 DEF Task
<1> QED
  BY <1>1, <1>2, <1>3, <1>4 DEF Base

\* The registries that transactions write.
LEMMA RegistriesTyped ==
  ASSUME Base
  PROVE  /\ \A hs : SessionGone(reg, hs) \in Registry /\ SessionGone(disk, hs) \in Registry
         /\ \A c \in Client, p \in Profile :
              RefusedFirst(c, p) \in Registry /\ WithApproval(c, p) \in Registry
         /\ \A c \in Client, k \in Cred, origins \in SUBSET Origin :
              Configured(c, k, origins) \in Registry
         /\ \A c \in Client : Unpaired(c) \in Registry
         /\ \A c \in Client, h \in Handle : Disconnected(c, h) \in Registry
         /\ \A ss : \A c \in Client : Without(c, ss) \in Registry
<1> USE DEF Base, RegistryTyped, Registry
<1>1. \A hs : SessionGone(reg, hs) \in Registry /\ SessionGone(disk, hs) \in Registry
  BY DEF SessionGone
<1>2. \A c \in Client, p \in Profile :
        RefusedFirst(c, p) \in Registry /\ WithApproval(c, p) \in Registry
  <2>1. \A c \in Client, p \in Profile, b \in BOOLEAN :
          [owner |-> c, profile |-> p, allowed |-> b] \in Native
    BY DEF Native
  <2> QED
    BY <2>1 DEF RefusedFirst, WithApproval
<1>3. ASSUME NEW c \in Client, NEW k \in Cred, NEW origins \in SUBSET Origin
      PROVE  Configured(c, k, origins) \in Registry
  <2>1. origins # {} => [owner |-> c, cred |-> k, origins |-> origins] \in Permission
    BY DEF Permission
  <2>2. OnlyConfigured(c, k, origins) \in Registry
    BY <2>1 DEF OnlyConfigured
  <2> QED
    BY <2>2 DEF Configured
<1>4. \A c \in Client : Unpaired(c) \in Registry
  BY DEF Unpaired
<1>5. ASSUME NEW c \in Client, NEW h \in Handle PROVE Disconnected(c, h) \in Registry
  <2>1. StaysApproved(c, h) \in Registry /\ StaysApproved(c, h).natives = reg.natives
    BY DEF StaysApproved
  <2>2. \A n \in Native, b \in BOOLEAN : [n EXCEPT !.allowed = b] \in Native
    BY DEF Native
  <2>3. \A n \in reg.natives : [n EXCEPT !.allowed = n.allowed /\ ~(n.owner = c /\ n.profile = inst[h].profile)] \in Native
    <3> TAKE n \in reg.natives
    <3>1. n \in Native /\ (n.allowed /\ ~(n.owner = c /\ n.profile = inst[h].profile)) \in BOOLEAN
      BY DEF Native
    <3> QED
      BY <2>2, <3>1
  <2> QED
    <3> DEFINE M == {[n EXCEPT !.allowed = n.allowed /\ ~(n.owner = c /\ n.profile = inst[h].profile)]
                       : n \in reg.natives}
    <3>1. M \subseteq Native
      BY <2>3
    <3>2. Disconnected(c, h) = [StaysApproved(c, h) EXCEPT !.natives = M]
      BY <2>1 DEF Disconnected
    <3> HIDE DEF M
    <3> QED
      BY <2>1, <3>1, <3>2
<1>6. \A ss : \A c \in Client : Without(c, ss) \in Registry
  BY DEF Without
<1> QED
  BY <1>1, <1>2, <1>3, <1>4, <1>5, <1>6

LEMMA PersistTyped ==
  ASSUME Base, NEW r \in Registry, Persist(r)
  PROVE  reg' \in Registry /\ disk' \in Registry /\ faulted' \in BOOLEAN
  BY DEF Base, RegistryTyped, Persist

LEMMA AuditTyped ==
  ASSUME Base, AuditFails
  PROVE  reg' \in Registry /\ disk' \in Registry /\ faulted' \in BOOLEAN
  BY DEF Base, RegistryTyped, AuditFails

\* The handle a new connection gets.
LEMMA NewHandleTyped ==
  ASSUME Base, NEW c \in Client, NEW p \in Profile \cup {None}, NEW l \in Link,
         NewHandle(c, p, l)
  PROVE  /\ ids.handle \in Handle
         /\ inst' \in [Handle -> Instance \cup {None}]
         /\ link' \in [Handle -> Link]
         /\ ids' \in [handle : 1..(MaxHandle + 1), target : 1..(MaxTarget + 1),
                      grant : 1..(MaxGrantId + 1)]
         /\ ids' = [ids EXCEPT !.handle = ids.handle + 1]
<1>1. ids.handle \in Handle /\ ids.handle + 1 \in 1..(MaxHandle + 1)
  BY Bounds DEF Base, ServiceTyped, NewHandle, Handle
<1>2. [owner |-> c, profile |-> p] \in Instance
  BY DEF Instance
<1> QED
  BY <1>1, <1>2 DEF NewHandle, Base, TableTyped, WireTyped, ServiceTyped

\* Ghosts of a commit: only the three sets it may extend.
LEMMA GhostMoves ==
  ASSUME Base, NEW S \in SUBSET Op, NEW R \in SUBSET (1..MaxGrantId),
         NEW C \in SUBSET (Client \X Profile), NEW A \in SUBSET (Client \X Profile),
         ghost' = [ghost EXCEPT !.void = S, !.revoked = R, !.cut = C, !.asked = A]
  PROVE  GhostTyped'
  BY DEF Base, GhostTyped

LEMMA VoidTyped ==
  ASSUME Base, NEW S PROVE Voids(S) \in SUBSET Op
  BY DEF Base, GhostTyped, Voids, Jobs

LEMMA AcknowledgedTyped ==
  ASSUME Base, NEW r PROVE Acknowledged(r) \in SUBSET (1..MaxGrantId)
<1>1. {g.id : g \in reg.consents \ r.consents} \subseteq 1..MaxGrantId
  BY DEF Base, RegistryTyped, Registry, Grant
<1> QED
  BY <1>1 DEF Base, GhostTyped, Acknowledged

LEMMA OpenTyped ==
  Open \subseteq Op /\ \A c : OwnOpen(c) \subseteq Op /\ Prompting(c) \subseteq Op
  BY DEF Open, OwnOpen, Jobs, Prompting

\* Connections do not disturb the types.
LEMMA BaseNative ==
  ASSUME Base, NEW k \in Conn, NativeAsk(k) \/ NativeApprove(k) \/ NativeRegister(k)
  PROVE  Base'
<1>1. conn[k] \in Hello /\ conn[k].client \in Client /\ conn[k].profile \in Profile
  BY DEF NativeAsk, NativeApprove, NativeRegister, Base, PermitTyped, Hello
<1>2. \A s \in {"asking", "prompt", "approved", "trusted"} :
        [conn[k] EXCEPT !.step = s] \in Hello
  BY <1>1 DEF Hello
<1>3. WorkTyped' /\ Captured'
  BY CommitFrame DEF Commit, NativeAsk, NativeApprove, NativeRegister, Base, WorkTyped, Captured
<1>4. CASE NativeAsk(k)
  <2> DEFINE n == conn[k]
             r == RefusedFirst(n.client, n.profile)
  <2>1. RegistryTyped'
    <3>1. r \in Registry
      BY <1>1, RegistriesTyped
    <3> QED
      BY <1>4, <3>1, PersistTyped, AuditTyped DEF NativeAsk, Base, RegistryTyped
  <2>2. gate = None /\ UNCHANGED <<admin, probe, pc, ids>>
    BY <1>4 DEF NativeAsk, PermitFree
  <2>3. CASE faulted'
    BY <1>3, <1>4, <2>1, <2>2, <2>3, BrowserAssumption
    DEF NativeAsk, ConnEnds, Base, TableTyped, PermitTyped, WireTyped, ServiceTyped,
        GhostTyped, HoldsPermit, Room
  <2>4. CASE ~faulted'
    <3>1. gate' = k /\ conn' = [conn EXCEPT ![k].step = "prompt"]
          /\ ghost' = [ghost EXCEPT !.asked = @ \cup {<<n.client, n.profile>>}]
      BY <1>4, <2>4 DEF NativeAsk, ConnGoes
    <3>2. PermitTyped'
      BY <1>2, <2>2, <3>1 DEF Base, PermitTyped
    <3>3. HoldsPermit'
      BY <2>2, <3>1, <1>4, BrowserAssumption DEF NativeAsk, Base, HoldsPermit, PermitTyped
    <3>4. GhostTyped'
      BY <1>1, <3>1 DEF Base, GhostTyped
    <3> QED
      BY <1>3, <1>4, <2>1, <3>2, <3>3, <3>4
      DEF NativeAsk, Base, TableTyped, WireTyped, ServiceTyped, Room
  <2> QED
    BY <2>3, <2>4
<1>5. CASE NativeApprove(k)
  <2> DEFINE n == conn[k]
  <2>1. RegistryTyped'
    <3>1. WithApproval(n.client, n.profile) \in Registry
      BY <1>1, RegistriesTyped
    <3> QED
      BY <1>5, <3>1, PersistTyped DEF NativeApprove, Base, RegistryTyped
  <2>2. gate = k /\ gate' = None /\ UNCHANGED <<admin, probe, pc, ids>>
    BY <1>5 DEF NativeApprove, Base, HoldsPermit
  <2>3. conn' \in {[conn EXCEPT ![k] = None], [conn EXCEPT ![k].step = "trusted"]}
    BY <1>5 DEF NativeApprove, ConnEnds, ConnGoes
  <2>4. PermitTyped' /\ HoldsPermit'
    <3>1. conn' \in [Conn -> Hello \cup {None}]
      BY <1>2, <2>3 DEF Base, PermitTyped
    <3>2. \A j \in Conn : conn'[j] # None => conn'[j].step \notin {"prompt", "approved"}
      <4> TAKE j \in Conn
      <4>1. j # k => conn'[j] = conn[j] /\ (conn[j] # None => conn[j].step \notin {"prompt", "approved"})
        BY <2>2, <2>3 DEF Base, PermitTyped, HoldsPermit
      <4>2. conn'[k] = None \/ conn'[k] = [conn[k] EXCEPT !.step = "trusted"]
        BY <2>3 DEF Base, PermitTyped
      <4>3. [conn[k] EXCEPT !.step = "trusted"].step = "trusted"
        BY <1>1 DEF Hello
      <4> QED
        BY <4>1, <4>2, <4>3
    <3>3. \A o \in Op : pc[o] = "idle"
      BY <2>2, BrowserAssumption DEF Base, HoldsPermit
    <3>4. admin = None
      BY <2>2, BrowserAssumption DEF Base, HoldsPermit
    <3> QED
      BY <2>2, <3>1, <3>2, <3>3, <3>4 DEF Base, PermitTyped, HoldsPermit
  <2>5. GhostTyped'
    BY <1>5 DEF NativeApprove, Base, GhostTyped
  <2> QED
    BY <1>3, <1>5, <2>1, <2>4, <2>5
    DEF NativeApprove, Base, TableTyped, WireTyped, ServiceTyped, Room
<1>6. CASE NativeRegister(k)
  <2> DEFINE n == conn[k]
  <2>1. PermitTyped' /\ HoldsPermit' /\ GhostTyped'
    BY <1>6 DEF NativeRegister, ConnEnds, Base, PermitTyped, HoldsPermit, GhostTyped
  <2>2. CASE AuditFails /\ UNCHANGED <<inst, link, ids>>
    BY <1>3, <1>6, <2>1, <2>2, AuditTyped
    DEF NativeRegister, Base, RegistryTyped, TableTyped, WireTyped, ServiceTyped, Room
  <2>3. CASE UNCHANGED <<reg, disk, faulted>> /\ NewHandle(n.client, n.profile, "open")
    <3>1. RegistryTyped'
      BY <1>6, <2>3 DEF NativeRegister, Base, RegistryTyped
    <3>2. TableTyped' /\ WireTyped' /\ ServiceTyped'
      BY <1>1, <1>6, <2>3, NewHandleTyped
      DEF NativeRegister, Base, TableTyped, WireTyped, ServiceTyped
    <3>3. ids'.grant = ids.grant
      BY <1>1, <2>3, NewHandleTyped DEF Base, ServiceTyped
    <3> QED
      BY <1>3, <1>6, <2>1, <3>1, <3>2, <3>3 DEF NativeRegister, Base, Room
  <2> QED
    BY <1>6, <2>2, <2>3 DEF NativeRegister
<1> QED
  BY <1>4, <1>5, <1>6

\* Whoever commits holds the permit and gives it up.
LEMMA AdminPermit ==
  ASSUME Base, NEW kind, NEW step, AdminCommits(kind, step),
         UNCHANGED <<pc, conn, probe>>
  PROVE  PermitTyped' /\ HoldsPermit' /\ admin \in Admin
<1>1. gate = "admin" /\ admin \in Admin /\ admin' = None /\ gate' = None
  BY DEF AdminCommits, Base, PermitTyped, HoldsPermit
<1>2. \A o \in Op : pc[o] = "idle"
  BY <1>1, BrowserAssumption DEF Base, HoldsPermit
<1>3. \A k \in Conn : ~(conn[k] # None /\ conn[k].step \in {"prompt", "approved"})
  BY <1>1, BrowserAssumption DEF Base, HoldsPermit
<1> QED
  BY <1>1, <1>2, <1>3 DEF Base, PermitTyped, HoldsPermit

LEMMA NewEpochTyped ==
  ASSUME Base, NEW c \in Client, NewEpoch(c)
  PROVE  epochs' \in [Client -> Epochs]
  BY DEF Base, RegistryTyped, NewEpoch

LEMMA BaseAdmin ==
  ASSUME Base, RegisterCdpCommit \/ ConfigureCommit \/ RevokeCommit
  PROVE  Base'
<1>1. PermitTyped' /\ HoldsPermit' /\ admin \in Admin
  <2>1. CASE RegisterCdpCommit
    BY <2>1, AdminPermit DEF RegisterCdpCommit
  <2>2. CASE ConfigureCommit
    BY <2>2, AdminPermit DEF ConfigureCommit
  <2>3. CASE RevokeCommit
    BY <2>3, AdminPermit DEF RevokeCommit
  <2> QED
    BY <2>1, <2>2, <2>3
<1>2. admin.client \in Client /\ admin.target \in Client /\ admin.cred \in Cred
      /\ admin.origins \in SUBSET Origin
  BY <1>1 DEF Admin
<1>3. Captured' /\ UNCHANGED <<job, spent, pc, ticket, result, wire, page, flight, serviceVars>>
  BY CommitFrame DEF Commit, Base, Captured
<1>4. CASE RegisterCdpCommit
  <2>1. CASE AuditFails /\ UNCHANGED <<inst, link, ids>>
    BY <1>1, <1>3, <1>4, <2>1, AuditTyped
    DEF RegisterCdpCommit, Base, RegistryTyped, TableTyped, WorkTyped, WireTyped,
        ServiceTyped, GhostTyped, Room
  <2>2. CASE UNCHANGED <<reg, disk, faulted>> /\ NewHandle(admin.client, None, "ready")
    <3>1. RegistryTyped' /\ WorkTyped' /\ GhostTyped'
      BY <1>3, <1>4, <2>2 DEF RegisterCdpCommit, Base, RegistryTyped, WorkTyped, GhostTyped
    <3>2. TableTyped' /\ WireTyped' /\ ServiceTyped'
      BY <1>2, <1>3, <1>4, <2>2, NewHandleTyped
      DEF RegisterCdpCommit, Base, TableTyped, WireTyped, ServiceTyped
    <3>3. ids'.grant = ids.grant
      BY <1>2, <2>2, NewHandleTyped DEF Base, ServiceTyped
    <3> QED
      BY <1>1, <1>3, <3>1, <3>2, <3>3 DEF Base, Room
  <2> QED
    BY <1>4, <2>1, <2>2 DEF RegisterCdpCommit
<1>5. CASE ConfigureCommit
  <2>1. TableTyped' /\ WireTyped' /\ ServiceTyped' /\ Room'
    BY <1>3, <1>5 DEF ConfigureCommit, Base, TableTyped, WireTyped, ServiceTyped, Room
  <2>2. CASE AuditFails /\ UNCHANGED <<epochs, cancel, ghost>>
    BY <1>1, <1>3, <2>1, <2>2, AuditTyped
    DEF Base, RegistryTyped, WorkTyped, GhostTyped
  <2>3. CASE ~(AuditFails /\ UNCHANGED <<epochs, cancel, ghost>>)
    <3>1. /\ NewEpoch(admin.client)
          /\ Persist(Configured(admin.client, admin.cred, admin.origins))
          /\ cancel' = cancel \cup OwnOpen(admin.client)
          /\ ghost' = [ghost EXCEPT !.void = Voids(OwnOpen(admin.client))]
      BY <1>5, <2>3 DEF ConfigureCommit
    <3>2. Configured(admin.client, admin.cred, admin.origins) \in Registry
      BY <1>2, RegistriesTyped
    <3>3. RegistryTyped'
      BY <1>2, <3>1, <3>2, PersistTyped, NewEpochTyped DEF RegistryTyped
    <3>4. WorkTyped'
      BY <1>3, <3>1, OpenTyped DEF Base, WorkTyped
    <3>5. GhostTyped'
      BY <3>1, VoidTyped DEF Base, GhostTyped
    <3> QED
      BY <1>1, <1>3, <2>1, <3>3, <3>4, <3>5 DEF Base
  <2> QED
    BY <2>2, <2>3
<1>6. CASE RevokeCommit
  <2>1. ServiceTyped' /\ Room'
    BY <1>3, <1>6 DEF RevokeCommit, Base, ServiceTyped, Room
  <2>2. CASE AuditFails /\ UNCHANGED <<epochs, inst, bound, link, cancel, ghost>>
    BY <1>1, <1>3, <2>1, <2>2, AuditTyped
    DEF Base, RegistryTyped, TableTyped, WorkTyped, WireTyped, GhostTyped
  <2>3. CASE ~(AuditFails /\ UNCHANGED <<epochs, inst, bound, link, cancel, ghost>>)
    <3> DEFINE t == admin.target
    <3>1. /\ epochs' = [epochs EXCEPT ![t] = 0]
          /\ inst' = Removed(Owned(t)) /\ link' = Stopped(Owned(t))
          /\ bound' = [x \in Target |-> IF bound[x] # None /\ bound[x].owner = t
                                        THEN None ELSE bound[x]]
          /\ cancel' = cancel \cup OwnOpen(t)
          /\ Persist(Unpaired(t))
          /\ ghost' = [ghost EXCEPT !.void = Voids(OwnOpen(t)),
                                    !.revoked = Acknowledged(Unpaired(t))]
      BY <1>6, <2>3 DEF RevokeCommit
    <3>2. 0 \in Epochs
      BY BrowserAssumption, FS_CardinalityType DEF Epochs
    <3>3. RegistryTyped'
      <4>1. Unpaired(t) \in Registry
        BY <1>2, RegistriesTyped
      <4>2. reg' \in Registry /\ disk' \in Registry /\ faulted' \in BOOLEAN
        BY <3>1, <4>1, PersistTyped
      <4> QED
        BY <1>2, <3>1, <3>2, <4>2 DEF Base, RegistryTyped
    <3>4. TableTyped' /\ WireTyped'
      BY <1>3, <3>1 DEF Removed, Stopped, Base, TableTyped, WireTyped
    <3>5. WorkTyped'
      BY <1>3, <3>1, OpenTyped DEF Base, WorkTyped
    <3>6. GhostTyped'
      <4>1. Acknowledged(Unpaired(t)) \in SUBSET (1..MaxGrantId)
        BY AcknowledgedTyped
      <4>2. Voids(OwnOpen(t)) \in SUBSET Op
        BY VoidTyped
      <4> QED
        BY <3>1, <4>1, <4>2 DEF Base, GhostTyped
    <3> QED
      BY <1>1, <1>3, <2>1, <3>3, <3>4, <3>5, <3>6 DEF Base
  <2> QED
    BY <2>2, <2>3
<1> QED
  BY <1>4, <1>5, <1>6

LEMMA BaseWithdraw ==
  ASSUME Base, NEW c \in Client, NEW ss, NEW uses \in SUBSET Op, Withdraw(c, ss, uses),
         Commit
  PROVE  Base'
<1>1. /\ TableTyped' /\ PermitTyped' /\ WireTyped' /\ ServiceTyped'
      /\ HoldsPermit' /\ Captured' /\ Room'
  BY DEF Withdraw, Base, TableTyped, PermitTyped, WireTyped, ServiceTyped, HoldsPermit,
         Captured, Room
<1>2. CASE AuditFails /\ UNCHANGED <<epochs, cancel, ghost>>
  BY <1>1, <1>2, AuditTyped DEF Withdraw, Base, RegistryTyped, WorkTyped, GhostTyped
<1>3. CASE ~(AuditFails /\ UNCHANGED <<epochs, cancel, ghost>>)
  <2>1. /\ NewEpoch(c) /\ cancel' = cancel \cup uses /\ Persist(Without(c, ss))
        /\ ghost' = [ghost EXCEPT !.void = Voids(uses \cup Prompting(c)),
                                  !.revoked = Acknowledged(Without(c, ss))]
    BY <1>3 DEF Withdraw
  <2>2. Without(c, ss) \in Registry
    BY RegistriesTyped
  <2>3. RegistryTyped'
    BY <2>1, <2>2, PersistTyped, NewEpochTyped DEF RegistryTyped
  <2>4. WorkTyped'
    BY <2>1 DEF Withdraw, Base, WorkTyped
  <2>5. GhostTyped'
    <3>1. Acknowledged(Without(c, ss)) \in SUBSET (1..MaxGrantId)
      BY AcknowledgedTyped
    <3>2. Voids(uses \cup Prompting(c)) \in SUBSET Op
      BY VoidTyped
    <3> QED
      BY <2>1, <3>1, <3>2 DEF Base, GhostTyped
  <2> QED
    BY <1>1, <2>3, <2>4, <2>5 DEF Base
<1> QED
  BY <1>2, <1>3

LEMMA BaseDisconnect ==
  ASSUME Base, NEW c \in Client, NEW h \in Handle, DisconnectBrowser(c, h)
  PROVE  Base'
<1> DEFINE mine == {o \in Open : job[o].browser = h}
<1>1. PermitTyped' /\ ServiceTyped' /\ HoldsPermit' /\ Captured' /\ Room'
  BY DEF DisconnectBrowser, Base, PermitTyped, ServiceTyped, HoldsPermit, Captured, Room
<1>2. RegistryTyped'
  <2>1. Disconnected(c, h) \in Registry
    BY RegistriesTyped
  <2>2. NewEpoch(c) /\ Persist(Disconnected(c, h))
    BY DEF DisconnectBrowser
  <2> QED
    BY <2>1, <2>2, PersistTyped, NewEpochTyped DEF RegistryTyped
<1>3. WireTyped'
  BY DEF DisconnectBrowser, Stopped, Base, WireTyped
<1>4. CASE UNCHANGED <<inst, bound, cancel>>
           /\ ghost' = [ghost EXCEPT !.void = Voids(Prompting(c))]
  BY <1>1, <1>2, <1>3, <1>4, VoidTyped
  DEF DisconnectBrowser, Base, TableTyped, WorkTyped, GhostTyped
<1>5. CASE ~(UNCHANGED <<inst, bound, cancel>>
             /\ ghost' = [ghost EXCEPT !.void = Voids(Prompting(c))])
  <2>1. /\ inst' = Removed({h}) /\ bound' = Unbound({h}) /\ cancel' = cancel \cup mine
        /\ ghost' = [ghost EXCEPT
             !.void = Voids(mine \cup Prompting(c)),
             !.revoked = Acknowledged(Disconnected(c, h)),
             !.cut = IF faulted' \/ inst[h].profile = None THEN @
                     ELSE @ \cup {<<c, inst[h].profile>>}]
    BY <1>5 DEF DisconnectBrowser
  <2>2. TableTyped' /\ WorkTyped'
    BY <2>1, OpenTyped DEF DisconnectBrowser, Removed, Unbound, Base, TableTyped, WorkTyped
  <2>3. GhostTyped'
    <3>1. Acknowledged(Disconnected(c, h)) \in SUBSET (1..MaxGrantId)
      BY AcknowledgedTyped
    <3>2. Voids(mine \cup Prompting(c)) \in SUBSET Op
      BY VoidTyped
    <3>3. inst[h].profile # None => <<c, inst[h].profile>> \in Client \X Profile
      BY DEF DisconnectBrowser, Base, TableTyped, Instance
    <3>4. (IF faulted' \/ inst[h].profile = None THEN ghost.cut
           ELSE ghost.cut \cup {<<c, inst[h].profile>>}) \in SUBSET (Client \X Profile)
      BY <3>3 DEF Base, GhostTyped
    <3> QED
      BY <2>1, <3>1, <3>2, <3>4 DEF Base, GhostTyped
  <2> QED
    BY <1>1, <1>2, <1>3, <2>2, <2>3 DEF Base
<1> QED
  BY <1>4, <1>5

LEMMA BaseCommit ==
  ASSUME Base, Commit
  PROVE  Base'
<1>1. CASE Reap
  <2>1. RegistryTyped'
    BY <1>1, RegistriesTyped DEF Reap, Base, RegistryTyped
  <2>2. TableTyped' /\ WorkTyped'
    BY <1>1 DEF Reap, ReapedFills, Open, Jobs, Base, TableTyped, WorkTyped
  <2>3. GhostTyped'
    BY <1>1, VoidTyped DEF Reap, Base, GhostTyped
  <2> QED
    BY <1>1, <2>1, <2>2, <2>3
    DEF Reap, Base, PermitTyped, WireTyped, ServiceTyped, HoldsPermit, Captured, Room
<1>2. ASSUME NEW c \in Client, ClearConsents(c) PROVE Base'
  BY <1>2, BaseWithdraw, OpenTyped DEF ClearConsents, Commit
<1>3. ASSUME NEW c \in Client, NEW g \in reg.consents, RevokeConsent(c, g) PROVE Base'
  <2>1. Uses(c, g.scope) \in SUBSET Op
    BY OpenTyped DEF Uses
  <2> QED
    BY <1>3, <2>1, BaseWithdraw DEF RevokeConsent, Commit
<1> QED
  BY <1>1, <1>2, <1>3, BaseNative, BaseAdmin, BaseDisconnect DEF Commit

\* What an admission does, for both kinds of fill.
LEMMA AdmitCases ==
  ASSUME Base, NEW o \in Op, Admits(o)
  PROVE  \E c \in Client, t \in Target, prompted \in BOOLEAN, creds \in SUBSET Cred :
           /\ Reserve(o, c, t, prompted, creds)
           /\ bound[t] \in Bound /\ bound[t].owner = c /\ inst[bound[t].browser] \in Instance
           /\ prompted => creds = {}
           /\ ~prompted => Allowed(reg, c, Place[bound[t].doc], creds)
<1>1. \A c \in Client, t \in Target :
        Found(c, t) => /\ bound[t] \in Bound /\ bound[t].owner = c
                       /\ inst[bound[t].browser] \in Instance
  BY DEF Found, Base, TableTyped, Bound
<1>2. ASSUME NEW c \in Client, NEW t \in Target, SecurePromptFill(o, c, t)
      PROVE  /\ Reserve(o, c, t, TRUE, {}) /\ bound[t] \in Bound
             /\ bound[t].owner = c /\ inst[bound[t].browser] \in Instance
  BY <1>1, <1>2 DEF SecurePromptFill
<1>3. ASSUME NEW c \in Client, NEW t \in Target, NEW creds \in SUBSET Cred,
             SecureFill(o, c, t, creds)
      PROVE  /\ Reserve(o, c, t, FALSE, creds) /\ bound[t] \in Bound
             /\ bound[t].owner = c /\ inst[bound[t].browser] \in Instance
             /\ Allowed(reg, c, Place[bound[t].doc], creds)
  BY <1>1, <1>3 DEF SecureFill
<1>4. CASE \E c \in Client, t \in Target : SecurePromptFill(o, c, t)
  <2>1. TRUE \in BOOLEAN /\ {} \in SUBSET Cred
    OBVIOUS
  <2> QED
    BY <1>2, <1>4, <2>1
<1>5. CASE \E c \in Client, t \in Target, creds \in SUBSET Cred : SecureFill(o, c, t, creds)
  <2>1. FALSE \in BOOLEAN
    OBVIOUS
  <2> QED
    BY <1>3, <1>5, <2>1
<1> QED
  BY <1>4, <1>5 DEF Admits

LEMMA ScopeTyped ==
  ASSUME Base, NEW h \in Handle, NEW d \in Doc, NEW creds \in SUBSET Cred,
         inst[h] \in Instance
  PROVE  ScopeOf(h, d, creds) \in Scope
  BY BrowserAssumption DEF ScopeOf, Scope, Instance

LEMMA BaseAdmits ==
  ASSUME Base, NEW o \in Op, Admits(o)
  PROVE  Base'
<1>1. PICK c \in Client, t \in Target, prompted \in BOOLEAN, creds \in SUBSET Cred :
        /\ Reserve(o, c, t, prompted, creds)
        /\ bound[t] \in Bound /\ bound[t].owner = c /\ inst[bound[t].browser] \in Instance
  BY AdmitCases
<1> DEFINE b == bound[t]
           s == ScopeOf(b.browser, b.doc, creds)
<1>2. CASE AuditFails /\ UNCHANGED <<bound, job, spent, pc, ticket, gate>>
  BY <1>1, <1>2, AuditTyped
  DEF Reserve, Base, RegistryTyped, TableTyped, WorkTyped, PermitTyped, WireTyped,
      ServiceTyped, GhostTyped, HoldsPermit, Captured, Room
<1>3. CASE ~(AuditFails /\ UNCHANGED <<bound, job, spent, pc, ticket, gate>>)
  <2>1. PICK g \in IF Covering(c, s) = {} THEN {0} ELSE {x.id : x \in Covering(c, s)} :
          ticket' = [ticket EXCEPT ![o] =
            [owner |-> c, browser |-> b.browser, doc |-> b.doc, prompted |-> prompted,
             scope |-> s, existing |-> g, epoch |-> epochs[c]]]
    BY <1>1, <1>3 DEF Reserve
  <2>2. g \in 0..MaxGrantId
    BY Bounds DEF Covering, Base, RegistryTyped, Registry, Grant
  <2>3. b.browser \in Handle /\ b.doc \in Doc /\ s \in Scope /\ epochs[c] \in Epochs
    BY <1>1, ScopeTyped DEF Bound, Base, RegistryTyped
  <2>4. [owner |-> c, browser |-> b.browser, doc |-> b.doc, prompted |-> prompted,
         scope |-> s, existing |-> g, epoch |-> epochs[c]] \in Ticket
    BY <2>2, <2>3 DEF Ticket
  <2>5. [state |-> "pending", owner |-> c, browser |-> b.browser, target |-> t] \in Job
    BY <2>3 DEF Job
  <2>6. /\ gate' = o /\ bound' = [bound EXCEPT ![t] = None] /\ spent' = spent \cup {o}
        /\ job' = [job EXCEPT ![o] = [state |-> "pending", owner |-> c,
                                      browser |-> b.browser, target |-> t]]
        /\ pc' = [pc EXCEPT ![o] = "reserved"]
        /\ UNCHANGED <<reg, disk, faulted, epochs, inst, cancel, result, admin, conn, probe,
                       wireVars, serviceVars, ids, ghost>>
        /\ gate = None
    BY <1>1, <1>3 DEF Reserve, ConsumesHandle, PermitFree
  <2>7. TableTyped' /\ WorkTyped'
    BY <2>1, <2>4, <2>5, <2>6 DEF Base, TableTyped, WorkTyped
  <2>8. PermitTyped' /\ HoldsPermit'
    BY <2>6, BrowserAssumption DEF Base, PermitTyped, HoldsPermit, WorkTyped
  <2>9. Captured'
    <3>1. [owner |-> c, browser |-> b.browser, doc |-> b.doc, prompted |-> prompted,
         scope |-> s, existing |-> g, epoch |-> epochs[c]] # None
      BY <2>4, NoneAssumption
    <3> HIDE DEF s
    <3> QED
      BY <2>1, <2>6, <3>1 DEF Base, Captured, WorkTyped, TableTyped
  <2> QED
    BY <2>6, <2>7, <2>8, <2>9
    DEF Base, RegistryTyped, WorkTyped, WireTyped, ServiceTyped, GhostTyped, Room
<1> QED
  BY <1>2, <1>3

\* Ending a task gives up the permit it holds.
LEMMA EndsPermit ==
  ASSUME Base, NEW o \in Op, pc[o] # "idle", pc' = [pc EXCEPT ![o] = "idle"],
         gate' = None, UNCHANGED <<admin, conn, probe>>
  PROVE  PermitTyped' /\ HoldsPermit'
<1>1. gate = o
  BY DEF Base, HoldsPermit
<1>2. admin = None /\ \A k \in Conn : ~(conn[k] # None /\ conn[k].step \in {"prompt", "approved"})
  BY <1>1, BrowserAssumption DEF Base, HoldsPermit
<1>3. \A q \in Op : pc'[q] = "idle"
  BY <1>1 DEF Base, HoldsPermit, WorkTyped
<1> QED
  BY <1>2, <1>3 DEF Base, PermitTyped, HoldsPermit

LEMMA RememberedTyped ==
  ASSUME Base, NEW o \in Op, pc[o] = "always", ticket[o] \in Ticket
  PROVE  /\ [reg EXCEPT !.consents = @ \cup
               {[id |-> ids.grant, owner |-> ticket[o].owner, scope |-> ticket[o].scope]}]
             \in Registry
         /\ ids.grant \in 1..MaxGrantId
<1>1. ids.grant \in 1..MaxGrantId
  BY Bounds DEF Base, Room, ServiceTyped
<1>2. [id |-> ids.grant, owner |-> ticket[o].owner, scope |-> ticket[o].scope] \in Grant
  BY <1>1 DEF Grant, Ticket
<1> QED
  BY <1>1, <1>2 DEF Base, RegistryTyped, Registry

LEMMA BaseAuthorize ==
  ASSUME Base, NEW o \in Op, Authorize(o)
  PROVE  Base'
<1>1. ticket[o] \in Ticket /\ pc[o] \in {"once", "always"}
  BY DEF Authorize, Authorizable, Base, Captured, WorkTyped
<1>2. /\ RegistryTyped' /\ ServiceTyped'
      /\ ids' = ids \/ pc[o] = "always"
  <2>1. CASE AuditFails /\ UNCHANGED <<job, ids, shutdown>>
    BY <2>1, AuditTyped DEF Authorize, Base, RegistryTyped, ServiceTyped
  <2>2. CASE Remembers(o) /\ pc[o] # "always"
    BY <2>2 DEF Remembers, Authorize, Base, RegistryTyped, ServiceTyped
  <2>3. CASE Remembers(o) /\ pc[o] = "always"
    <3>1. reg' \in Registry /\ disk' \in Registry /\ faulted' \in BOOLEAN
      BY <1>1, <2>3, RememberedTyped, PersistTyped DEF Remembers
    <3>2. ids' = [ids EXCEPT !.grant = @ + 1] /\ ids.grant + 1 \in 1..(MaxGrantId + 1)
      BY <1>1, <2>3, Bounds, RememberedTyped DEF Remembers
    <3>3. ids' \in [handle : 1..(MaxHandle + 1), target : 1..(MaxTarget + 1),
                   grant : 1..(MaxGrantId + 1)]
      BY <3>2 DEF Base, ServiceTyped
    <3>4. shutdown' \in BOOLEAN /\ UNCHANGED <<up, epoch, epochs>>
      BY DEF Authorize, Base, ServiceTyped
    <3> QED
      BY <2>3, <3>1, <3>3, <3>4 DEF Base, RegistryTyped, ServiceTyped
  <2> QED
    BY <2>1, <2>2, <2>3 DEF Authorize
<1>3. PICK p \in {"settled", "effect"} :
        /\ pc' = [pc EXCEPT ![o] = p]
        /\ p = "settled" => job' = job /\ result' = [result EXCEPT ![o] = "unfilled"]
        /\ p = "effect" => /\ job' = [job EXCEPT ![o].state = "filling"]
                           /\ UNCHANGED result /\ job[o].state = "pending"
  BY DEF Authorize, Settle
<1>4. UNCHANGED <<inst, bound, spent, cancel, ticket, permitVars, wireVars, ghost>>
  BY DEF Authorize
<1>5. job' \in [Op -> Job]
  <2>1. [job[o] EXCEPT !.state = "filling"] \in Job
    BY DEF Base, TableTyped, Job
  <2> QED
    BY <1>3, <2>1 DEF Base, TableTyped
<1>6. TableTyped' /\ WorkTyped' /\ PermitTyped' /\ WireTyped' /\ GhostTyped'
  BY <1>3, <1>4, <1>5 DEF Base, TableTyped, WorkTyped, PermitTyped, WireTyped, GhostTyped
<1>7. HoldsPermit'
  BY <1>1, <1>3, <1>4 DEF Base, HoldsPermit, WorkTyped
<1>8. Captured'
  <2>1. \A q \in Op : /\ job'[q].owner = job[q].owner /\ job'[q].browser = job[q].browser
                      /\ job'[q].target = job[q].target
    BY <1>3 DEF Base, TableTyped, WorkTyped, Job
  <2>2. job'[o].state = IF pc'[o] = "effect" THEN "filling" ELSE job[o].state
    BY <1>3 DEF Base, TableTyped, WorkTyped, Job
  <2>3. pc'[o] \in {"settled", "effect"} /\ (pc'[o] = "settled" => result'[o] = "unfilled")
    BY <1>3 DEF Base, WorkTyped
  <2>4. ticket' = ticket
    BY <1>4
  <2>5. ASSUME NEW q \in Op, q # o
        PROVE  pc'[q] = pc[q] /\ ticket'[q] = ticket[q] /\ job'[q] = job[q] /\ result'[q] = result[q]
    BY <1>3, <2>4, <2>5 DEF Base, TableTyped, WorkTyped
  <2>6. job[o].state = "pending" /\ job[o].owner = ticket[o].owner
        /\ job[o].browser = ticket[o].browser /\ ticket[o] # None /\ job[o].target \in Target
    BY <1>1 DEF Base, Captured
  <2> QED
    <3>1. ticket'[o] = ticket[o]
      BY <2>4
    <3> QED
      BY <2>1, <2>2, <2>3, <2>5, <2>6, <3>1 DEF Base, Captured
<1>9. Room'
  <2>1. \A q \in Op : pc'[q] = "always" => q # o /\ pc[q] = "always"
    BY <1>3 DEF Base, WorkTyped
  <2>2. \A q \in Op : pc[q] # "idle" => q = o
    BY <1>1 DEF Base, HoldsPermit
  <2> QED
    BY <2>1, <2>2 DEF Room
<1> QED
  BY <1>2, <1>6, <1>7, <1>8, <1>9 DEF Base

LEMMA BaseComplete ==
  ASSUME Base, NEW o \in Op, Complete(o)
  PROVE  Base'
<1>1. PICK s \in Finished : job' = [job EXCEPT ![o].state = s]
  <2>1. PICK audited \in BOOLEAN :
          job' = [job EXCEPT ![o].state = IF audited THEN result[o] ELSE "uncertain"]
    BY DEF Complete
  <2>2. (IF audited THEN result[o] ELSE "uncertain") \in Finished
    BY DEF Complete, Base, Captured
  <2> QED
    BY <2>1, <2>2
<1>2. /\ pc[o] = "settled" /\ pc' = [pc EXCEPT ![o] = "idle"] /\ gate' = None
      /\ ticket' = [ticket EXCEPT ![o] = None] /\ result' = [result EXCEPT ![o] = None]
      /\ cancel' = cancel \ {o} /\ ghost' = [ghost EXCEPT !.void = @ \ {o}]
      /\ faulted' \in BOOLEAN
      /\ UNCHANGED <<reg, disk, epochs, inst, bound, spent, admin, conn, probe, wireVars,
                     serviceVars, ids>>
  BY DEF Complete, Base, RegistryTyped
<1>3. [job[o] EXCEPT !.state = s] \in Job
  BY DEF Base, TableTyped, Job
<1>4. TableTyped' /\ WorkTyped' /\ RegistryTyped' /\ GhostTyped' /\ WireTyped' /\ ServiceTyped'
  BY <1>1, <1>2, <1>3
  DEF Base, TableTyped, WorkTyped, RegistryTyped, GhostTyped, WireTyped, ServiceTyped
<1>5. PermitTyped' /\ HoldsPermit'
  BY <1>2, EndsPermit
<1>6. ASSUME NEW q \in Op, q # o
      PROVE  pc'[q] = pc[q] /\ ticket'[q] = ticket[q] /\ job'[q] = job[q] /\ result'[q] = result[q]
  BY <1>1, <1>2, <1>6 DEF Base, TableTyped, WorkTyped
<1>7. job'[o].state # "none" /\ job'[o].target = job[o].target /\ pc'[o] = "idle" /\ ticket'[o] = None
  BY <1>1, <1>2 DEF Base, TableTyped, WorkTyped, Job
<1>8. job[o].target \in Target
  BY <1>2 DEF Base, Captured
<1>9. Captured'
  BY <1>6, <1>7, <1>8 DEF Base, Captured
<1>10. Room'
  BY <1>2 DEF Base, Room, WorkTyped
<1> QED
  BY <1>4, <1>5, <1>9, <1>10 DEF Base

\* Steps on the tables, on the wire, and of the service.
LEMMA BaseTables ==
  ASSUME Base, Forget \/ BindTargets \/ StopAll
  PROVE  Base'
<1>1. CASE Forget
  <2>1. /\ bound' \in [Target -> Bound \cup {None}] /\ job' \in [Op -> Job]
    BY <1>1, NoJobTyped DEF Forget, Base, TableTyped
  <2>2. Captured'
    BY <1>1 DEF Forget, Jobs, NoJob, Base, TableTyped, Captured
  <2> QED
    BY <1>1, <2>1, <2>2
    DEF Forget, Base, RegistryTyped, TableTyped, WorkTyped, PermitTyped, WireTyped,
        ServiceTyped, GhostTyped, HoldsPermit, Room
<1>2. CASE BindTargets
  <2>1. probe \in Probe /\ ids.target \in Target
    BY <1>2, Bounds DEF BindTargets, Base, PermitTyped, ServiceTyped, Target
  <2>2. [owner |-> probe.client, browser |-> probe.browser, doc |-> probe.doc] \in Bound
    BY <2>1 DEF Probe, Bound
  <2>3. bound' \in [Target -> Bound \cup {None}]
    BY <1>2, <2>1, <2>2 DEF BindTargets, Rebound, Unbound, Base, TableTyped
  <2>4. ids' = [ids EXCEPT !.target = ids.target + 1] /\ ids.target + 1 \in 1..(MaxTarget + 1)
    BY <1>2, <2>1, Bounds DEF BindTargets, Target
  <2>5. ServiceTyped' /\ ids'.grant = ids.grant
    BY <1>2, <2>4 DEF BindTargets, Base, ServiceTyped
  <2> QED
    BY <1>2, <2>3, <2>5
    DEF BindTargets, Base, RegistryTyped, TableTyped, WorkTyped, PermitTyped, WireTyped,
        GhostTyped, HoldsPermit, Captured, Room
<1>3. CASE StopAll
  BY <1>3, OpenTyped
  DEF StopAll, Removed, Stopped, Base, RegistryTyped, TableTyped, WorkTyped, PermitTyped,
      WireTyped, ServiceTyped, GhostTyped, HoldsPermit, Captured, Room
<1> QED
  BY <1>1, <1>2, <1>3

LEMMA BaseRequest ==
  ASSUME Base, NEW o \in Op, Aborted(o) \/ CancelFill(o) \/ Dispatch(o)
  PROVE  Base'
<1>1. CASE Aborted(o)
  <2>1. PermitTyped' /\ HoldsPermit'
    BY <1>1, EndsPermit DEF Aborted
  <2> QED
    BY <1>1, <2>1
    DEF Aborted, Base, RegistryTyped, TableTyped, WorkTyped, WireTyped, ServiceTyped,
        GhostTyped, Captured, Room
<1>2. CASE CancelFill(o)
  <2>1. GhostTyped'
    BY <1>2, VoidTyped DEF CancelFill, Base, GhostTyped
  <2> QED
    BY <1>2, <2>1
    DEF CancelFill, Base, RegistryTyped, TableTyped, WorkTyped, PermitTyped, WireTyped,
        ServiceTyped, HoldsPermit, Captured, Room
<1>3. CASE Dispatch(o)
  <2>1. job[o].target \in Target
    BY <1>3 DEF Dispatch, Base, Captured
  <2>2. GhostTyped' /\ WireTyped'
    BY <1>3, <2>1 DEF Dispatch, Base, GhostTyped, WireTyped
  <2> QED
    BY <1>3, <2>2
    DEF Dispatch, WireOnly, Base, RegistryTyped, TableTyped, WorkTyped, PermitTyped,
        ServiceTyped, HoldsPermit, Captured, Room
<1> QED
  BY <1>1, <1>2, <1>3

LEMMA BaseService ==
  ASSUME Base, Crash \/ Restart \/ \E t \in Target : Acts(t)
  PROVE  Base'
<1>1. CASE Crash
  <2>1. 0 \in Epochs
    BY BrowserAssumption, FS_CardinalityType DEF Epochs
  <2>2. RegistryTyped' /\ GhostTyped'
    BY <1>1, <2>1, BlankTyped DEF Crash, Base, RegistryTyped, GhostTyped
  <2>3. TableTyped' /\ WorkTyped' /\ PermitTyped' /\ WireTyped' /\ ServiceTyped'
    BY <1>1, NoJobTyped DEF Crash, Base, TableTyped, WorkTyped, PermitTyped, WireTyped, ServiceTyped
  <2>4. HoldsPermit' /\ Captured' /\ Room'
    BY <1>1 DEF Crash, HoldsPermit, Captured, Room, NoJob
  <2> QED
    BY <2>2, <2>3, <2>4 DEF Base
<1>2. CASE Restart
  <2>1. RegistryTyped'
    BY <1>2, RegistriesTyped DEF Restart, Base, RegistryTyped
  <2>2. ServiceTyped'
    <3>1. epoch' \in 1..MaxEpoch
      BY <1>2, Bounds DEF Restart, Base, ServiceTyped
    <3> QED
      BY <1>2, <3>1 DEF Restart, Base, ServiceTyped
  <2> QED
    BY <1>2, <2>1, <2>2
    DEF Restart, Base, TableTyped, WorkTyped, PermitTyped, WireTyped, GhostTyped,
        HoldsPermit, Captured, Room
<1>3. ASSUME NEW t \in Target, Acts(t) PROVE Base'
  <2>1. GhostTyped'
    BY <1>3 DEF Acts, Base, GhostTyped
  <2> QED
    BY <1>3, <2>1
    DEF Acts, Base, RegistryTyped, TableTyped, WorkTyped, PermitTyped, WireTyped,
        ServiceTyped, HoldsPermit, Captured, Room
<1> QED
  BY <1>1, <1>2, <1>3

LEMMA BaseStep == Base /\ [Next]_vars => Base'
<1> SUFFICES ASSUME Base, [Next]_vars PROVE Base'
  OBVIOUS
<1>1. CASE UNCHANGED vars
  BY <1>1
  DEF vars, Base, RegistryTyped, TableTyped, WorkTyped, PermitTyped, WireTyped,
      ServiceTyped, GhostTyped, HoldsPermit, Captured, Room
<1> QED
  BY <1>1, NextCases, BaseQuiet, BaseCommit, BaseTask, BaseAdmits, BaseAuthorize,
     BaseComplete, BaseTables, BaseRequest, BaseService

\* Every table, task, connection and registry of the browser half stays well
\* formed, and the human permit has one holder: the task of one fill, one
\* administrative request, or one connection whose human is being asked.
THEOREM TypeCorrect == Spec => []Base
  BY BaseInit, BaseStep, PTL DEF Spec

-----------------------------------------------------------------------------
(* One use of a handle, and what receipts say.  A handle is in the table     *)
(* until a fill is admitted on it and in that fill's job ever after, so two  *)
(* jobs never share one; until the task of the job has sent, nothing was     *)
(* given for it, and where nothing was given the page cannot have written.   *)

HandleInv ==
  /\ \A t \in Target :
       /\ bound[t] # None => t < ids.target
       /\ bound[t] # None \/ ids.target <= t => ghost.gave[t] = 0
       /\ ghost.gave[t] <= 1
       /\ ghost.gave[t] = 0 => ghost.wrote[t] = "none" /\ t \notin flight
  /\ \A o \in Op :
       /\ job[o].state # "none" => job[o].target < ids.target /\ bound[job[o].target] = None
       /\ pc[o] \in {"effect", "sending", "sent"} => job[o].state = "filling"
       /\ job[o].state = "pending" \/ pc[o] \in {"effect", "sending"} =>
            ghost.gave[job[o].target] = 0
  /\ \A o, q \in Op :
       job[o].state # "none" /\ job[q].state # "none" /\ job[o].target = job[q].target => o = q

\* What an outcome says of the page, from when the task has it until it is forgotten.
Says(s, t) ==
  /\ s = "unfilled" => ghost.wrote[t] = "none" /\ t \notin flight
  /\ s = "filled" => ghost.wrote[t] = "all" /\ t \notin flight
  /\ s = "partial" => ghost.wrote[t] \in {"all", "some"} /\ t \notin flight

OutcomeInv ==
  \A o \in Op :
    /\ Says(job[o].state, job[o].target)
    /\ pc[o] = "settled" => Says(result[o], job[o].target)

HandleVars == <<job, pc, flight, ids.target, ghost.gave, ghost.wrote>>

\* Handles may leave the table at any time.
LEMMA HandleShrinks ==
  ASSUME HandleInv, UNCHANGED HandleVars,
         \A t \in Target : bound'[t] \in {bound[t], None}, Base
  PROVE  HandleInv'
<1>1. /\ job' = job /\ pc' = pc /\ flight' = flight /\ ids'.target = ids.target
      /\ ghost'.gave = ghost.gave /\ ghost'.wrote = ghost.wrote
  BY DEF HandleVars
<1>2. \A o \in Op : job[o].state # "none" => job[o].target \in Target
  BY DEF Base, Captured
<1> QED
  BY <1>1, <1>2 DEF HandleInv

LEMMA OutcomeStays ==
  ASSUME OutcomeInv, UNCHANGED <<job, pc, result, flight, ghost.wrote>>
  PROVE  OutcomeInv'
  BY DEF OutcomeInv, Says

LEMMA QuietHandles ==
  ASSUME Base, HandleInv, OutcomeInv, Quiet
  PROVE  HandleInv' /\ OutcomeInv'
<1>1. UNCHANGED <<job, pc, result, flight, bound, ids, ghost>>
  BY QuietFrame
<1>2. UNCHANGED HandleVars /\ ghost'.wrote = ghost.wrote
  BY <1>1 DEF HandleVars
<1> QED
  BY <1>1, <1>2, HandleShrinks, OutcomeStays

\* Commits take handles out of the table, and give no material.
LEMMA CommitHandles ==
  ASSUME Base, Commit
  PROVE  /\ UNCHANGED HandleVars
         /\ \A t \in Target : bound'[t] \in {bound[t], None}
<1> DEFINE Goal == /\ ids'.target = ids.target /\ ghost'.gave = ghost.gave
                   /\ ghost'.wrote = ghost.wrote
                   /\ \A t \in Target : bound'[t] \in {bound[t], None}
<1> USE DEF Base, GhostTyped, ServiceTyped
<1>1. ASSUME Reap PROVE Goal
  BY <1>1 DEF Reap
<1>2. ASSUME NEW k \in Conn, NativeAsk(k) \/ NativeApprove(k) \/ NativeRegister(k)
      PROVE  Goal
  BY <1>2 DEF NativeAsk, NativeApprove, NativeRegister, NewHandle
<1>3. ASSUME RegisterCdpCommit \/ ConfigureCommit PROVE Goal
  BY <1>3 DEF RegisterCdpCommit, ConfigureCommit, NewHandle
<1>4. ASSUME RevokeCommit PROVE Goal
  BY <1>4 DEF RevokeCommit
<1>5. ASSUME NEW c \in Client, NEW h \in Handle, DisconnectBrowser(c, h) PROVE Goal
  BY <1>5 DEF DisconnectBrowser, Unbound
<1>6. ASSUME NEW c, NEW ss, NEW uses, Withdraw(c, ss, uses) PROVE Goal
  BY <1>6 DEF Withdraw
<1>7. Goal
  BY <1>1, <1>2, <1>3, <1>4, <1>5, <1>6 DEF Commit, RevokeConsent, ClearConsents
<1> QED
  BY <1>7, CommitFrame DEF HandleVars

LEMMA TaskHandles ==
  ASSUME Base, HandleInv, OutcomeInv, NEW o \in Op, Task(o)
  PROVE  HandleInv' /\ OutcomeInv'
<1>1. UNCHANGED <<job, bound, flight, ids, ghost>>
  BY TaskFrame
<1>2. job[o].target \in Target /\ job[o].state \in {"pending", "filling"} /\ pc[o] # "idle"
  BY TaskFrame DEF Base, Captured
<1>3. \A q \in Op : q # o => pc'[q] = pc[q] /\ result'[q] = result[q]
  <2>1. \A q \in Op : q # o => pc'[q] = pc[q]
    BY TaskFrame DEF Base, WorkTyped
  <2>2. result' = result \/ \E s : result' = [result EXCEPT ![o] = s]
    BY DEF Task, Spawn, PromptExpires, PromptCancelled, Decide, DecideStored, DecidePrompted,
           AuthorizeRefused, EffectRefused, EffectStarts, StaleFound, Replied, Cut, Settle
  <2> QED
    BY <2>1, <2>2 DEF Base, WorkTyped
<1>4. /\ pc'[o] \in {"effect", "sending", "sent"} => pc[o] = "effect" /\ pc'[o] = "sending"
      /\ pc'[o] = "settled" => Says(result'[o], job[o].target)
  <2> DEFINE t == job[o].target
             Goal == /\ pc'[o] \in {"effect", "sending", "sent"} => pc[o] = "effect" /\ pc'[o] = "sending"
                     /\ pc'[o] = "settled" => Says(result'[o], t)
  <2>1. ASSUME NEW s, Settle(o, s) PROVE pc'[o] = "settled" /\ result'[o] = s
    BY <2>1 DEF Settle, Base, WorkTyped
  <2>2. pc[o] \in {"prompt", "once", "always", "effect", "sending"} => Says("unfilled", t)
    BY <1>2 DEF HandleInv, Says, Base, Captured
  <2>3. CASE Spawn(o)
    BY <2>3 DEF Spawn, Base, WorkTyped
  <2>4. CASE PromptExpires(o) \/ PromptCancelled(o) \/ AuthorizeRefused(o) \/ EffectRefused(o)
             \/ StaleFound(o)
    <3>1. Settle(o, "unfilled") /\ pc[o] \in {"prompt", "once", "always", "effect", "sending"}
      BY <2>4 DEF PromptExpires, PromptCancelled, AuthorizeRefused, EffectRefused, StaleFound,
                  Asking
    <3> QED
      BY <2>1, <2>2, <3>1
  <2>5. CASE Decide(o)
    <3>1. CASE Settle(o, "unfilled")
      BY <2>1, <2>2, <2>5, <3>1 DEF Decide, Asking
    <3>2. CASE pc' = [pc EXCEPT ![o] = "once"] \/ pc' = [pc EXCEPT ![o] = "always"]
      BY <3>2 DEF Base, WorkTyped
    <3> QED
      BY <2>5, <3>1, <3>2 DEF Decide, DecideStored, DecidePrompted
  <2>6. CASE EffectStarts(o)
    BY <2>6 DEF EffectStarts, Base, WorkTyped
  <2>7. CASE Replied(o)
    <3>1. PICK s \in Outcome(ghost.wrote[t]) : Settle(o, s)
      BY <2>7 DEF Replied
    <3>2. t \notin flight /\ ghost.wrote[t] \in {"none", "all", "some"}
      BY <1>2, <2>7 DEF Replied, Base, GhostTyped
    <3>3. Says(s, t)
      BY <3>1, <3>2 DEF Says, Outcome
    <3> QED
      BY <2>1, <3>1, <3>3
  <2>8. CASE Cut(o)
    BY <2>1, <2>8 DEF Cut, CutIs, Says
  <2> QED
    BY <2>3, <2>4, <2>5, <2>6, <2>7, <2>8 DEF Task
<1>5. HandleInv'
  <2>1. /\ job' = job /\ bound' = bound /\ flight' = flight /\ ids' = ids /\ ghost' = ghost
    BY <1>1
  <2> QED
    BY <2>1, <1>2, <1>3, <1>4 DEF HandleInv
<1>6. OutcomeInv'
  <2>1. \A s, t : Says(s, t)' <=> Says(s, t)
    BY <1>1 DEF Says
  <2> QED
    BY <1>1, <1>3, <1>4, <2>1 DEF OutcomeInv, Says
<1> QED
  BY <1>5, <1>6

\* An admitted fill takes the handle from the table: no other job has it.
LEMMA AdmitHandles ==
  ASSUME Base, HandleInv, OutcomeInv, NEW o \in Op, Admits(o)
  PROVE  HandleInv' /\ OutcomeInv'
<1>1. PICK c \in Client, t \in Target, prompted \in BOOLEAN, creds \in SUBSET Cred :
        Reserve(o, c, t, prompted, creds) /\ bound[t] \in Bound
  BY AdmitCases
<1>2. bound[t] # None
  BY <1>1, NoneAssumption
<1>3. /\ UNCHANGED <<result, flight, ids, ghost>>
      /\ job[o].state = "none"
  BY <1>1 DEF Reserve, Fresh
<1>4. CASE UNCHANGED <<bound, job, pc>>
  BY <1>3, <1>4 DEF HandleInv, OutcomeInv, Says
<1>5. CASE ~UNCHANGED <<bound, job, pc>>
  <2> DEFINE j == [state |-> "pending", owner |-> c, browser |-> bound[t].browser, target |-> t]
  <2>1. bound' = [bound EXCEPT ![t] = None] /\ job' = [job EXCEPT ![o] = j]
        /\ pc' = [pc EXCEPT ![o] = "reserved"]
    BY <1>1, <1>5 DEF Reserve, ConsumesHandle
  <2>2. \A q \in Op : job[q].state # "none" => job[q].target # t /\ job[q].target \in Target
    BY <1>2 DEF HandleInv, Base, Captured
  <2>3. /\ \A q \in Op : job'[q] = IF q = o THEN j ELSE job[q]
        /\ \A q \in Op : pc'[q] = IF q = o THEN "reserved" ELSE pc[q]
        /\ \A x \in Target : bound'[x] = IF x = t THEN None ELSE bound[x]
    BY <2>1 DEF Base, TableTyped, WorkTyped
  <2>4. j.state = "pending" /\ j.target = t
    OBVIOUS
  <2> HIDE DEF j
  <2>5. /\ flight' = flight /\ ids' = ids /\ ghost' = ghost /\ result' = result
    BY <1>3
  <2>6. HandleInv'
    BY <1>2, <2>2, <2>3, <2>4, <2>5 DEF HandleInv
  <2>7. \A q \in Op : pc'[q] = "settled" => q # o
    BY <2>3
  <2>8. OutcomeInv'
    BY <2>3, <2>4, <2>5, <2>7 DEF OutcomeInv, Says
  <2> QED
    BY <2>6, <2>8
<1> QED
  BY <1>4, <1>5

\* The steps that dispatch, settle or finish a fill.
LEMMA FillHandles ==
  ASSUME Base, HandleInv, OutcomeInv, NEW o \in Op,
         Aborted(o) \/ CancelFill(o) \/ Authorize(o) \/ Dispatch(o) \/ Complete(o)
  PROVE  HandleInv' /\ OutcomeInv'
<1>1. CASE Aborted(o)
  BY <1>1 DEF Aborted, HandleInv, OutcomeInv, Says, Base, WorkTyped
<1>2. CASE CancelFill(o)
  <2>1. ghost'.gave = ghost.gave /\ ghost'.wrote = ghost.wrote
    BY <1>2 DEF CancelFill, Base, GhostTyped
  <2> QED
    BY <1>2, <2>1 DEF CancelFill, HandleInv, OutcomeInv, Says
<1>3. CASE Authorize(o)
  <2>1. UNCHANGED <<bound, flight, ghost>> /\ ids'.target = ids.target
        /\ pc[o] \in {"once", "always"}
    BY <1>3 DEF Authorize, Authorizable, Remembers, Base, ServiceTyped
  <2>2. PICK p \in {"settled", "effect"} :
          /\ pc' = [pc EXCEPT ![o] = p]
          /\ p = "settled" => job' = job /\ result' = [result EXCEPT ![o] = "unfilled"]
          /\ p = "effect" => job' = [job EXCEPT ![o].state = "filling"] /\ UNCHANGED result
    BY <1>3 DEF Authorize, Settle
  <2>3. /\ \A q \in Op : q # o => pc'[q] = pc[q] /\ job'[q] = job[q] /\ result'[q] = result[q]
        /\ pc'[o] = p
    BY <2>2 DEF Base, TableTyped, WorkTyped
  <2>4. /\ job'[o].target = job[o].target
        /\ job'[o].state = IF p = "effect" THEN "filling" ELSE job[o].state
    BY <2>2 DEF Base, TableTyped, WorkTyped, Job
  <2>5. job[o].state = "pending" /\ job[o].target \in Target
    BY <2>1 DEF Base, Captured
  <2>6. HandleInv'
    BY <2>1, <2>3, <2>4, <2>5 DEF HandleInv
  <2>7. p = "settled" => result'[o] = "unfilled"
    BY <2>2 DEF Base, WorkTyped
  <2>8. Says("unfilled", job[o].target)
    BY <2>5 DEF HandleInv, Says
  <2>9. OutcomeInv'
    BY <2>1, <2>3, <2>4, <2>5, <2>7, <2>8 DEF OutcomeInv, Says
  <2> QED
    BY <2>6, <2>9
<1>4. CASE Dispatch(o)
  <2> DEFINE t == job[o].target
  <2>1. /\ t \in Target /\ job[o].state = "filling" /\ ghost.gave[t] = 0
        /\ pc[o] = "sending"
    BY <1>4 DEF Dispatch, HandleInv, Base, Captured
  <2>2. t < ids.target /\ bound[t] = None
        /\ \A q \in Op : job[q].state # "none" /\ job[q].target = t => q = o
    BY <2>1 DEF HandleInv
  <2>3. /\ UNCHANGED <<job, bound, ids, result>> /\ flight' = flight \cup {t}
        /\ ghost'.wrote = ghost.wrote
        /\ \A x \in Target : ghost'.gave[x] = IF x = t THEN 1 ELSE ghost.gave[x]
    BY <1>4, <2>1 DEF Dispatch, WireOnly, Base, GhostTyped
  <2>4. \A q \in Op : pc'[q] = IF q = o THEN "sent" ELSE pc[q]
    BY <1>4 DEF Dispatch, Base, WorkTyped
  <2>5. HandleInv'
    <3>1. t \in Nat /\ ids.target \in Nat
      BY <2>1, Bounds DEF Target, Base, ServiceTyped
    <3>2. \A x \in Target :
            /\ bound'[x] # None => x < ids'.target
            /\ bound'[x] # None \/ ids'.target <= x => ghost'.gave[x] = 0
            /\ ghost'.gave[x] <= 1
            /\ ghost'.gave[x] = 0 => ghost'.wrote[x] = "none" /\ x \notin flight'
      BY <2>2, <2>3, <3>1 DEF HandleInv
    <3>3. \A q \in Op : q # o =>
            /\ job[q].state = "pending" \/ pc[q] \in {"effect", "sending"} =>
                 job[q].state # "none" /\ job[q].target \in Target /\ job[q].target # t
      BY <2>2 DEF Base, Captured
    <3>4. \A q \in Op :
            job'[q].state = "pending" \/ pc'[q] \in {"effect", "sending"} =>
              ghost'.gave[job'[q].target] = 0
      <4> SUFFICES ASSUME NEW q \in Op, job'[q].state = "pending" \/ pc'[q] \in {"effect", "sending"}
                   PROVE  ghost'.gave[job'[q].target] = 0
        OBVIOUS
      <4>1. job'[q] = job[q] /\ q # o /\ pc'[q] = pc[q]
        BY <2>1, <2>3, <2>4
      <4>2. ghost.gave[job[q].target] = 0
        BY <4>1 DEF HandleInv
      <4> QED
        BY <2>3, <3>3, <4>1, <4>2
    <3> QED
      BY <2>1, <2>3, <2>4, <3>2, <3>4 DEF HandleInv
  <2>6. OutcomeInv'
    <3> SUFFICES ASSUME NEW q \in Op
                 PROVE  /\ Says(job[q].state, job[q].target)'
                        /\ pc'[q] = "settled" => Says(result[q], job[q].target)'
      BY DEF OutcomeInv
    <3>1. q # o /\ job[q].state # "none" => job[q].target # t
      BY <2>2
    <3>2. pc[q] = "settled" => job[q].state # "none"
      BY DEF Base, Captured
    <3> QED
      BY <2>1, <2>3, <2>4, <3>1, <3>2 DEF OutcomeInv, Says
  <2> QED
    BY <2>5, <2>6
<1>5. CASE Complete(o)
  <2>1. PICK s \in {result[o], "uncertain"} : job' = [job EXCEPT ![o].state = s]
    BY <1>5 DEF Complete
  <2>2. /\ pc[o] = "settled" /\ UNCHANGED <<bound, flight, ids>>
        /\ ghost'.gave = ghost.gave /\ ghost'.wrote = ghost.wrote
        /\ result[o] \in Finished
    BY <1>5 DEF Complete, Base, GhostTyped, Captured
  <2>3. \A q \in Op : /\ q # o => pc'[q] = pc[q] /\ job'[q] = job[q] /\ result'[q] = result[q]
                      /\ job'[q].target = job[q].target
    BY <1>5, <2>1 DEF Complete, Base, TableTyped, WorkTyped, Job
  <2>4. pc'[o] = "idle" /\ job'[o].state = s
    BY <1>5, <2>1 DEF Complete, Base, TableTyped, WorkTyped, Job
  <2>5. job[o].state # "none" /\ s # "pending"
    BY <2>1, <2>2 DEF Base, Captured
  <2>6. \A q \in Op : /\ job'[q].state # "none" <=> job[q].state # "none"
                      /\ job'[q].state = "pending" => job[q].state = "pending"
                      /\ pc'[q] \in {"effect", "sending", "sent", "settled"} => q # o
    BY <2>1, <2>2, <2>3, <2>4, <2>5
  <2>7. HandleInv'
    BY <2>2, <2>3, <2>6 DEF HandleInv
  <2>8. Says(s, job[o].target)
    BY <2>1, <2>2 DEF OutcomeInv, Says
  <2>9. OutcomeInv'
    <3> SUFFICES ASSUME NEW q \in Op
                 PROVE  /\ Says(job[q].state, job[q].target)'
                        /\ pc'[q] = "settled" => Says(result[q], job[q].target)'
      BY DEF OutcomeInv
    <3>1. CASE q = o
      BY <2>2, <2>3, <2>4, <2>8, <3>1 DEF Says
    <3>2. CASE q # o
      BY <2>2, <2>3, <3>2 DEF OutcomeInv, Says
    <3> QED
      BY <3>1, <3>2
  <2> QED
    BY <2>7, <2>9
<1> QED
  BY <1>1, <1>2, <1>3, <1>4, <1>5

LEMMA TableHandles ==
  ASSUME Base, HandleInv, OutcomeInv, Forget \/ BindTargets \/ StopAll
  PROVE  HandleInv' /\ OutcomeInv'
<1>1. CASE Forget
  <2>1. \A o \in Op : job'[o] = job[o] \/ (job'[o] = NoJob /\ job[o].state \in Finished)
    <3>1. CASE job' = job
      BY <3>1
    <3>2. CASE \E o \in Jobs(Finished) : job' = [job EXCEPT ![o] = NoJob]
      BY <3>2 DEF Jobs, Base, TableTyped
    <3> QED
      BY <1>1, <3>1, <3>2 DEF Forget
  <2>2. \A t \in Target : bound'[t] \in {bound[t], None}
    BY <1>1 DEF Forget, Base, TableTyped
  <2>3. UNCHANGED <<pc, result, flight, ids, ghost>>
    BY <1>1 DEF Forget
  <2>4. NoJob.state = "none"
    BY DEF NoJob
  <2>5. \A o \in Op : pc[o] # "idle" => job'[o] = job[o] /\ job[o].state # "none"
    BY <2>1 DEF Base, Captured
  <2>6. \A o \in Op : job[o].state # "none" => job[o].target \in Target
    BY DEF Base, Captured
  <2>7. HandleInv'
    BY <2>1, <2>2, <2>3, <2>4, <2>5, <2>6 DEF HandleInv
  <2>8. OutcomeInv'
    BY <2>1, <2>3, <2>4, <2>5 DEF OutcomeInv, Says
  <2> QED
    BY <2>7, <2>8
<1>2. CASE BindTargets
  <2>1. /\ UNCHANGED <<job, pc, result, flight, ghost>> /\ ids.target \in Target
        /\ ids'.target = ids.target + 1
    BY <1>2, Bounds DEF BindTargets, Target, Base, ServiceTyped
  <2>2. \A t \in Target : t # ids.target => bound'[t] \in {bound[t], None}
    BY <1>2 DEF BindTargets, Rebound, Unbound
  <2>3. \A t \in Target : t \in Nat
    BY DEF Target
  <2>4. \A o \in Op : job[o].state # "none" => job[o].target \in Target /\ job[o].target # ids.target
    BY <2>1, <2>3 DEF HandleInv, Base, Captured
  <2>5. HandleInv'
    BY <2>1, <2>2, <2>3, <2>4 DEF HandleInv
  <2> QED
    BY <2>1, <2>5 DEF OutcomeInv, Says
<1>3. CASE StopAll
  <2>1. UNCHANGED HandleVars /\ \A t \in Target : bound'[t] \in {bound[t], None}
    BY <1>3 DEF StopAll, HandleVars
  <2> QED
    BY <1>3, <2>1, HandleShrinks DEF StopAll, OutcomeInv, Says
<1> QED
  BY <1>1, <1>2, <1>3

LEMMA ServiceHandles ==
  ASSUME Base, HandleInv, OutcomeInv, Crash \/ Restart \/ \E t \in Target : Acts(t)
  PROVE  HandleInv' /\ OutcomeInv'
<1>1. CASE Crash
  <2>1. /\ \A o \in Op : job'[o].state = "none" /\ pc'[o] = "idle"
        /\ \A t \in Target : bound'[t] = None
        /\ UNCHANGED <<flight, ids>> /\ ghost'.gave = ghost.gave /\ ghost'.wrote = ghost.wrote
    BY <1>1 DEF Crash, NoJob, Base, GhostTyped
  <2> QED
    BY <2>1 DEF HandleInv, OutcomeInv, Says
<1>2. CASE Restart
  BY <1>2 DEF Restart, HandleInv, OutcomeInv, Says
<1>3. ASSUME NEW t \in Target, Acts(t) PROVE HandleInv' /\ OutcomeInv'
  <2>1. /\ UNCHANGED <<job, bound, pc, result, ids>> /\ t \in flight /\ flight' = flight \ {t}
        /\ ghost'.gave = ghost.gave
        /\ \A x \in Target : x # t => ghost'.wrote[x] = ghost.wrote[x]
    BY <1>3 DEF Acts, Base, GhostTyped
  <2>2. HandleInv'
    BY <2>1 DEF HandleInv
  <2>3. OutcomeInv'
    <3>1. \A o \in Op : pc[o] = "settled" \/ job[o].state \in Finished => job[o].target \in Target
      BY DEF Base, Captured
    <3>2. \A s, x : x \in Target /\ Says(s, x) => Says(s, x)'
      BY <2>1 DEF Says
    <3>3. \A s, x : s \notin Finished => Says(s, x)'
      BY DEF Says
    <3> QED
      BY <2>1, <3>1, <3>2, <3>3 DEF OutcomeInv
  <2> QED
    BY <2>2, <2>3
<1> QED
  BY <1>1, <1>2, <1>3

LEMMA HandleInit == Init => HandleInv /\ OutcomeInv
  BY DEF Init, HandleInv, OutcomeInv, Says, GhostInit, NoJob

LEMMA HandleStep ==
  Base /\ HandleInv /\ OutcomeInv /\ [Next]_vars => HandleInv' /\ OutcomeInv'
<1> SUFFICES ASSUME Base, HandleInv, OutcomeInv, [Next]_vars PROVE HandleInv' /\ OutcomeInv'
  OBVIOUS
<1>1. CASE UNCHANGED vars
  BY <1>1 DEF vars, HandleInv, OutcomeInv, Says
<1>2. CASE Commit
  <2>1. UNCHANGED <<job, pc, result, flight>> /\ ghost'.wrote = ghost.wrote
    BY <1>2, CommitFrame, CommitHandles DEF HandleVars
  <2> QED
    BY <1>2, <2>1, CommitHandles, HandleShrinks, OutcomeStays
<1> QED
  BY <1>1, <1>2, NextCases, QuietHandles, TaskHandles, AdmitHandles, FillHandles,
     TableHandles, ServiceHandles

\* A discovered handle is spent by the fill it admits: whatever rediscovery, replays,
\* the other kind of fill and restarts do, material goes on the wire for it at most once.
THEOREM HandleUsedOnceHolds == Spec => []HandleUsedOnce
<1>1. HandleInv => HandleUsedOnce
  BY DEF HandleInv, HandleUsedOnce
<1> QED
  BY <1>1, BaseInit, BaseStep, HandleInit, HandleStep, PTL DEF Spec

\* What fill_status reports of a finished fill is true, now and later: "unfilled"
\* fills wrote nothing and have nothing under way, "filled" and "partial" had a writer.
THEOREM HonestFillHolds == Spec => []HonestFill
<1>1. OutcomeInv => HonestFill
  BY DEF OutcomeInv, Says, HonestFill
<1> QED
  BY <1>1, BaseInit, BaseStep, HandleInit, HandleStep, PTL DEF Spec

-----------------------------------------------------------------------------
(* The registry, in memory and on disk.  What the next incarnation accepts   *)
(* is kept by every transaction; identifiers of consents are never reused;   *)
(* and while no write has failed both agree on peers and profiles.           *)

PermsOk(r) ==
  /\ IsFiniteSet(r.perms) /\ Cardinality(r.perms) <= MaxPermissions
  /\ \A p \in r.perms : p.owner \in r.peers
  /\ \A p, q \in r.perms : p.owner = q.owner /\ p.cred = q.cred => p = q
NativesOk(r) ==
  /\ IsFiniteSet(r.natives) /\ Cardinality(r.natives) <= MaxNative
  /\ \A n \in r.natives : n.owner \in r.peers
  /\ \A n, m \in r.natives : n.owner = m.owner /\ n.profile = m.profile => n = m
ConsentsOk(r) ==
  /\ IsFiniteSet(r.consents) /\ Cardinality(r.consents) <= MaxGrants
  /\ \A g \in r.consents : g.owner \in r.peers /\ ValidScope(r, g.owner, g.scope)
  /\ \A g, f \in r.consents :
       g.id = f.id \/ (g.owner = f.owner /\ g.scope = f.scope) => g = f
Coherent(r) == PermsOk(r) /\ NativesOk(r) /\ ConsentsOk(r)

FreshIds(r) == \A g \in r.consents : g.id < ids.grant /\ g.id \notin ghost.revoked

RegistryInv ==
  /\ Coherent(reg) /\ Coherent(disk)
  /\ FreshIds(reg) /\ FreshIds(disk)
  /\ \A i \in ghost.revoked : i < ids.grant

LEMMA CoherentReopens ==
  ASSUME NEW r, Coherent(r) PROVE ValidRegistry(r)
  BY DEF Coherent, PermsOk, NativesOk, ConsentsOk, ValidRegistry

LEMMA EmptyCounts == IsFiniteSet({}) /\ Cardinality({}) = 0
  BY FS_EmptySet

LEMMA FewerCounts ==
  ASSUME NEW S, NEW T \in SUBSET S, IsFiniteSet(S), NEW N \in Nat, Cardinality(S) <= N
  PROVE  IsFiniteSet(T) /\ Cardinality(T) <= N
<1>1. IsFiniteSet(T) /\ Cardinality(T) <= Cardinality(S)
  BY FS_Subset
<1>2. Cardinality(T) \in Nat /\ Cardinality(S) \in Nat
  BY <1>1, FS_CardinalityType
<1> QED
  BY <1>1, <1>2

LEMMA OneMoreCounts ==
  ASSUME NEW S, IsFiniteSet(S), NEW x, NEW N \in Nat, Cardinality(S) < N
  PROVE  IsFiniteSet(S \cup {x}) /\ Cardinality(S \cup {x}) <= N
<1>1. Cardinality(S) \in Nat
  BY FS_CardinalityType
<1>2. IsFiniteSet(S \cup {x}) /\ (Cardinality(S \cup {x}) = Cardinality(S)
                                  \/ Cardinality(S \cup {x}) = Cardinality(S) + 1)
  BY FS_AddElement
<1> QED
  BY <1>1, <1>2

\* Replacing some members by one does not grow a set.
LEMMA ReplacedCounts ==
  ASSUME NEW S, IsFiniteSet(S), NEW K \in SUBSET S, K # {}, NEW x,
         NEW N \in Nat, Cardinality(S) <= N
  PROVE  IsFiniteSet((S \ K) \cup {x}) /\ Cardinality((S \ K) \cup {x}) <= N
<1>1. PICK k \in K : TRUE
  OBVIOUS
<1>2. IsFiniteSet(S \ {k}) /\ Cardinality(S \ {k}) = Cardinality(S) - 1
  BY <1>1, FS_RemoveElement
<1>3. IsFiniteSet(S \ K) /\ Cardinality(S \ K) <= Cardinality(S \ {k})
  BY <1>1, <1>2, FS_Subset
<1>4. Cardinality(S) \in Nat /\ Cardinality(S \ K) \in Nat
  BY <1>3, FS_CardinalityType
<1>5. Cardinality(S \ K) < N
  BY <1>2, <1>3, <1>4
<1> QED
  BY <1>3, <1>5, OneMoreCounts

LEMMA BlankCoherent == Coherent(Blank)
  BY EmptyCounts, Bounds DEF Blank, Coherent, PermsOk, NativesOk, ConsentsOk

\* Consents may be dropped freely.
LEMMA DropsConsents ==
  ASSUME NEW r, Coherent(r), NEW C \in SUBSET r.consents, NEW q,
         q.peers = r.peers, q.perms = r.perms, q.natives = r.natives, q.consents = C
  PROVE  Coherent(q)
<1>1. PermsOk(q) /\ NativesOk(q)
  BY DEF Coherent, PermsOk, NativesOk
<1>2. IsFiniteSet(C) /\ Cardinality(C) <= MaxGrants
  BY FewerCounts, Bounds DEF Coherent, ConsentsOk
<1>3. ConsentsOk(q)
  BY <1>2 DEF Coherent, ConsentsOk, ValidScope, Approved, Allowed
<1> QED
  BY <1>1, <1>3 DEF Coherent

LEMMA SessionGoneCoherent ==
  ASSUME NEW r \in Registry, Coherent(r), NEW hs
  PROVE  /\ Coherent(SessionGone(r, hs)) /\ SessionGone(r, hs).consents \subseteq r.consents
         /\ SessionGone(r, hs).peers = r.peers /\ SessionGone(r, hs).natives = r.natives
<1>1. LET q == SessionGone(r, hs)
      IN  /\ q.peers = r.peers /\ q.perms = r.perms /\ q.natives = r.natives
          /\ q.consents \in SUBSET r.consents
  BY DEF SessionGone, Registry
<1> QED
  BY <1>1, DropsConsents

LEMMA WithoutCoherent ==
  ASSUME Base, Coherent(reg), NEW c, NEW ss
  PROVE  /\ Coherent(Without(c, ss)) /\ Without(c, ss).consents \subseteq reg.consents
         /\ Without(c, ss).peers = reg.peers /\ Without(c, ss).natives = reg.natives
<1>1. LET q == Without(c, ss)
      IN  /\ q.peers = reg.peers /\ q.perms = reg.perms /\ q.natives = reg.natives
          /\ q.consents \in SUBSET reg.consents
  BY DEF Without, Base, RegistryTyped, Registry
<1> QED
  BY <1>1, DropsConsents

LEMMA RefusedFirstCoherent ==
  ASSUME Base, Coherent(reg), NEW c \in reg.peers, NEW p \in Profile,
         RefusedFirst(c, p) # reg => Cardinality(reg.natives) < MaxNative
  PROVE  /\ Coherent(RefusedFirst(c, p)) /\ RefusedFirst(c, p).consents = reg.consents
         /\ RefusedFirst(c, p).peers = reg.peers
<1> DEFINE r == RefusedFirst(c, p)
           n == [owner |-> c, profile |-> p, allowed |-> FALSE]
<1>1. CASE Known(reg, c, p) # {}
  BY <1>1 DEF RefusedFirst
<1>2. CASE Known(reg, c, p) = {}
  <2>1. /\ r.peers = reg.peers /\ r.perms = reg.perms /\ r.consents = reg.consents
        /\ r.natives = reg.natives \cup {n}
    BY <1>2 DEF RefusedFirst, Base, RegistryTyped, Registry
  <2>2. n \notin reg.natives /\ \A m \in reg.natives : ~(m.owner = c /\ m.profile = p)
    BY <1>2 DEF Known
  <2>3. IsFiniteSet(r.natives) /\ Cardinality(r.natives) <= MaxNative
    <3>1. r # reg
      BY <2>1, <2>2
    <3> QED
      <4>1. IsFiniteSet(reg.natives) /\ Cardinality(reg.natives) < MaxNative
        BY <3>1 DEF Coherent, NativesOk
      <4> HIDE DEF r, n
      <4>2. MaxNative \in Nat
        BY Bounds
      <4>3. /\ IsFiniteSet(reg.natives \cup {n})
            /\ Cardinality(reg.natives \cup {n}) <= MaxNative
        BY <4>1, <4>2, OneMoreCounts
      <4> QED
        BY <2>1, <4>3
  <2>4. n.owner = c /\ n.profile = p
    OBVIOUS
  <2> HIDE DEF r, n
  <2>5. NativesOk(r)
    BY <2>1, <2>2, <2>3, <2>4 DEF Coherent, NativesOk
  <2>6. PermsOk(r)
    BY <2>1 DEF Coherent, PermsOk
  <2>7. ConsentsOk(r)
    BY <2>1 DEF Coherent, ConsentsOk, ValidScope, Approved, Allowed
  <2> QED
    BY <2>1, <2>5, <2>6, <2>7 DEF Coherent, r
<1> QED
  BY <1>1, <1>2

LEMMA WithApprovalCoherent ==
  ASSUME Base, Coherent(reg), NEW c \in reg.peers, NEW p \in Profile, Known(reg, c, p) # {}
  PROVE  /\ Coherent(WithApproval(c, p)) /\ WithApproval(c, p).consents = reg.consents
         /\ WithApproval(c, p).peers = reg.peers
<1> DEFINE r == WithApproval(c, p)
           n == [owner |-> c, profile |-> p, allowed |-> TRUE]
           K == Known(reg, c, p)
<1>1. /\ r.peers = reg.peers /\ r.perms = reg.perms /\ r.consents = reg.consents
      /\ r.natives = (reg.natives \ K) \cup {n}
  BY DEF WithApproval, Base, RegistryTyped, Registry
<1>2. K \in SUBSET reg.natives /\ \A m \in reg.natives : m.owner = c /\ m.profile = p => m \in K
  BY DEF Known
<1>3. n.owner = c /\ n.profile = p /\ n.allowed = TRUE
  OBVIOUS
<1>4. IsFiniteSet(r.natives) /\ Cardinality(r.natives) <= MaxNative
  <2>1. IsFiniteSet(reg.natives) /\ Cardinality(reg.natives) <= MaxNative /\ K # {}
    BY DEF Coherent, NativesOk
  <2> HIDE DEF r, n, K
  <2>2. MaxNative \in Nat
    BY Bounds
  <2>3. /\ IsFiniteSet((reg.natives \ K) \cup {n})
        /\ Cardinality((reg.natives \ K) \cup {n}) <= MaxNative
    BY <1>2, <2>1, <2>2, ReplacedCounts
  <2> QED
    BY <1>1, <2>3
<1>5. \A d : \A q \in Profile : Approved(reg, d, q) => Approved(r, d, q)
  <2> SUFFICES ASSUME NEW q \in Profile, NEW d, Approved(reg, d, q) PROVE Approved(r, d, q)
    OBVIOUS
  <2>1. CASE d = c /\ q = p
    BY <1>1, <2>1 DEF Approved
  <2>2. CASE ~(d = c /\ q = p)
    BY <1>1, <2>2 DEF Approved, Known
  <2> QED
    BY <2>1, <2>2
<1> HIDE DEF r, n, K
<1>6. NativesOk(r)
  BY <1>1, <1>2, <1>3, <1>4 DEF Coherent, NativesOk
<1>7. PermsOk(r)
  BY <1>1 DEF Coherent, PermsOk
<1>8. ConsentsOk(r)
  BY <1>1, <1>5 DEF Coherent, ConsentsOk, ValidScope, Allowed
<1> QED
  BY <1>1, <1>6, <1>7, <1>8 DEF Coherent, r

LEMMA ConfiguredCoherent ==
  ASSUME Base, Coherent(reg), NEW c \in reg.peers, NEW k \in Cred, NEW origins \in SUBSET Origin,
         Cardinality(Configured(c, k, origins).perms) <= MaxPermissions
  PROVE  /\ Coherent(Configured(c, k, origins))
         /\ Configured(c, k, origins).consents \subseteq reg.consents
         /\ Configured(c, k, origins).peers = reg.peers
         /\ Configured(c, k, origins).natives = reg.natives
<1> DEFINE r == Configured(c, k, origins)
           n == [owner |-> c, cred |-> k, origins |-> origins]
           rest == {p \in reg.perms : p.owner # c \/ p.cred # k}
<1>1. /\ r.peers = reg.peers /\ r.natives = reg.natives
      /\ r.perms \in {rest, rest \cup {n}}
      /\ rest \subseteq r.perms
      /\ r.consents = {g \in reg.consents : g.owner # c \/ k \notin g.scope.creds}
  BY DEF Configured, OnlyConfigured, Base, RegistryTyped, Registry
<1>2. n.owner = c /\ n.cred = k
  OBVIOUS
<1>3. /\ \A p \in rest : p \in reg.perms /\ ~(p.owner = c /\ p.cred = k)
      /\ \A p \in reg.perms : p.owner # c \/ p.cred # k => p \in rest
  OBVIOUS
<1>4. IsFiniteSet(r.perms)
  <2>1. IsFiniteSet(rest)
    BY FS_Subset DEF Coherent, PermsOk
  <2>2. IsFiniteSet(rest \cup {n})
    BY <2>1, FS_AddElement
  <2> QED
    BY <1>1, <2>1, <2>2
<1>5. \A g \in r.consents : g \in reg.consents /\ (g.owner # c \/ k \notin g.scope.creds)
  BY <1>1
<1>6. IsFiniteSet(r.consents) /\ Cardinality(r.consents) <= MaxGrants
  <2>1. r.consents \in SUBSET reg.consents
    BY <1>1
  <2> QED
    BY <2>1, FewerCounts, Bounds DEF Coherent, ConsentsOk
<1>7. Cardinality(r.perms) <= MaxPermissions
  OBVIOUS
<1> HIDE DEF r, n, rest
<1>8. PermsOk(r)
  <2>1. \A p \in r.perms : p.owner \in r.peers
    BY <1>1, <1>2, <1>3 DEF Coherent, PermsOk
  <2>2. \A p, q \in r.perms : p.owner = q.owner /\ p.cred = q.cred => p = q
    BY <1>1, <1>2, <1>3 DEF Coherent, PermsOk
  <2> QED
    BY <1>4, <1>7, <2>1, <2>2 DEF PermsOk
<1>9. NativesOk(r)
  BY <1>1 DEF Coherent, NativesOk
<1>10. ConsentsOk(r)
  <2>1. ASSUME NEW g \in r.consents PROVE g.owner \in r.peers /\ ValidScope(r, g.owner, g.scope)
    <3>1. g.owner \in reg.peers /\ ValidScope(reg, g.owner, g.scope)
      BY <1>5 DEF Coherent, ConsentsOk
    <3>2. Allowed(r, g.owner, g.scope.place, g.scope.creds)
      BY <1>1, <1>3, <1>5, <3>1 DEF ValidScope, Allowed
    <3> QED
      BY <1>1, <3>1, <3>2 DEF ValidScope, Approved
  <2> QED
    BY <1>5, <1>6, <2>1 DEF Coherent, ConsentsOk
<1> QED
  BY <1>1, <1>5, <1>8, <1>9, <1>10 DEF Coherent, r

LEMMA UnpairedCoherent ==
  ASSUME Base, Coherent(reg), NEW t
  PROVE  /\ Coherent(Unpaired(t)) /\ Unpaired(t).consents \subseteq reg.consents
         /\ Unpaired(t).peers = reg.peers \ {t}
         /\ Unpaired(t).natives = {n \in reg.natives : n.owner # t}
<1> DEFINE r == Unpaired(t)
<1>1. /\ r.peers = reg.peers \ {t} /\ r.perms = {p \in reg.perms : p.owner # t}
      /\ r.natives = {n \in reg.natives : n.owner # t}
      /\ r.consents = {g \in reg.consents : g.owner # t}
  BY DEF Unpaired
<1>2. r.perms \in SUBSET reg.perms /\ r.natives \in SUBSET reg.natives
      /\ r.consents \in SUBSET reg.consents
  BY <1>1
<1> HIDE DEF r
<1>3. IsFiniteSet(r.perms) /\ Cardinality(r.perms) <= MaxPermissions
  BY <1>2, FewerCounts, Bounds DEF Coherent, PermsOk
<1>4. IsFiniteSet(r.natives) /\ Cardinality(r.natives) <= MaxNative
  BY <1>2, FewerCounts, Bounds DEF Coherent, NativesOk
<1>5. IsFiniteSet(r.consents) /\ Cardinality(r.consents) <= MaxGrants
  BY <1>2, FewerCounts, Bounds DEF Coherent, ConsentsOk
<1>6. PermsOk(r)
  BY <1>1, <1>3 DEF Coherent, PermsOk
<1>7. NativesOk(r)
  BY <1>1, <1>4 DEF Coherent, NativesOk
<1>8. ConsentsOk(r)
  <2>1. ASSUME NEW g \in r.consents PROVE g.owner \in r.peers /\ ValidScope(r, g.owner, g.scope)
    <3>1. g \in reg.consents /\ g.owner # t
      BY <1>1
    <3>2. g.owner \in reg.peers /\ ValidScope(reg, g.owner, g.scope)
      BY <3>1 DEF Coherent, ConsentsOk
    <3>3. Allowed(r, g.owner, g.scope.place, g.scope.creds)
      BY <1>1, <3>1, <3>2 DEF ValidScope, Allowed
    <3>4. \A w : Approved(reg, g.owner, w) => Approved(r, g.owner, w)
      BY <1>1, <3>1 DEF Approved
    <3> QED
      BY <1>1, <3>1, <3>2, <3>3, <3>4 DEF ValidScope
  <2> QED
    BY <1>1, <1>5, <2>1 DEF Coherent, ConsentsOk
<1> QED
  BY <1>1, <1>2, <1>6, <1>7, <1>8 DEF Coherent, r

\* What disconnecting makes of a profile on record.
Refuses(c, h, n) == [n EXCEPT !.allowed = n.allowed /\ ~(n.owner = c /\ n.profile = inst[h].profile)]

LEMMA RefusesNative ==
  ASSUME NEW c, NEW h, NEW n \in Native
  PROVE  /\ Refuses(c, h, n).owner = n.owner /\ Refuses(c, h, n).profile = n.profile
         /\ Refuses(c, h, n).allowed =
              (n.allowed /\ ~(n.owner = c /\ n.profile = inst[h].profile))
         /\ ~(n.owner = c /\ n.profile = inst[h].profile) => Refuses(c, h, n) = n
<1>1. n.allowed \in BOOLEAN /\ n = [owner |-> n.owner, profile |-> n.profile, allowed |-> n.allowed]
  BY DEF Native
<1>2. PICK b \in BOOLEAN : b = (n.allowed /\ ~(n.owner = c /\ n.profile = inst[h].profile))
  BY <1>1
<1>3. Refuses(c, h, n) = [n EXCEPT !.allowed = b]
  BY <1>2 DEF Refuses
<1>4. ~(n.owner = c /\ n.profile = inst[h].profile) => b = n.allowed
  BY <1>1, <1>2
<1> QED
  BY <1>1, <1>2, <1>3, <1>4 DEF Native

LEMMA DisconnectedCoherent ==
  ASSUME Base, Coherent(reg), NEW c, NEW h
  PROVE  /\ Coherent(Disconnected(c, h)) /\ Disconnected(c, h).consents \subseteq reg.consents
         /\ Disconnected(c, h).peers = reg.peers /\ Disconnected(c, h).perms = reg.perms
         /\ Disconnected(c, h).natives = {Refuses(c, h, n) : n \in reg.natives}
         /\ \A g \in reg.consents :
              g.owner # c \/ g.scope.who \notin Names(h) => g \in Disconnected(c, h).consents
<1> DEFINE r == Disconnected(c, h)
           f == [n \in reg.natives |-> Refuses(c, h, n)]
<1>1. /\ r.peers = reg.peers /\ r.perms = reg.perms
      /\ r.natives = {Refuses(c, h, n) : n \in reg.natives}
      /\ r.consents = {g \in reg.consents : g.owner # c \/ g.scope.who \notin Names(h)}
  BY DEF Disconnected, StaysApproved, Refuses, Base, RegistryTyped, Registry
<1>2. reg.natives \subseteq Native
  BY DEF Base, RegistryTyped, Registry
<1>3. IsFiniteSet(r.natives) /\ Cardinality(r.natives) <= MaxNative
  <2>1. f \in Surjection(reg.natives, r.natives)
    BY <1>1 DEF Surjection
  <2>2. IsFiniteSet(reg.natives) /\ Cardinality(reg.natives) <= MaxNative
    BY DEF Coherent, NativesOk
  <2> HIDE DEF f, r
  <2>3. IsFiniteSet(r.natives) /\ Cardinality(r.natives) <= Cardinality(reg.natives)
    BY <2>1, <2>2, FS_Surjection
  <2>4. Cardinality(r.natives) \in Nat /\ Cardinality(reg.natives) \in Nat
    BY <2>2, <2>3, FS_CardinalityType
  <2> QED
    BY <2>2, <2>3, <2>4, Bounds
<1>4. r.consents \in SUBSET reg.consents
  BY <1>1
<1> HIDE DEF r
<1>5. PermsOk(r)
  BY <1>1 DEF Coherent, PermsOk
<1>6. NativesOk(r)
  <2>1. \A n \in r.natives : \E m \in reg.natives :
          n = Refuses(c, h, m) /\ n.owner = m.owner /\ n.profile = m.profile
    BY <1>1, <1>2, RefusesNative
  <2> QED
    BY <1>1, <1>3, <2>1 DEF Coherent, NativesOk
<1>7. ConsentsOk(r)
  <2>1. IsFiniteSet(r.consents) /\ Cardinality(r.consents) <= MaxGrants
    BY <1>4, FewerCounts, Bounds DEF Coherent, ConsentsOk
  <2>2. ASSUME NEW g \in r.consents PROVE g.owner \in r.peers /\ ValidScope(r, g.owner, g.scope)
    <3>1. g \in reg.consents /\ (g.owner # c \/ g.scope.who \notin Names(h))
      BY <1>1
    <3>2. g.owner \in reg.peers /\ ValidScope(reg, g.owner, g.scope)
      BY <3>1 DEF Coherent, ConsentsOk
    <3>3. ASSUME g.scope.who \in Profile PROVE Approved(r, g.owner, g.scope.who)
      <4> DEFINE n == [owner |-> g.owner, profile |-> g.scope.who, allowed |-> TRUE]
      <4>1. n \in reg.natives
        BY <3>2, <3>3 DEF ValidScope, Approved
      <4>2. ~(g.owner = c /\ g.scope.who = inst[h].profile)
        BY <3>1, <3>3, BrowserAssumption DEF Names
      <4>3. n.owner = g.owner /\ n.profile = g.scope.who
        OBVIOUS
      <4>4. n \in Native
        BY <1>2, <4>1
      <4> HIDE DEF n
      <4>5. Refuses(c, h, n) = n
        BY <4>2, <4>3, <4>4, RefusesNative
      <4>6. n \in r.natives
        BY <1>1, <4>1, <4>5
      <4> QED
        BY <4>6 DEF Approved, n
    <3> QED
      BY <1>1, <3>2, <3>3 DEF ValidScope, Allowed
  <2> QED
    BY <1>1, <2>1, <2>2 DEF Coherent, ConsentsOk
<1> QED
  BY <1>1, <1>4, <1>5, <1>6, <1>7 DEF Coherent, r

\* The consent a lasting decision creates.
Remembered(o) ==
  [reg EXCEPT !.consents = @ \cup
     {[id |-> ids.grant, owner |-> ticket[o].owner, scope |-> ticket[o].scope]}]

LEMMA RememberedCoherent ==
  ASSUME Base, RegistryInv, NEW o \in Op, Authorizable(o), pc[o] = "always"
  PROVE  /\ Coherent(Remembered(o)) /\ Remembered(o).peers = reg.peers
         /\ Remembered(o).perms = reg.perms /\ Remembered(o).natives = reg.natives
         /\ reg.consents \subseteq Remembered(o).consents
         /\ \A g \in Remembered(o).consents : g \in reg.consents \/ g.id = ids.grant
<1> DEFINE r == Remembered(o)
           t == ticket[o]
           n == [id |-> ids.grant, owner |-> t.owner, scope |-> t.scope]
<1>1. /\ r.peers = reg.peers /\ r.perms = reg.perms /\ r.natives = reg.natives
      /\ r.consents = reg.consents \cup {n}
  BY DEF Remembered, Base, RegistryTyped, Registry
<1>2. n.id = ids.grant /\ n.owner = t.owner /\ n.scope = t.scope
  OBVIOUS
<1>3. /\ t.owner \in reg.peers /\ Cardinality(reg.consents) < MaxGrants
      /\ Covering(t.owner, t.scope) = {} /\ ValidScope(reg, t.owner, t.scope)
  BY DEF Authorizable, CanRemember, Paired
<1>4. \A g \in reg.consents : g.id # ids.grant /\ ~(g.owner = t.owner /\ g.scope = t.scope)
  <2>1. \A g \in reg.consents : g.id < ids.grant /\ g.id \in Nat
    BY DEF RegistryInv, FreshIds, Base, RegistryTyped, Registry, Grant
  <2>2. ids.grant \in Nat
    BY Bounds DEF Base, ServiceTyped
  <2> QED
    BY <1>3, <2>1, <2>2 DEF Covering
<1>5. IsFiniteSet(r.consents) /\ Cardinality(r.consents) <= MaxGrants
  <2>1. IsFiniteSet(reg.consents) /\ MaxGrants \in Nat
    BY Bounds DEF RegistryInv, Coherent, ConsentsOk
  <2>2. IsFiniteSet(reg.consents \cup {n}) /\ Cardinality(reg.consents \cup {n}) <= MaxGrants
    BY <1>3, <2>1, OneMoreCounts
  <2> QED
    BY <1>1, <2>2
<1> HIDE DEF r, n
<1>6. PermsOk(r) /\ NativesOk(r)
  BY <1>1 DEF RegistryInv, Coherent, PermsOk, NativesOk
<1>7. ConsentsOk(r)
  <2>1. \A d, s : ValidScope(reg, d, s) => ValidScope(r, d, s)
    BY <1>1 DEF ValidScope, Approved, Allowed
  <2> QED
    BY <1>1, <1>2, <1>3, <1>4, <1>5, <2>1 DEF RegistryInv, Coherent, ConsentsOk
<1> QED
  BY <1>1, <1>2, <1>6, <1>7 DEF Coherent, r

LEMMA RegistryStays ==
  ASSUME RegistryInv, UNCHANGED <<reg, disk, ids.grant, ghost.revoked>>
  PROVE  RegistryInv'
<1>1. reg' = reg /\ disk' = disk /\ ids'.grant = ids.grant /\ ghost'.revoked = ghost.revoked
  OBVIOUS
<1> QED
  BY <1>1 DEF RegistryInv, Coherent, PermsOk, NativesOk, ConsentsOk, FreshIds, ValidScope,
              Approved, Allowed

\* A write that drops consents, and acknowledges it when it is durable.
LEMMA RegistryNarrows ==
  ASSUME Base, RegistryInv, NEW r, Coherent(r), r.consents \subseteq reg.consents, Persist(r),
         ids'.grant = ids.grant,
         ghost'.revoked \in {ghost.revoked, Acknowledged(r)}
  PROVE  RegistryInv'
<1>1. reg' = r /\ disk' \in {disk, r} /\ (~faulted' => disk' = r)
  BY DEF Persist
<1>2. Coherent(reg)' /\ Coherent(disk)'
  BY <1>1 DEF RegistryInv, Coherent, PermsOk, NativesOk, ConsentsOk, ValidScope, Approved, Allowed
<1>3. \A g \in r.consents : g.id < ids.grant /\ g.id \notin ghost.revoked
  BY DEF RegistryInv, FreshIds
<1>4. CASE ghost'.revoked = ghost.revoked
  BY <1>1, <1>2, <1>3, <1>4 DEF RegistryInv, FreshIds
<1>5. CASE ghost'.revoked = ghost.revoked \cup {g.id : g \in reg.consents \ r.consents} /\ ~faulted'
  <2>1. disk' = r
    BY <1>1, <1>5
  <2>2. \A f \in reg.consents, g \in r.consents : f \notin r.consents => f.id # g.id
    BY DEF RegistryInv, Coherent, ConsentsOk
  <2>3. \A g \in r.consents : g.id \notin ghost'.revoked
    BY <1>3, <1>5, <2>2
  <2>4. \A i \in ghost'.revoked : i < ids.grant
    BY <1>5 DEF RegistryInv, FreshIds
  <2> QED
    BY <1>1, <1>2, <1>3, <2>1, <2>3, <2>4 DEF RegistryInv, FreshIds
<1> QED
  BY <1>4, <1>5 DEF Acknowledged

LEMMA RegistryCommit ==
  ASSUME Base, RegistryInv, Commit
  PROVE  RegistryInv'
<1>1. CASE Reap
  <2>1. reg' = SessionGone(reg, Handle \ (Live \ Dead)) /\ disk' = disk /\ ids' = ids
        /\ ghost'.revoked = ghost.revoked
    BY <1>1 DEF Reap, Base, GhostTyped
  <2>2. Coherent(reg') /\ Coherent(disk') /\ reg'.consents \subseteq reg.consents
    BY <2>1, SessionGoneCoherent DEF Base, RegistryTyped, RegistryInv
  <2>3. Coherent(reg)' /\ Coherent(disk)'
    BY <2>2
    DEF Coherent, PermsOk, NativesOk, ConsentsOk, ValidScope, Approved, Allowed
  <2> QED
    BY <2>1, <2>2, <2>3 DEF RegistryInv, FreshIds
<1>2. ASSUME NEW k \in Conn, NativeAsk(k) PROVE RegistryInv'
  <2> DEFINE n == conn[k]
             r == RefusedFirst(n.client, n.profile)
  <2>1. /\ n.client \in reg.peers /\ n.profile \in Profile
        /\ r # reg => Cardinality(reg.natives) < MaxNative
        /\ ids' = ids /\ ghost'.revoked = ghost.revoked
    BY <1>2 DEF NativeAsk, Paired, Base, PermitTyped, Hello, GhostTyped
  <2>2. Coherent(r) /\ r.consents = reg.consents
    BY <2>1, RefusedFirstCoherent DEF RegistryInv
  <2>3. UNCHANGED <<reg, disk>> \/ Persist(r)
    BY <1>2 DEF NativeAsk, AuditFails
  <2> QED
    BY <2>1, <2>2, <2>3, RegistryStays, RegistryNarrows
<1>3. ASSUME NEW k \in Conn, NativeApprove(k) PROVE RegistryInv'
  <2> DEFINE n == conn[k]
             r == WithApproval(n.client, n.profile)
  <2>1. /\ n.client \in reg.peers /\ n.profile \in Profile
        /\ Known(reg, n.client, n.profile) # {} /\ Persist(r)
        /\ ids' = ids /\ ghost'.revoked = ghost.revoked
    BY <1>3 DEF NativeApprove, Paired, Base, PermitTyped, Hello, GhostTyped
  <2>2. Coherent(r) /\ r.consents = reg.consents
    BY <2>1, WithApprovalCoherent DEF RegistryInv
  <2> QED
    BY <2>1, <2>2, RegistryNarrows
<1>4. ASSUME NEW k \in Conn, NativeRegister(k) PROVE RegistryInv'
  BY <1>4, RegistryStays DEF NativeRegister, AuditFails, NewHandle, Base, ServiceTyped
<1>5. CASE RegisterCdpCommit
  BY <1>5, RegistryStays DEF RegisterCdpCommit, AuditFails, NewHandle, Base, ServiceTyped
<1>6. CASE ConfigureCommit
  <2> DEFINE r == Configured(admin.client, admin.cred, admin.origins)
  <2>1. admin \in Admin /\ admin.client \in reg.peers /\ Cardinality(r.perms) <= MaxPermissions
    BY <1>6 DEF ConfigureCommit, AdminCommits, Paired, Base, PermitTyped
  <2>2. Coherent(r) /\ r.consents \subseteq reg.consents
    BY <2>1, ConfiguredCoherent DEF RegistryInv, Admin
  <2>3. UNCHANGED <<reg, disk>> \/ Persist(r)
    BY <1>6 DEF ConfigureCommit, AuditFails
  <2>4. ids' = ids /\ ghost'.revoked = ghost.revoked
    BY <1>6 DEF ConfigureCommit, Base, GhostTyped
  <2> QED
    BY <2>2, <2>3, <2>4, RegistryStays, RegistryNarrows
<1>7. CASE RevokeCommit
  <2> DEFINE r == Unpaired(admin.target)
  <2>1. Coherent(r) /\ r.consents \subseteq reg.consents
    BY UnpairedCoherent DEF RegistryInv
  <2>2. ids' = ids
    BY <1>7 DEF RevokeCommit
  <2>3. CASE UNCHANGED <<reg, disk, ghost>>
    BY <2>2, <2>3, RegistryStays
  <2>4. CASE Persist(r) /\ ghost' = [ghost EXCEPT !.void = Voids(OwnOpen(admin.target)),
                                                 !.revoked = Acknowledged(r)]
    <3>1. ghost'.revoked = Acknowledged(r)
      BY <2>4 DEF Base, GhostTyped
    <3> QED
      BY <2>1, <2>2, <2>4, <3>1, RegistryNarrows
  <2> QED
    BY <1>7, <2>3, <2>4 DEF RevokeCommit, AuditFails
<1>8. ASSUME NEW c \in Client, NEW h \in Handle, DisconnectBrowser(c, h) PROVE RegistryInv'
  <2> DEFINE r == Disconnected(c, h)
  <2>1. Coherent(r) /\ r.consents \subseteq reg.consents
    BY DisconnectedCoherent DEF RegistryInv
  <2>2. ids' = ids /\ Persist(r)
    BY <1>8 DEF DisconnectBrowser
  <2>3. ghost'.revoked \in {ghost.revoked, Acknowledged(r)}
    BY <1>8 DEF DisconnectBrowser, Base, GhostTyped
  <2> QED
    BY <2>1, <2>2, <2>3, RegistryNarrows
<1>9. ASSUME NEW c \in Client, NEW ss, NEW uses, Withdraw(c, ss, uses) PROVE RegistryInv'
  <2> DEFINE r == Without(c, ss)
  <2>1. Coherent(r) /\ r.consents \subseteq reg.consents
    BY WithoutCoherent DEF RegistryInv
  <2>2. ids' = ids
    BY <1>9 DEF Withdraw
  <2>3. CASE UNCHANGED <<reg, disk, ghost>>
    BY <2>2, <2>3, RegistryStays
  <2>4. CASE Persist(r) /\ ghost' = [ghost EXCEPT !.void = Voids(uses \cup Prompting(c)),
                                                 !.revoked = Acknowledged(r)]
    <3>1. ghost'.revoked = Acknowledged(r)
      BY <2>4 DEF Base, GhostTyped
    <3> QED
      BY <2>1, <2>2, <2>4, <3>1, RegistryNarrows
  <2> QED
    BY <1>9, <2>3, <2>4 DEF Withdraw, AuditFails
<1> QED
  BY <1>1, <1>2, <1>3, <1>4, <1>5, <1>6, <1>7, <1>8, <1>9
  DEF Commit, RevokeConsent, ClearConsents

LEMMA RegistryAuthorize ==
  ASSUME Base, RegistryInv, NEW o \in Op, Authorize(o)
  PROVE  RegistryInv'
<1>1. ghost' = ghost /\ Authorizable(o)
  BY DEF Authorize
<1>2. CASE UNCHANGED <<reg, disk, ids>>
  BY <1>1, <1>2, RegistryStays
<1>3. CASE ~UNCHANGED <<reg, disk, ids>>
  <2>1. pc[o] = "always" /\ Persist(Remembered(o)) /\ ids' = [ids EXCEPT !.grant = @ + 1]
    BY <1>3 DEF Authorize, AuditFails, Remembers, Remembered
  <2>2. ids'.grant = ids.grant + 1 /\ ids.grant \in Nat
    BY <2>1, Bounds DEF Base, ServiceTyped
  <2>3. /\ Coherent(Remembered(o))
        /\ \A g \in Remembered(o).consents : g \in reg.consents \/ g.id = ids.grant
    BY <1>1, <2>1, RememberedCoherent
  <2>4. reg' = Remembered(o) /\ disk' \in {disk, Remembered(o)}
    BY <2>1 DEF Persist
  <2>5. Coherent(reg') /\ Coherent(disk')
    BY <2>3, <2>4 DEF RegistryInv
  <2>6. Coherent(reg)' /\ Coherent(disk)'
    BY <2>5 DEF Coherent, PermsOk, NativesOk, ConsentsOk, ValidScope, Approved, Allowed
  <2>7. /\ \A g \in Remembered(o).consents : g.id < ids.grant + 1 /\ g.id \notin ghost.revoked
        /\ \A g \in disk.consents : g.id < ids.grant + 1 /\ g.id \notin ghost.revoked
        /\ \A i \in ghost.revoked : i < ids.grant + 1
    <3>1. \A i \in ghost.revoked : i < ids.grant /\ i \in Nat
      BY DEF RegistryInv, Base, GhostTyped
    <3>2. \A g \in reg.consents \cup disk.consents :
            g.id < ids.grant /\ g.id \notin ghost.revoked /\ g.id \in Nat
      BY DEF RegistryInv, FreshIds, Base, RegistryTyped, Registry, Grant
    <3> QED
      BY <2>2, <2>3, <3>1, <3>2
  <2> QED
    BY <1>1, <2>2, <2>4, <2>6, <2>7 DEF RegistryInv, FreshIds
<1> QED
  BY <1>2, <1>3

LEMMA RegistryInit == Init => RegistryInv
<1> SUFFICES ASSUME Init PROVE RegistryInv
  OBVIOUS
<1>1. /\ reg = disk /\ disk.perms = {} /\ disk.natives = {} /\ disk.consents = {}
      /\ ghost.revoked = {}
  BY DEF Init, Blank, GhostInit
<1>2. Coherent(disk)
  BY <1>1, EmptyCounts, Bounds DEF Coherent, PermsOk, NativesOk, ConsentsOk
<1> QED
  BY <1>1, <1>2 DEF RegistryInv, FreshIds

LEMMA RegistryStep == Base /\ RegistryInv /\ [Next]_vars => RegistryInv'
<1> SUFFICES ASSUME Base, RegistryInv, [Next]_vars PROVE RegistryInv'
  OBVIOUS
<1>1. CASE UNCHANGED vars
  BY <1>1, RegistryStays DEF vars
<1>2. CASE Quiet
  BY <1>2, QuietFrame, RegistryStays
<1>3. ASSUME NEW o \in Op, Task(o) PROVE RegistryInv'
  BY <1>3, TaskFrame, RegistryStays
<1>4. ASSUME NEW o \in Op, Admits(o) PROVE RegistryInv'
  <2>1. UNCHANGED <<reg, disk, ids, ghost>>
    BY <1>4 DEF Admits, SecurePromptFill, SecureFill, Reserve, AuditFails
  <2> QED
    BY <2>1, RegistryStays
<1>5. ASSUME NEW o \in Op, Aborted(o) \/ CancelFill(o) \/ Dispatch(o) \/ Complete(o)
      PROVE  RegistryInv'
  <2>1. UNCHANGED <<reg, disk, ids>> /\ ghost'.revoked = ghost.revoked
    BY <1>5 DEF Aborted, CancelFill, Dispatch, WireOnly, Complete, Base, GhostTyped
  <2> QED
    BY <2>1, RegistryStays
<1>6. CASE Forget \/ BindTargets \/ StopAll
  <2>1. UNCHANGED <<reg, disk, ghost>> /\ ids'.grant = ids.grant
    BY <1>6 DEF Forget, BindTargets, StopAll, Base, ServiceTyped
  <2> QED
    BY <2>1, RegistryStays
<1>7. ASSUME NEW t \in Target, Acts(t) PROVE RegistryInv'
  <2>1. UNCHANGED <<reg, disk, ids>> /\ ghost'.revoked = ghost.revoked
    BY <1>7 DEF Acts, Base, GhostTyped
  <2> QED
    BY <2>1, RegistryStays
<1>8. CASE Crash
  <2>1. reg' = Blank /\ disk' = disk /\ ids' = ids /\ ghost'.revoked = ghost.revoked
    BY <1>8 DEF Crash, Base, GhostTyped
  <2>2. Coherent(reg') /\ Coherent(disk') /\ reg'.consents = {}
    BY <2>1, BlankCoherent DEF RegistryInv, Blank
  <2>3. Coherent(reg)' /\ Coherent(disk)'
    BY <2>2 DEF Coherent, PermsOk, NativesOk, ConsentsOk, ValidScope, Approved, Allowed
  <2> QED
    BY <2>1, <2>2, <2>3 DEF RegistryInv, FreshIds
<1>9. CASE Restart
  <2>1. reg' = SessionGone(disk, Handle) /\ disk' = disk /\ ids' = ids /\ ghost' = ghost
    BY <1>9 DEF Restart
  <2>2. Coherent(reg') /\ Coherent(disk') /\ reg'.consents \subseteq disk.consents
    BY <2>1, SessionGoneCoherent DEF RegistryInv, Base, RegistryTyped
  <2>3. Coherent(reg)' /\ Coherent(disk)'
    BY <2>2 DEF Coherent, PermsOk, NativesOk, ConsentsOk, ValidScope, Approved, Allowed
  <2> QED
    BY <2>1, <2>2, <2>3 DEF RegistryInv, FreshIds
<1> QED
  BY <1>1, <1>2, <1>3, <1>4, <1>5, <1>6, <1>7, <1>8, <1>9, NextCases, RegistryCommit,
     RegistryAuthorize

\* Whatever was written last, the next incarnation accepts the file: permissions and
\* consents never outlive the peer, the profile or the permission they rest on.
THEOREM BrowserReopensHolds == Spec => []BrowserReopens
<1>1. RegistryInv => BrowserReopens
  BY CoherentReopens DEF RegistryInv, BrowserReopens
<1> QED
  BY <1>1, BaseInit, BaseStep, RegistryInit, RegistryStep, PTL DEF Spec

\* A consent whose revocation was acknowledged exists nowhere, in memory or on disk.
THEOREM ConsentStaysRevokedHolds == Spec => []ConsentStaysRevoked
<1>1. RegistryInv => ConsentStaysRevoked
  BY DEF RegistryInv, FreshIds, ConsentStaysRevoked
<1> QED
  BY <1>1, BaseInit, BaseStep, RegistryInit, RegistryStep, PTL DEF Spec

-----------------------------------------------------------------------------
(* Profiles.  As long as no write has failed, memory and disk agree on peers *)
(* and on what the human said of their profiles; a profile somebody was      *)
(* asked about is on record wherever its client is paired; and a profile its *)
(* client disconnected is approved nowhere, so that its one live connection  *)
(* was the last.                                                             *)

ProfilesInv ==
  /\ up /\ ~faulted => reg.peers = disk.peers /\ reg.natives = disk.natives
  /\ \A c \in Client, p \in Profile : <<c, p>> \in ghost.asked =>
       /\ c \in reg.peers => Known(reg, c, p) # {}
       /\ c \in disk.peers => Known(disk, c, p) # {}
  /\ \A c \in Client, p \in Profile : <<c, p>> \in ghost.cut =>
       ~Attached(c, p) /\ ~Approved(reg, c, p) /\ ~Approved(disk, c, p)

OneConnection ==
  /\ \A h \in Handle : inst[h] # None => h < ids.handle
  /\ \A h, i \in Handle :
       inst[h] # None /\ inst[h].profile # None /\ inst[i] = inst[h] => h = i

Attended ==
  \A k \in Conn : conn[k] # None /\ conn[k].step # "trusted" => conn[k].manual \/ conn[k].fresh

\* Connections may go away at any time.
LEMMA ProfilesStay ==
  ASSUME ProfilesInv, OneConnection,
         reg'.peers = reg.peers, reg'.natives = reg.natives,
         disk'.peers = disk.peers, disk'.natives = disk.natives,
         up' /\ ~faulted' => up /\ ~faulted,
         ghost'.asked = ghost.asked, ghost'.cut = ghost.cut, ids'.handle = ids.handle,
         \A h \in Handle : inst'[h] \in {inst[h], None}
  PROVE  ProfilesInv' /\ OneConnection'
<1>1. OneConnection'
  BY DEF OneConnection
<1>2. \A c, p : Attached(c, p)' => Attached(c, p)
  BY DEF Attached, Live
<1>3. \A c, p : /\ Known(reg, c, p)' = Known(reg, c, p) /\ Known(disk, c, p)' = Known(disk, c, p)
                /\ Approved(reg, c, p)' <=> Approved(reg, c, p)
                /\ Approved(disk, c, p)' <=> Approved(disk, c, p)
  BY DEF Known, Approved
<1> QED
  BY <1>1, <1>2, <1>3 DEF ProfilesInv

\* A write that is not about profiles, in an incarnation where none has failed.
LEMMA WritesNoProfile ==
  ASSUME ProfilesInv, up, ~faulted, NEW r, Persist(r), r.peers = reg.peers,
         r.natives = reg.natives
  PROVE  /\ reg'.peers = reg.peers /\ reg'.natives = reg.natives
         /\ disk'.peers = disk.peers /\ disk'.natives = disk.natives
  BY DEF Persist, ProfilesInv

LEMMA ProfilesNative ==
  ASSUME Base, RegistryInv, ProfilesInv, OneConnection, NEW k \in Conn,
         NativeAsk(k) \/ NativeApprove(k) \/ NativeRegister(k)
  PROVE  ProfilesInv' /\ OneConnection'
<1> DEFINE n == conn[k]
           c == n.client
           p == n.profile
<1>1. c \in reg.peers /\ c \in Client /\ p \in Profile /\ up /\ ~faulted
  BY DEF NativeAsk, NativeApprove, NativeRegister, Paired, Ready, Base, PermitTyped, Hello
<1> HIDE DEF c, p
<1>2. CASE NativeAsk(k)
  <2> DEFINE r == RefusedFirst(c, p)
  <2>1. /\ r.peers = reg.peers
        /\ r # reg => Known(reg, c, p) = {}
        /\ \A d, q : Known(reg, d, q) # {} => Known(r, d, q) # {}
        /\ Known(r, c, p) # {}
        /\ \A d, q : Approved(r, d, q) => Approved(reg, d, q)
    <3>1. CASE Known(reg, c, p) # {}
      BY <3>1 DEF RefusedFirst
    <3>2. CASE Known(reg, c, p) = {}
      <4>1. r.peers = reg.peers
            /\ r.natives = reg.natives \cup {[owner |-> c, profile |-> p, allowed |-> FALSE]}
        BY <3>2 DEF RefusedFirst, Base, RegistryTyped, Registry
      <4> HIDE DEF r
      <4>2. \A d, q : Approved(r, d, q) => Approved(reg, d, q)
        BY <4>1 DEF Approved
      <4>3. [owner |-> c, profile |-> p, allowed |-> FALSE] \in Known(r, c, p)
        BY <4>1 DEF Known
      <4> QED
        BY <3>2, <4>1, <4>2, <4>3 DEF Known
    <3> QED
      BY <3>1, <3>2
  <2>2. /\ inst' = inst /\ ids' = ids /\ up' = up /\ ghost'.cut = ghost.cut
        /\ \A d, q : Attached(d, q)' <=> Attached(d, q)
    BY <1>2 DEF NativeAsk, Attached, Live, Base, GhostTyped
  <2>3. OneConnection'
    BY <2>2 DEF OneConnection
  <2>4. CASE r = reg /\ UNCHANGED <<reg, disk, faulted>>
    <3>1. ghost'.asked = ghost.asked \/ ghost'.asked = ghost.asked \cup {<<c, p>>}
      BY <1>2, <2>4 DEF NativeAsk, Base, GhostTyped, c, p
    <3>2. disk.natives = reg.natives /\ Known(disk, c, p) # {} /\ Known(reg, c, p) # {}
      BY <1>1, <2>1, <2>4 DEF ProfilesInv, Known
    <3>3. \A d, q : /\ Known(reg, d, q)' = Known(reg, d, q)
                    /\ Known(disk, d, q)' = Known(disk, d, q)
                    /\ Approved(reg, d, q)' <=> Approved(reg, d, q)
                    /\ Approved(disk, d, q)' <=> Approved(disk, d, q)
      BY <2>4 DEF Known, Approved
    <3>4. \A d, q : <<d, q>> \in ghost'.asked => <<d, q>> \in ghost.asked \/ (d = c /\ q = p)
      BY <3>1
    <3> QED
      BY <2>2, <2>3, <2>4, <3>2, <3>3, <3>4 DEF ProfilesInv
  <2>5. CASE r # reg /\ AuditFails
    <3>1. ghost'.asked = ghost.asked
      BY <1>2, <2>5 DEF NativeAsk, AuditFails, Base, GhostTyped
    <3> QED
      BY <2>2, <2>5, <3>1, ProfilesStay DEF AuditFails
  <2>6. CASE r # reg /\ Persist(r)
    <3>1. reg' = r /\ disk' \in {disk, r} /\ (~faulted' => disk' = r)
      BY <2>6 DEF Persist
    <3>2. /\ faulted' => ghost'.asked = ghost.asked
          /\ ~faulted' => ghost'.asked = ghost.asked \cup {<<c, p>>}
      BY <1>2 DEF NativeAsk, Base, GhostTyped, c, p
    <3>3. \A d, q : <<d, q>> \in ghost'.asked =>
                      <<d, q>> \in ghost.asked \/ (d = c /\ q = p /\ ~faulted')
      BY <3>2
    <3>4. /\ \A d, q : Known(reg, d, q)' = Known(r, d, q) /\ (Approved(reg, d, q)' <=> Approved(r, d, q))
          /\ disk' = disk => \A d, q : /\ Known(disk, d, q)' = Known(disk, d, q)
                                       /\ Approved(disk, d, q)' <=> Approved(disk, d, q)
          /\ disk' = r => \A d, q : /\ Known(disk, d, q)' = Known(r, d, q)
                                    /\ Approved(disk, d, q)' <=> Approved(r, d, q)
      BY <3>1 DEF Known, Approved
    <3> HIDE DEF r
    <3>5. \A d \in Client, q \in Profile : <<d, q>> \in ghost'.asked =>
            /\ d \in reg'.peers => Known(reg, d, q)' # {}
            /\ d \in disk'.peers => Known(disk, d, q)' # {}
      <4> SUFFICES ASSUME NEW d \in Client, NEW q \in Profile, <<d, q>> \in ghost'.asked
                   PROVE  /\ d \in reg'.peers => Known(reg, d, q)' # {}
                          /\ d \in disk'.peers => Known(disk, d, q)' # {}
        OBVIOUS
      <4>1. CASE <<d, q>> \in ghost.asked
        BY <2>1, <3>1, <3>4, <4>1 DEF ProfilesInv
      <4>2. CASE d = c /\ q = p /\ ~faulted'
        BY <2>1, <3>1, <3>4, <4>2
      <4> QED
        BY <3>3, <4>1, <4>2
    <3>6. \A d \in Client, q \in Profile : <<d, q>> \in ghost'.cut =>
            ~Attached(d, q)' /\ ~Approved(reg, d, q)' /\ ~Approved(disk, d, q)'
      BY <2>1, <2>2, <3>1, <3>4 DEF ProfilesInv
    <3> QED
      BY <2>3, <3>1, <3>5, <3>6 DEF ProfilesInv
  <2> QED
    BY <1>2, <2>4, <2>5, <2>6 DEF NativeAsk, c, p
<1>3. CASE NativeApprove(k)
  <2> DEFINE r == WithApproval(c, p)
             a == [owner |-> c, profile |-> p, allowed |-> TRUE]
  <2>1. /\ r.peers = reg.peers
        /\ r.natives = (reg.natives \ Known(reg, c, p)) \cup {a}
    BY DEF WithApproval, Base, RegistryTyped, Registry
  <2>2. /\ \A d, q : Known(reg, d, q) # {} => Known(r, d, q) # {}
        /\ \A d, q : Approved(r, d, q) => Approved(reg, d, q) \/ (d = c /\ q = p)
    <3> HIDE DEF r
    <3>1. a \in Known(r, c, p)
      BY <2>1 DEF Known
    <3>2. \A d, q : d # c \/ q # p => Known(reg, d, q) \subseteq Known(r, d, q)
      BY <2>1 DEF Known
    <3>3. \A d, q : Approved(r, d, q) => Approved(reg, d, q) \/ (d = c /\ q = p)
      BY <2>1 DEF Approved
    <3> QED
      BY <3>1, <3>2, <3>3
  <2>3. /\ inst' = inst /\ ids' = ids /\ up' = up
        /\ ghost'.cut = ghost.cut \ {<<c, p>>} /\ ghost'.asked = ghost.asked
        /\ \A d, q : Attached(d, q)' <=> Attached(d, q)
    BY <1>3 DEF NativeApprove, Attached, Live, Base, GhostTyped, c, p
  <2>4. reg' = r /\ disk' \in {disk, r} /\ (~faulted' => disk' = r)
    BY <1>3 DEF NativeApprove, Persist, c, p
  <2>5. /\ \A d, q : Known(reg, d, q)' = Known(r, d, q) /\ (Approved(reg, d, q)' <=> Approved(r, d, q))
        /\ disk' = disk => \A d, q : /\ Known(disk, d, q)' = Known(disk, d, q)
                                     /\ Approved(disk, d, q)' <=> Approved(disk, d, q)
        /\ disk' = r => \A d, q : /\ Known(disk, d, q)' = Known(r, d, q)
                                  /\ Approved(disk, d, q)' <=> Approved(r, d, q)
    BY <2>4 DEF Known, Approved
  <2> HIDE DEF r, a
  <2>6. \A d \in Client, q \in Profile : <<d, q>> \in ghost'.asked =>
          /\ d \in reg'.peers => Known(reg, d, q)' # {}
          /\ d \in disk'.peers => Known(disk, d, q)' # {}
    BY <2>1, <2>2, <2>3, <2>4, <2>5 DEF ProfilesInv
  <2>7. \A d \in Client, q \in Profile : <<d, q>> \in ghost'.cut =>
          ~Attached(d, q)' /\ ~Approved(reg, d, q)' /\ ~Approved(disk, d, q)'
    <3> SUFFICES ASSUME NEW d \in Client, NEW q \in Profile, <<d, q>> \in ghost'.cut
                 PROVE  ~Attached(d, q)' /\ ~Approved(reg, d, q)' /\ ~Approved(disk, d, q)'
      OBVIOUS
    <3>1. <<d, q>> \in ghost.cut /\ ~(d = c /\ q = p)
      BY <2>3
    <3> QED
      BY <2>2, <2>3, <2>4, <2>5, <3>1 DEF ProfilesInv
  <2>8. OneConnection'
    BY <2>3 DEF OneConnection
  <2> QED
    BY <2>4, <2>6, <2>7, <2>8 DEF ProfilesInv
<1>4. CASE NativeRegister(k)
  <2>1. CASE AuditFails /\ UNCHANGED <<inst, link, ids>>
    BY <1>4, <2>1, ProfilesStay DEF NativeRegister, AuditFails
  <2>2. CASE UNCHANGED <<reg, disk, faulted>> /\ NewHandle(c, p, "open")
    <3> DEFINE i == [owner |-> c, profile |-> p]
    <3>1. Approved(reg, c, p) /\ ~Attached(c, p) /\ UNCHANGED <<up, ghost>>
      BY <1>4 DEF NativeRegister, StillTrusted, c, p
    <3>2. ids.handle \in Handle /\ inst' = [inst EXCEPT ![ids.handle] = i]
          /\ ids'.handle = ids.handle + 1
      BY <1>1, <2>2, NewHandleTyped DEF NewHandle, Base, ServiceTyped
    <3>3. \A h \in Handle : inst'[h] = IF h = ids.handle THEN i ELSE inst[h]
      BY <3>2 DEF Base, TableTyped
    <3>4. i \in Instance
      BY <1>1 DEF Instance
    <3>5. i # None /\ \A h \in Handle : inst[h] # i
      BY <3>1, <3>4, NoneAssumption DEF Attached, Live
    <3>6. OneConnection'
      <4>1. \A h \in Handle : h \in Nat
        BY DEF Handle
      <4> QED
        BY <3>2, <3>3, <3>5, <4>1 DEF OneConnection
    <3>7. \A d, q : Attached(d, q)' => Attached(d, q) \/ (d = c /\ q = p)
      BY <3>3 DEF Attached, Live
    <3>8. \A d, q : /\ Known(reg, d, q)' = Known(reg, d, q)
                    /\ Known(disk, d, q)' = Known(disk, d, q)
                    /\ Approved(reg, d, q)' <=> Approved(reg, d, q)
                    /\ Approved(disk, d, q)' <=> Approved(disk, d, q)
      BY <2>2 DEF Known, Approved
    <3> QED
      BY <1>1, <2>2, <3>1, <3>6, <3>7, <3>8 DEF ProfilesInv
  <2> QED
    BY <1>4, <2>1, <2>2 DEF NativeRegister, c, p
<1> QED
  BY <1>2, <1>3, <1>4

LEMMA ProfilesAdmin ==
  ASSUME Base, RegistryInv, ProfilesInv, OneConnection,
         RegisterCdpCommit \/ ConfigureCommit \/ RevokeCommit
  PROVE  ProfilesInv' /\ OneConnection'
<1>1. admin \in Admin /\ admin.client \in Client /\ admin.client \in reg.peers /\ up /\ ~faulted
  BY DEF RegisterCdpCommit, ConfigureCommit, RevokeCommit, AdminCommits, Paired, Ready, Base,
         PermitTyped, Admin
<1>2. CASE RegisterCdpCommit
  <2>1. CASE AuditFails /\ UNCHANGED <<inst, link, ids>>
    BY <1>2, <2>1, ProfilesStay DEF RegisterCdpCommit, AuditFails
  <2>2. CASE UNCHANGED <<reg, disk, faulted>> /\ NewHandle(admin.client, None, "ready")
    <3> DEFINE i == [owner |-> admin.client, profile |-> None]
    <3>1. UNCHANGED <<up, ghost>>
      BY <1>2 DEF RegisterCdpCommit
    <3>2. ids.handle \in Handle /\ inst' = [inst EXCEPT ![ids.handle] = i]
          /\ ids'.handle = ids.handle + 1
      BY <1>1, <2>2, NewHandleTyped DEF NewHandle, Base, ServiceTyped
    <3>3. \A h \in Handle : inst'[h] = IF h = ids.handle THEN i ELSE inst[h]
      BY <3>2 DEF Base, TableTyped
    <3>4. i.profile = None
      OBVIOUS
    <3>5. \A d, q : q \in Profile => [owner |-> d, profile |-> q] # i
      BY BrowserAssumption
    <3>6. \A d, q : q \in Profile /\ Attached(d, q)' => Attached(d, q)
      BY <3>3, <3>5 DEF Attached, Live
    <3> HIDE DEF i
    <3>7. OneConnection'
      <4>1. \A h \in Handle : h \in Nat
        BY DEF Handle
      <4> QED
        BY <3>2, <3>3, <3>4, <4>1 DEF OneConnection
    <3>8. \A d, q : /\ Known(reg, d, q)' = Known(reg, d, q)
                    /\ Known(disk, d, q)' = Known(disk, d, q)
                    /\ Approved(reg, d, q)' <=> Approved(reg, d, q)
                    /\ Approved(disk, d, q)' <=> Approved(disk, d, q)
      BY <2>2 DEF Known, Approved
    <3> QED
      BY <1>1, <2>2, <3>1, <3>6, <3>7, <3>8 DEF ProfilesInv
  <2> QED
    BY <1>2, <2>1, <2>2 DEF RegisterCdpCommit
<1>3. CASE ConfigureCommit
  <2> DEFINE r == Configured(admin.client, admin.cred, admin.origins)
  <2>1. /\ inst' = inst /\ ids' = ids /\ up' = up
        /\ ghost'.cut = ghost.cut /\ ghost'.asked = ghost.asked
    BY <1>3 DEF ConfigureCommit, Base, GhostTyped
  <2>2. r.peers = reg.peers /\ r.natives = reg.natives
    BY DEF Configured, OnlyConfigured, Base, RegistryTyped, Registry
  <2>3. AuditFails \/ Persist(r)
    BY <1>3 DEF ConfigureCommit
  <2>4. /\ reg'.peers = reg.peers /\ reg'.natives = reg.natives
        /\ disk'.peers = disk.peers /\ disk'.natives = disk.natives
    BY <1>1, <2>2, <2>3, WritesNoProfile DEF AuditFails
  <2> QED
    BY <1>1, <2>1, <2>4, ProfilesStay
<1>4. CASE RevokeCommit
  <2> DEFINE t == admin.target
             r == Unpaired(t)
  <2>1. CASE AuditFails /\ UNCHANGED <<inst, ghost>>
    BY <1>4, <2>1, ProfilesStay DEF RevokeCommit, AuditFails
  <2>2. CASE Persist(r) /\ inst' = Removed(Owned(t))
             /\ ghost' = [ghost EXCEPT !.void = Voids(OwnOpen(t)), !.revoked = Acknowledged(r)]
    <3>1. /\ r.peers = reg.peers \ {t} /\ r.natives = {n \in reg.natives : n.owner # t}
      BY DEF Unpaired
    <3> HIDE DEF r
    <3>2. /\ \A d, q : d # t => Known(r, d, q) = Known(reg, d, q)
          /\ \A d, q : Approved(r, d, q) => Approved(reg, d, q)
      BY <3>1 DEF Known, Approved
    <3>3. ids' = ids /\ up' = up /\ ghost'.cut = ghost.cut /\ ghost'.asked = ghost.asked
      BY <1>4, <2>2 DEF RevokeCommit, Base, GhostTyped
    <3>4. \A h \in Handle : inst'[h] \in {inst[h], None}
      BY <2>2 DEF Removed
    <3>5. /\ OneConnection' /\ \A d, q : Attached(d, q)' => Attached(d, q)
      BY <3>3, <3>4 DEF OneConnection, Attached, Live
    <3>6. reg' = r /\ disk' \in {disk, r} /\ (~faulted' => disk' = r)
      BY <1>1, <2>2 DEF Persist
    <3>7. /\ \A d, q : Known(reg, d, q)' = Known(r, d, q) /\ (Approved(reg, d, q)' <=> Approved(r, d, q))
          /\ disk' = disk => \A d, q : /\ Known(disk, d, q)' = Known(disk, d, q)
                                       /\ Approved(disk, d, q)' <=> Approved(disk, d, q)
          /\ disk' = r => \A d, q : /\ Known(disk, d, q)' = Known(r, d, q)
                                    /\ Approved(disk, d, q)' <=> Approved(r, d, q)
      BY <3>6 DEF Known, Approved
    <3>8. \A d \in Client, q \in Profile : <<d, q>> \in ghost'.asked =>
            /\ d \in reg'.peers => Known(reg, d, q)' # {}
            /\ d \in disk'.peers => Known(disk, d, q)' # {}
      BY <3>1, <3>2, <3>3, <3>6, <3>7 DEF ProfilesInv
    <3>9. \A d \in Client, q \in Profile : <<d, q>> \in ghost'.cut =>
            ~Attached(d, q)' /\ ~Approved(reg, d, q)' /\ ~Approved(disk, d, q)'
      BY <3>2, <3>3, <3>5, <3>6, <3>7 DEF ProfilesInv
    <3> QED
      BY <3>5, <3>6, <3>8, <3>9 DEF ProfilesInv
  <2> QED
    BY <1>4, <2>1, <2>2 DEF RevokeCommit
<1> QED
  BY <1>2, <1>3, <1>4

\* The profile a client disconnects: no other connection has it.
LEMMA ProfilesDisconnect ==
  ASSUME Base, RegistryInv, ProfilesInv, OneConnection, NEW c \in Client, NEW h \in Handle,
         DisconnectBrowser(c, h)
  PROVE  ProfilesInv' /\ OneConnection'
<1> DEFINE r == Disconnected(c, h)
<1>0. PICK p : p = inst[h].profile
  OBVIOUS
<1>1. /\ up /\ ~faulted /\ inst[h] # None /\ inst[h].owner = c /\ Persist(r)
      /\ ids' = ids /\ up' = up
  BY DEF DisconnectBrowser, Paired, Ready
<1>2. /\ r.peers = reg.peers /\ r.natives = {Refuses(c, h, n) : n \in reg.natives}
      /\ reg.natives \subseteq Native
  BY DisconnectedCoherent DEF RegistryInv, Base, RegistryTyped, Registry
<1> HIDE DEF r
<1>3. \A d, q : Known(reg, d, q) # {} => Known(r, d, q) # {}
  <2> SUFFICES ASSUME NEW d, NEW q, Known(reg, d, q) # {} PROVE Known(r, d, q) # {}
    OBVIOUS
  <2>1. PICK n \in reg.natives : n.owner = d /\ n.profile = q
    BY DEF Known
  <2>2. Refuses(c, h, n) \in r.natives /\ Refuses(c, h, n).owner = d
        /\ Refuses(c, h, n).profile = q
    BY <1>2, <2>1, RefusesNative
  <2> QED
    BY <2>2 DEF Known
<1>4. \A d, q : Approved(r, d, q) => Approved(reg, d, q) /\ ~(d = c /\ q = p)
  <2> SUFFICES ASSUME NEW d, NEW q, Approved(r, d, q)
               PROVE  Approved(reg, d, q) /\ ~(d = c /\ q = p)
    OBVIOUS
  <2> DEFINE a == [owner |-> d, profile |-> q, allowed |-> TRUE]
  <2>1. PICK n \in reg.natives : a = Refuses(c, h, n)
    BY <1>2 DEF Approved
  <2>2. n \in Native /\ a.owner = d /\ a.profile = q /\ a.allowed = TRUE
    BY <1>2, <2>1
  <2> HIDE DEF a
  <2>3. n.owner = d /\ n.profile = q
    BY <2>1, <2>2, RefusesNative
  <2>4. n.allowed /\ ~(n.owner = c /\ n.profile = p)
    <3> DEFINE v == n.allowed /\ ~(n.owner = c /\ n.profile = p)
    <3>1. a.allowed = v
      BY <1>0, <2>1, <2>2 DEF Refuses, Native
    <3> HIDE DEF v
    <3>2. v
      BY <2>2, <3>1
    <3> QED
      BY <3>2 DEF v
  <2>5. n = a
    BY <2>2, <2>3, <2>4 DEF Native, a
  <2> QED
    BY <2>3, <2>4, <2>5 DEF Approved, a
<1>5. reg' = r /\ disk' \in {disk, r} /\ (~faulted' => disk' = r)
  BY <1>1 DEF Persist
<1>6. /\ \A d, q : Known(reg, d, q)' = Known(r, d, q) /\ (Approved(reg, d, q)' <=> Approved(r, d, q))
      /\ disk' = disk => \A d, q : /\ Known(disk, d, q)' = Known(disk, d, q)
                                   /\ Approved(disk, d, q)' <=> Approved(disk, d, q)
      /\ disk' = r => \A d, q : /\ Known(disk, d, q)' = Known(r, d, q)
                                /\ Approved(disk, d, q)' <=> Approved(r, d, q)
  BY <1>5 DEF Known, Approved
<1>7. \A i \in Handle : inst'[i] \in {inst[i], None}
  BY DEF DisconnectBrowser, Removed
<1>8. /\ OneConnection' /\ \A d, q : Attached(d, q)' => Attached(d, q)
  BY <1>1, <1>7 DEF OneConnection, Attached, Live
<1>9. /\ ghost'.asked = ghost.asked
      /\ \/ ghost'.cut = ghost.cut
         \/ /\ ghost'.cut = ghost.cut \cup {<<c, p>>} /\ ~faulted' /\ p # None
            /\ inst' = Removed({h})
  <2>1. CASE ghost' = [ghost EXCEPT !.void = Voids(Prompting(c))]
    BY <2>1 DEF Base, GhostTyped
  <2>2. CASE ~(ghost' = [ghost EXCEPT !.void = Voids(Prompting(c))])
    <3>1. PICK V, A : ghost' = [ghost EXCEPT
             !.void = V, !.revoked = A,
             !.cut = IF faulted' \/ p = None THEN @ ELSE @ \cup {<<c, p>>}]
      BY <1>0, <2>2 DEF DisconnectBrowser
    <3>2. inst' = Removed({h})
      BY <2>2 DEF DisconnectBrowser
    <3> QED
      BY <3>1, <3>2 DEF Base, GhostTyped
  <2> QED
    BY <2>1, <2>2
<1>10. inst' = Removed({h}) /\ p # None => ~Attached(c, p)'
  <2> SUFFICES ASSUME inst' = Removed({h}), p # None PROVE ~Attached(c, p)'
    OBVIOUS
  <2> SUFFICES ASSUME NEW i \in Handle, inst'[i] # None,
                      inst'[i] = [owner |-> c, profile |-> p]
               PROVE  FALSE
    BY DEF Attached, Live
  <2>1. i # h /\ inst[i] = [owner |-> c, profile |-> p]
    BY DEF Removed
  <2>2. inst[h] = [owner |-> c, profile |-> p]
    BY <1>0, <1>1 DEF Base, TableTyped, Instance
  <2> QED
    BY <1>0, <1>1, <2>1, <2>2 DEF OneConnection
<1>11. \A d \in Client, q \in Profile : <<d, q>> \in ghost'.asked =>
         /\ d \in reg'.peers => Known(reg, d, q)' # {}
         /\ d \in disk'.peers => Known(disk, d, q)' # {}
  BY <1>2, <1>3, <1>5, <1>6, <1>9 DEF ProfilesInv
<1>12. \A d \in Client, q \in Profile : <<d, q>> \in ghost'.cut =>
         ~Attached(d, q)' /\ ~Approved(reg, d, q)' /\ ~Approved(disk, d, q)'
  <2> SUFFICES ASSUME NEW d \in Client, NEW q \in Profile, <<d, q>> \in ghost'.cut
               PROVE  ~Attached(d, q)' /\ ~Approved(reg, d, q)' /\ ~Approved(disk, d, q)'
    OBVIOUS
  <2>1. CASE <<d, q>> \in ghost.cut
    BY <1>4, <1>5, <1>6, <1>8, <2>1 DEF ProfilesInv
  <2>2. CASE d = c /\ q = p /\ ~faulted' /\ p # None /\ inst' = Removed({h})
    BY <1>4, <1>5, <1>6, <1>10, <2>2
  <2> QED
    BY <1>9, <2>1, <2>2
<1> QED
  BY <1>5, <1>8, <1>11, <1>12 DEF ProfilesInv

LEMMA ProfilesCommit ==
  ASSUME Base, RegistryInv, ProfilesInv, OneConnection, Commit
  PROVE  ProfilesInv' /\ OneConnection'
<1>1. CASE Reap
  <2>1. /\ reg'.peers = reg.peers /\ reg'.natives = reg.natives
    BY <1>1 DEF Reap, SessionGone, Base, RegistryTyped, Registry
  <2>2. /\ disk' = disk /\ faulted' = faulted /\ up' = up /\ ids' = ids
        /\ ghost'.cut = ghost.cut /\ ghost'.asked = ghost.asked
        /\ \A h \in Handle : inst'[h] \in {inst[h], None}
    BY <1>1 DEF Reap, Base, GhostTyped
  <2> QED
    BY <2>1, <2>2, ProfilesStay
<1>2. ASSUME NEW c \in Client, NEW ss, NEW uses, Withdraw(c, ss, uses)
      PROVE  ProfilesInv' /\ OneConnection'
  <2> DEFINE r == Without(c, ss)
  <2>1. /\ inst' = inst /\ ids' = ids /\ up' = up /\ up /\ ~faulted
        /\ ghost'.cut = ghost.cut /\ ghost'.asked = ghost.asked
    BY <1>2 DEF Withdraw, Paired, Ready, Base, GhostTyped
  <2>2. r.peers = reg.peers /\ r.natives = reg.natives
    BY DEF Without, Base, RegistryTyped, Registry
  <2>3. AuditFails \/ Persist(r)
    BY <1>2 DEF Withdraw
  <2>4. /\ reg'.peers = reg.peers /\ reg'.natives = reg.natives
        /\ disk'.peers = disk.peers /\ disk'.natives = disk.natives
    BY <2>1, <2>2, <2>3, WritesNoProfile DEF AuditFails
  <2> QED
    BY <2>1, <2>4, ProfilesStay
<1> QED
  BY <1>1, <1>2, ProfilesNative, ProfilesAdmin, ProfilesDisconnect
  DEF Commit, RevokeConsent, ClearConsents

LEMMA ProfilesAuthorize ==
  ASSUME Base, ProfilesInv, OneConnection, NEW o \in Op, Authorize(o)
  PROVE  ProfilesInv' /\ OneConnection'
<1>1. /\ up /\ ~faulted /\ inst' = inst /\ up' = up /\ ghost' = ghost
      /\ ids'.handle = ids.handle
  BY DEF Authorize, Authorizable, Paired, Ready, Remembers, Base, ServiceTyped
<1>2. UNCHANGED <<reg, disk>> \/ Persist(Remembered(o))
  BY DEF Authorize, AuditFails, Remembers, Remembered
<1>3. Remembered(o).peers = reg.peers /\ Remembered(o).natives = reg.natives
  BY DEF Remembered, Base, RegistryTyped, Registry
<1>4. /\ reg'.peers = reg.peers /\ reg'.natives = reg.natives
      /\ disk'.peers = disk.peers /\ disk'.natives = disk.natives
  BY <1>1, <1>2, <1>3, WritesNoProfile
<1> QED
  BY <1>1, <1>4, ProfilesStay

\* A restart reads the file: no connection has survived to contradict it.
LEMMA ProfilesRestart ==
  ASSUME Base, ProfilesInv, OneConnection, Crash \/ Restart
  PROVE  ProfilesInv' /\ OneConnection'
<1>1. CASE Crash
  <2>1. /\ reg'.peers = {} /\ reg'.natives = {} /\ disk' = disk /\ up' = FALSE
        /\ \A h \in Handle : inst'[h] = None
        /\ ghost'.asked = ghost.asked /\ ghost'.cut = ghost.cut
    BY <1>1 DEF Crash, Blank, Base, GhostTyped
  <2>2. \A c, p : /\ Known(disk, c, p)' = Known(disk, c, p)
                  /\ Approved(disk, c, p)' <=> Approved(disk, c, p)
                  /\ ~Approved(reg, c, p)' /\ ~Attached(c, p)'
    BY <2>1 DEF Known, Approved, Attached, Live
  <2>3. OneConnection'
    BY <2>1 DEF OneConnection
  <2> QED
    BY <2>1, <2>2, <2>3 DEF ProfilesInv
<1>2. CASE Restart
  <2>1. /\ reg'.peers = disk.peers /\ reg'.natives = disk.natives /\ disk' = disk
        /\ inst' = inst /\ ids' = ids /\ ghost' = ghost
    BY <1>2 DEF Restart, SessionGone, Base, RegistryTyped, Registry
  <2>2. \A c, p : /\ Known(disk, c, p)' = Known(disk, c, p)
                  /\ Known(reg, c, p)' = Known(disk, c, p)
                  /\ Approved(disk, c, p)' <=> Approved(disk, c, p)
                  /\ Approved(reg, c, p)' <=> Approved(disk, c, p)
                  /\ Attached(c, p)' <=> Attached(c, p)
    BY <2>1 DEF Known, Approved, Attached, Live
  <2>3. OneConnection'
    BY <2>1 DEF OneConnection
  <2> QED
    BY <2>1, <2>2, <2>3 DEF ProfilesInv
<1> QED
  BY <1>1, <1>2

LEMMA ProfilesInit == Init => ProfilesInv /\ OneConnection /\ Attended
<1> SUFFICES ASSUME Init PROVE ProfilesInv /\ OneConnection /\ Attended
  OBVIOUS
<1>1. /\ reg = disk /\ ghost.asked = {} /\ ghost.cut = {}
      /\ \A h \in Handle : inst[h] = None
      /\ \A k \in Conn : conn[k] = None
  BY DEF Init, GhostInit
<1> QED
  BY <1>1 DEF ProfilesInv, OneConnection, Attended

LEMMA ProfilesStep ==
  Base /\ RegistryInv /\ ProfilesInv /\ OneConnection /\ [Next]_vars
    => ProfilesInv' /\ OneConnection'
<1> SUFFICES ASSUME Base, RegistryInv, ProfilesInv, OneConnection, [Next]_vars
             PROVE  ProfilesInv' /\ OneConnection'
  OBVIOUS
<1> DEFINE Goal == ProfilesInv' /\ OneConnection'
<1>1. CASE UNCHANGED vars
  BY <1>1, ProfilesStay DEF vars
<1>2. CASE Quiet
  BY <1>2, QuietFrame, ProfilesStay
<1>3. ASSUME NEW o \in Op, Task(o) PROVE Goal
  <2>1. UNCHANGED <<registryVars, inst, up, ids, ghost>>
    <3>1. CASE Spawn(o) \/ PromptExpires(o) \/ PromptCancelled(o) \/ Decide(o)
               \/ AuthorizeRefused(o)
      BY <3>1 DEF Spawn, PromptExpires, PromptCancelled, Decide, AuthorizeRefused, OnlyWork
    <3>2. CASE EffectRefused(o) \/ EffectStarts(o) \/ StaleFound(o) \/ Replied(o) \/ Cut(o)
      BY <3>2 DEF EffectRefused, EffectStarts, StaleFound, Replied, Cut, WireOnly
    <3> QED
      BY <1>3, <3>1, <3>2 DEF Task
  <2> QED
    BY <2>1, ProfilesStay
<1>4. ASSUME NEW o \in Op, Admits(o) PROVE Goal
  <2>1. /\ UNCHANGED <<reg, disk, inst, up, ids, ghost>>
        /\ ~faulted' => ~faulted
    BY <1>4 DEF Admits, SecurePromptFill, SecureFill, Reserve, AuditFails
  <2> QED
    BY <2>1, ProfilesStay
<1>5. ASSUME NEW o \in Op, Aborted(o) \/ CancelFill(o) \/ Dispatch(o) \/ Complete(o)
      PROVE  Goal
  <2>1. /\ UNCHANGED <<reg, disk, inst, up, ids>> /\ ghost'.asked = ghost.asked
        /\ ghost'.cut = ghost.cut
    BY <1>5 DEF Aborted, CancelFill, Dispatch, WireOnly, Complete, Base, GhostTyped
  <2>2. \/ faulted' = faulted
        \/ \E audited \in BOOLEAN : faulted' = (faulted \/ ~audited)
    BY <1>5 DEF Aborted, CancelFill, Dispatch, WireOnly, Complete
  <2>3. ~faulted' => ~faulted
    BY <2>2
  <2> QED
    BY <2>1, <2>3, ProfilesStay
<1>6. CASE Forget \/ BindTargets \/ StopAll
  <2>1. /\ UNCHANGED <<reg, disk, faulted, up, ghost>> /\ ids'.handle = ids.handle
        /\ \A h \in Handle : inst'[h] \in {inst[h], None}
    BY <1>6 DEF Forget, BindTargets, StopAll, Removed, Base, ServiceTyped
  <2> QED
    BY <2>1, ProfilesStay
<1>7. ASSUME NEW t \in Target, Acts(t) PROVE Goal
  <2>1. /\ UNCHANGED <<reg, disk, faulted, up, ids, inst>> /\ ghost'.asked = ghost.asked
        /\ ghost'.cut = ghost.cut
    BY <1>7 DEF Acts, Base, GhostTyped
  <2> QED
    BY <2>1, ProfilesStay
<1> QED
  BY <1>1, <1>2, <1>3, <1>4, <1>5, <1>6, <1>7, NextCases, ProfilesCommit, ProfilesAuthorize,
     ProfilesRestart

LEMMA AttendedStep ==
  Base /\ ProfilesInv /\ Attended /\ [Next]_vars => Attended'
<1> SUFFICES ASSUME Base, ProfilesInv, Attended, [Next]_vars PROVE Attended'
  OBVIOUS
<1>1. ASSUME conn' = conn PROVE Attended'
  BY <1>1 DEF Attended
<1>2. ASSUME NEW k \in Conn, ConnEnds(k) PROVE Attended'
  BY <1>2 DEF ConnEnds, Attended, Base, PermitTyped
<1>3. ASSUME NEW k \in Conn, NEW s, conn[k] # None, ConnGoes(k, s),
             conn[k].step # "trusted" \/ s = "trusted"
      PROVE  Attended'
  <2>1. conn[k] \in Hello /\ conn' = [conn EXCEPT ![k] = [conn[k] EXCEPT !.step = s]]
    BY <1>3 DEF ConnGoes, Base, PermitTyped
  <2> QED
    BY <1>3, <2>1 DEF Attended, Base, PermitTyped, Hello
<1>4. ASSUME NEW k \in Conn, NEW c \in Client, NEW p \in Profile, NEW m \in BOOLEAN,
             NativeHello(k, c, p, m)
      PROVE  Attended'
  <2>1. PICK f \in BOOLEAN, s \in {"trusted", "asking"} :
          /\ f = (<<c, p>> \notin ghost.asked)
          /\ s = IF Approved(reg, c, p) THEN "trusted" ELSE "asking"
          /\ conn' = [conn EXCEPT ![k] = [client |-> c, profile |-> p, manual |-> m,
                                          fresh |-> f, step |-> s]]
    BY <1>4 DEF NativeHello
  <2>2. ASSUME s # "trusted", ~f PROVE m
    <3>1. <<c, p>> \in ghost.asked /\ c \in reg.peers /\ ~Approved(reg, c, p)
      BY <1>4, <2>1, <2>2 DEF NativeHello, Paired
    <3>2. PICK n \in reg.natives : n.owner = c /\ n.profile = p
      BY <3>1 DEF ProfilesInv, Known
    <3>3. n.allowed \/ m
      BY <1>4, <3>2 DEF NativeHello, Welcome, Known
    <3>4. n \in Native
      BY DEF Base, RegistryTyped, Registry
    <3>5. n.allowed => n = [owner |-> c, profile |-> p, allowed |-> TRUE]
      BY <3>2, <3>4 DEF Native
    <3> QED
      BY <3>1, <3>3, <3>5 DEF Approved
  <2>3. \A j \in Conn : j # k => conn'[j] = conn[j]
    BY <2>1 DEF Base, PermitTyped
  <2>4. conn'[k].manual = m /\ conn'[k].fresh = f /\ conn'[k].step = s
    BY <2>1 DEF Base, PermitTyped
  <2> QED
    BY <2>2, <2>3, <2>4 DEF Attended
<1>5. CASE UNCHANGED vars
  BY <1>1, <1>5 DEF vars
<1>6. CASE Quiet
  <2>1. ASSUME NEW k \in Conn, NativeAllowed(k) PROVE Attended'
    BY <1>3, <2>1 DEF NativeAllowed
  <2>2. ASSUME NEW k \in Conn, NativeEnds(k) PROVE Attended'
    BY <1>2, <2>2 DEF NativeEnds
  <2>3. ASSUME NEW h \in Handle, Greeted(h) \/ BrowserLost(h) \/ Navigate(h) PROVE conn' = conn
    BY <2>3 DEF Greeted, BrowserLost, Navigate
  <2>4. ASSUME NEW kind, NEW c, NEW t, NEW k, NEW origins, AdminBegin(kind, c, t, k, origins)
        PROVE  conn' = conn
    BY <2>4 DEF AdminBegin
  <2>5. CASE AdminAllowed \/ CdpConnected \/ AdminEnds \/ Signal \/ TargetsFound \/ TargetsFail
    BY <1>1, <2>5 DEF AdminAllowed, CdpConnected, AdminEnds, Signal, TargetsFound, TargetsFail
  <2>6. ASSUME NEW c \in Client, NEW h \in Handle, BrowserTargets(c, h) PROVE conn' = conn
    BY <2>6 DEF BrowserTargets
  <2> QED
    BY <1>1, <1>4, <1>6, <2>1, <2>2, <2>3, <2>4, <2>5, <2>6
    DEF Quiet, RegisterCdpBegin, RevokeBegin, ConfigureBegin
<1>7. CASE Commit
  <2>1. ASSUME NEW k \in Conn, NativeAsk(k) \/ NativeApprove(k) PROVE Attended'
    BY <1>2, <1>3, <2>1 DEF NativeAsk, NativeApprove
  <2>2. ASSUME NEW k \in Conn, NativeRegister(k) PROVE Attended'
    BY <1>2, <2>2 DEF NativeRegister
  <2>3. CASE Reap \/ RegisterCdpCommit \/ ConfigureCommit \/ RevokeCommit
    BY <1>1, <2>3 DEF Reap, RegisterCdpCommit, ConfigureCommit, RevokeCommit
  <2>4. ASSUME NEW c \in Client, NEW h \in Handle, DisconnectBrowser(c, h) PROVE conn' = conn
    BY <2>4 DEF DisconnectBrowser
  <2>5. ASSUME NEW c, NEW ss, NEW uses, Withdraw(c, ss, uses) PROVE conn' = conn
    BY <2>5 DEF Withdraw
  <2> QED
    BY <1>1, <1>7, <2>1, <2>2, <2>3, <2>4, <2>5 DEF Commit, RevokeConsent, ClearConsents
<1>8. ASSUME NEW o \in Op, Task(o) PROVE conn' = conn
  BY <1>8, TaskFrame
<1>9. ASSUME NEW o \in Op,
             Admits(o) \/ Aborted(o) \/ CancelFill(o) \/ Authorize(o) \/ Dispatch(o) \/ Complete(o)
      PROVE  conn' = conn
  BY <1>9 DEF Admits, SecurePromptFill, SecureFill, Reserve, Aborted, CancelFill, Authorize,
              Dispatch, WireOnly, Complete
<1>10. CASE Forget \/ BindTargets \/ StopAll \/ Restart
  BY <1>1, <1>10 DEF Forget, BindTargets, StopAll, Restart
<1>11. CASE Crash
  BY <1>11 DEF Crash, Attended
<1>12. ASSUME NEW t \in Target, Acts(t) PROVE conn' = conn
  BY <1>12 DEF Acts
<1> QED
  BY <1>1, <1>5, <1>6, <1>7, <1>8, <1>9, <1>10, <1>11, <1>12, NextCases

\* Connections greeted after a profile's first dialog, in this incarnation or a later
\* one, ask the human again only if a human pressed Retry.
THEOREM NoUnattendedLoopHolds == Spec => []NoUnattendedLoop
<1>1. Attended => NoUnattendedLoop
  BY DEF Attended, NoUnattendedLoop
<1> QED
  BY <1>1, BaseInit, BaseStep, RegistryInit, RegistryStep, ProfilesInit, ProfilesStep,
     AttendedStep, PTL DEF Spec

\* Once its client has disconnected a profile, it is attached and approved nowhere,
\* across crashes and restarts, before a human approves it again.
THEOREM DisconnectForgetsHolds == Spec => []DisconnectForgets
<1>1. ProfilesInv => DisconnectForgets
  BY DEF ProfilesInv, DisconnectForgets
<1> QED
  BY <1>1, BaseInit, BaseStep, RegistryInit, RegistryStep, ProfilesInit, ProfilesStep,
     PTL DEF Spec

-----------------------------------------------------------------------------
(* Withdrawn fills.  One whose decision is pending when it is withdrawn has  *)
(* lost its task, has its token fired, or was captured under an epoch that   *)
(* is gone: identities are never given to a client again while a fill that   *)
(* captured them lives.                                                      *)

Lapsed(o) ==
  /\ ticket[o] # None /\ ~ticket[o].prompted /\ ticket[o].existing = 0
  /\ epochs[ticket[o].owner] # ticket[o].epoch

VoidInv ==
  \A o \in ghost.void :
    job[o].state = "pending" /\ (pc[o] = "idle" \/ o \in cancel \/ Lapsed(o))

LEMMA VoidStays ==
  ASSUME Base, VoidInv, epochs' = epochs,
         \A o \in ghost'.void :
           /\ o \in ghost.void /\ job'[o].state = job[o].state
           /\ o \in cancel => o \in cancel'
           /\ pc'[o] = "idle" \/ (pc[o] # "idle" /\ ticket'[o] = ticket[o])
  PROVE  VoidInv'
<1> SUFFICES ASSUME NEW o \in ghost'.void
             PROVE  job'[o].state = "pending" /\ (pc'[o] = "idle" \/ o \in cancel' \/ Lapsed(o)')
  BY DEF VoidInv
<1>1. o \in ghost.void /\ job[o].state = "pending" /\ (pc[o] = "idle" \/ o \in cancel \/ Lapsed(o))
  BY DEF VoidInv
<1>2. CASE pc'[o] = "idle" \/ o \in cancel
  BY <1>1, <1>2
<1>3. CASE Lapsed(o) /\ ticket'[o] = ticket[o]
  BY <1>1, <1>3 DEF Lapsed
<1> QED
  BY <1>1, <1>2, <1>3

\* What a withdrawal does to the fills whose decision is pending.
LEMMA VoidWithdraws ==
  ASSUME Base, VoidInv, UNCHANGED <<job, pc, ticket>>, cancel \subseteq cancel', NEW c, NEW S,
         \/ epochs' = epochs
         \/ c \in Client /\ NewEpoch(c)
         \/ c \in Client /\ epochs' = [epochs EXCEPT ![c] = 0] /\ OwnOpen(c) \subseteq cancel',
         ghost'.void \in {ghost.void, Voids(S)},
         \/ S \subseteq cancel'
         \/ c \in Client /\ NewEpoch(c) /\ S \subseteq cancel' \cup Prompting(c)
  PROVE  VoidInv'
<1> SUFFICES ASSUME NEW o \in ghost'.void
             PROVE  job'[o].state = "pending" /\ (pc'[o] = "idle" \/ o \in cancel' \/ Lapsed(o)')
  BY DEF VoidInv
<1>1. job' = job /\ pc' = pc /\ ticket' = ticket
  OBVIOUS
<1>2. o \in ghost.void \/ (o \in S /\ o \in Jobs({"pending"}))
  BY DEF Voids
<1>3. o \in Op /\ job[o].state = "pending"
  BY <1>2 DEF Jobs, VoidInv, Base, GhostTyped
<1>4. ASSUME Lapsed(o), o \notin cancel' PROVE Lapsed(o)'
  <2>1. ticket[o] \in Ticket /\ ticket[o].owner \in Client /\ pc[o] # "idle"
        /\ job[o].owner = ticket[o].owner
    BY <1>3, <1>4 DEF Lapsed, Base, WorkTyped, Captured, Ticket
  <2>2. CASE epochs' = epochs
    BY <1>1, <1>4, <2>2 DEF Lapsed
  <2>3. CASE c \in Client /\ NewEpoch(c)
    <3>1. PICK e \in Epochs : epochs' = [epochs EXCEPT ![c] = e] /\ ticket[o].epoch # e
      BY <1>3, <1>4, <2>3 DEF NewEpoch, Lapsed
    <3>2. epochs'[ticket[o].owner] \in {e, epochs[ticket[o].owner]}
      BY <2>1, <2>3, <3>1 DEF Base, RegistryTyped
    <3> QED
      BY <1>1, <1>4, <3>1, <3>2 DEF Lapsed
  <2>4. CASE c \in Client /\ epochs' = [epochs EXCEPT ![c] = 0] /\ OwnOpen(c) \subseteq cancel'
    <3>1. ticket[o].owner # c
      BY <1>3, <1>4, <2>1, <2>4 DEF OwnOpen, Open, Jobs
    <3>2. epochs'[ticket[o].owner] = epochs[ticket[o].owner]
      BY <2>1, <2>4, <3>1 DEF Base, RegistryTyped
    <3> QED
      BY <1>1, <1>4, <3>2 DEF Lapsed
  <2> QED
    BY <2>2, <2>3, <2>4
<1>5. CASE o \in ghost.void
  BY <1>1, <1>3, <1>4, <1>5 DEF VoidInv
<1>6. CASE o \in S /\ o \notin cancel'
  <2>1. c \in Client /\ NewEpoch(c) /\ o \in Prompting(c)
    BY <1>6
  <2>2. ticket[o] # None /\ ~ticket[o].prompted /\ ticket[o].existing = 0 /\ job[o].owner = c
    BY <2>1 DEF Prompting, OwnOpen
  <2>3. ticket[o].owner = c
    BY <1>3, <2>2 DEF Base, Captured, WorkTyped
  <2>4. PICK e \in Epochs : epochs' = [epochs EXCEPT ![c] = e] /\ ticket[o].epoch # e
    BY <1>3, <2>1, <2>2 DEF NewEpoch
  <2>5. epochs'[c] = e
    BY <2>1, <2>4 DEF Base, RegistryTyped
  <2> QED
    BY <1>1, <1>3, <2>2, <2>3, <2>4, <2>5 DEF Lapsed
<1> QED
  BY <1>1, <1>2, <1>3, <1>5, <1>6

LEMMA VoidCommit ==
  ASSUME Base, VoidInv, Commit
  PROVE  VoidInv'
<1>1. UNCHANGED <<job, pc, ticket>>
  BY CommitFrame
<1>2. CASE Reap
  <2>1. epochs' = epochs /\ cancel' = cancel \cup ReapedFills /\ ghost'.void = Voids(ReapedFills)
    BY <1>2 DEF Reap, Base, GhostTyped
  <2> QED
    BY <1>1, <2>1, VoidWithdraws
<1>3. ASSUME NEW k \in Conn, NativeAsk(k) \/ NativeApprove(k) \/ NativeRegister(k)
      PROVE  VoidInv'
  <2>1. epochs' = epochs /\ cancel' = cancel /\ ghost'.void = ghost.void
    BY <1>3 DEF NativeAsk, NativeApprove, NativeRegister, Base, GhostTyped
  <2> QED
    BY <1>1, <2>1, VoidWithdraws
<1>4. CASE RegisterCdpCommit
  <2>1. epochs' = epochs /\ cancel' = cancel /\ ghost'.void = ghost.void
    BY <1>4 DEF RegisterCdpCommit
  <2> QED
    BY <1>1, <2>1, VoidWithdraws
<1>5. CASE ConfigureCommit
  <2> DEFINE c == admin.client
  <2>1. c \in Client
    BY <1>5 DEF ConfigureCommit, AdminCommits, Base, PermitTyped, Admin
  <2>2. CASE UNCHANGED <<epochs, cancel, ghost>>
    BY <1>1, <2>2, VoidWithdraws
  <2>3. CASE ~UNCHANGED <<epochs, cancel, ghost>>
    <3>1. NewEpoch(c) /\ cancel' = cancel \cup OwnOpen(c) /\ ghost'.void = Voids(OwnOpen(c))
      BY <1>5, <2>3 DEF ConfigureCommit, Base, GhostTyped
    <3> QED
      BY <1>1, <2>1, <3>1, VoidWithdraws
  <2> QED
    BY <2>2, <2>3
<1>6. CASE RevokeCommit
  <2> DEFINE c == admin.target
  <2>1. c \in Client
    BY <1>6 DEF RevokeCommit, AdminCommits, Base, PermitTyped, Admin
  <2>2. CASE UNCHANGED <<epochs, cancel, ghost>>
    BY <1>1, <2>2, VoidWithdraws
  <2>3. CASE ~UNCHANGED <<epochs, cancel, ghost>>
    <3>1. epochs' = [epochs EXCEPT ![c] = 0] /\ cancel' = cancel \cup OwnOpen(c)
          /\ ghost'.void = Voids(OwnOpen(c))
      BY <1>6, <2>3 DEF RevokeCommit, Base, GhostTyped
    <3> QED
      BY <1>1, <2>1, <3>1, VoidWithdraws
  <2> QED
    BY <2>2, <2>3
<1>7. ASSUME NEW c \in Client, NEW h \in Handle, DisconnectBrowser(c, h) PROVE VoidInv'
  <2> DEFINE mine == {o \in Open : job[o].browser = h}
  <2>1. NewEpoch(c)
    BY <1>7 DEF DisconnectBrowser
  <2>2. \/ cancel' = cancel /\ ghost'.void = Voids(Prompting(c))
        \/ cancel' = cancel \cup mine /\ ghost'.void = Voids(mine \cup Prompting(c))
    BY <1>7 DEF DisconnectBrowser, Base, GhostTyped
  <2> HIDE DEF mine
  <2>3. CASE cancel' = cancel /\ ghost'.void = Voids(Prompting(c))
    BY <1>1, <2>1, <2>3, VoidWithdraws
  <2>4. CASE cancel' = cancel \cup mine /\ ghost'.void = Voids(mine \cup Prompting(c))
    BY <1>1, <2>1, <2>4, VoidWithdraws
  <2> QED
    BY <2>2, <2>3, <2>4
<1>8. ASSUME NEW c \in Client, NEW ss, NEW uses, Withdraw(c, ss, uses) PROVE VoidInv'
  <2>1. CASE UNCHANGED <<epochs, cancel, ghost>>
    BY <1>1, <2>1, VoidWithdraws
  <2>2. CASE ~UNCHANGED <<epochs, cancel, ghost>>
    <3>1. NewEpoch(c) /\ cancel' = cancel \cup uses /\ ghost'.void = Voids(uses \cup Prompting(c))
      BY <1>8, <2>2 DEF Withdraw, Base, GhostTyped
    <3> QED
      BY <1>1, <3>1, VoidWithdraws
  <2> QED
    BY <2>1, <2>2
<1> QED
  BY <1>2, <1>3, <1>4, <1>5, <1>6, <1>7, <1>8 DEF Commit, RevokeConsent, ClearConsents

LEMMA VoidFill ==
  ASSUME Base, VoidInv, NEW o \in Op,
         \/ Task(o) \/ Admits(o) \/ Aborted(o) \/ CancelFill(o)
         \/ Authorize(o) \/ Dispatch(o) \/ Complete(o)
  PROVE  VoidInv'
<1>1. ghost.void \subseteq Op
  BY DEF Base, GhostTyped
<1>2. CASE Task(o)
  BY <1>1, <1>2, TaskFrame, VoidStays DEF Base, WorkTyped
<1>3. CASE Admits(o)
  <2>1. PICK c \in Client, t \in Target, prompted \in BOOLEAN, creds \in SUBSET Cred :
          Reserve(o, c, t, prompted, creds)
    BY <1>3, AdmitCases
  <2>2. /\ UNCHANGED <<ghost, cancel, epochs>> /\ job[o].state = "none"
        /\ \A q \in Op : q # o => job'[q] = job[q] /\ pc'[q] = pc[q] /\ ticket'[q] = ticket[q]
    BY <2>1 DEF Reserve, Fresh, Base, WorkTyped, TableTyped
  <2>3. o \notin ghost.void
    BY <2>2 DEF VoidInv
  <2> QED
    BY <1>1, <2>2, <2>3, VoidStays
<1>4. CASE Aborted(o)
  BY <1>1, <1>4, VoidStays DEF Aborted, Base, WorkTyped
<1>5. CASE CancelFill(o)
  <2>1. epochs' = epochs /\ cancel' = cancel \cup {o} /\ ghost'.void = Voids({o})
        /\ UNCHANGED <<job, pc, ticket>>
    BY <1>5 DEF CancelFill, Base, GhostTyped
  <2> QED
    BY <2>1, VoidWithdraws
<1>6. CASE Authorize(o)
  <2>1. /\ Authorizable(o) /\ UNCHANGED <<ghost, cancel, epochs, ticket>>
        /\ \A q \in Op : q # o => job'[q] = job[q]
        /\ pc[o] # "idle" /\ \A q \in Op : q # o => pc'[q] = pc[q]
    BY <1>6 DEF Authorize, Authorizable, Settle, Base, WorkTyped, TableTyped
  <2>2. o \notin ghost.void
    <3>1. o \notin cancel /\ ~Lapsed(o)
      BY <2>1 DEF Authorizable, Cancelled, Lapsed, ConsentStands
    <3> QED
      BY <2>1, <3>1 DEF VoidInv
  <2> QED
    BY <1>1, <2>1, <2>2, VoidStays
<1>7. CASE Dispatch(o)
  <2>1. UNCHANGED <<epochs, cancel, ticket, job>> /\ ghost'.void = ghost.void
        /\ pc[o] # "idle" /\ \A q \in Op : q # o => pc'[q] = pc[q]
    BY <1>7 DEF Dispatch, WireOnly, Base, GhostTyped, WorkTyped
  <2> QED
    BY <1>1, <2>1, VoidStays
<1>8. CASE Complete(o)
  <2>1. /\ epochs' = epochs /\ ghost'.void = ghost.void \ {o} /\ cancel' = cancel \ {o}
        /\ \A q \in Op : q # o => job'[q] = job[q] /\ pc'[q] = pc[q] /\ ticket'[q] = ticket[q]
    BY <1>8 DEF Complete, Base, GhostTyped, WorkTyped, TableTyped
  <2> QED
    BY <1>1, <2>1, VoidStays
<1> QED
  BY <1>2, <1>3, <1>4, <1>5, <1>6, <1>7, <1>8

LEMMA VoidInit == Init => VoidInv
  BY DEF Init, GhostInit, VoidInv

LEMMA VoidStep == Base /\ VoidInv /\ [Next]_vars => VoidInv'
<1> SUFFICES ASSUME Base, VoidInv, [Next]_vars PROVE VoidInv'
  OBVIOUS
<1>1. CASE UNCHANGED vars
  BY <1>1, VoidStays DEF vars
<1>2. CASE Quiet
  BY <1>2, QuietFrame, VoidStays
<1>3. CASE Forget
  <2>1. UNCHANGED <<registryVars, workVars, ghost>>
        /\ \A o \in Op : job[o].state = "pending" => job'[o] = job[o]
    BY <1>3 DEF Forget, Jobs, Base, TableTyped
  <2>2. \A o \in ghost.void : o \in Op /\ job[o].state = "pending"
    BY DEF VoidInv, Base, GhostTyped
  <2> QED
    BY <2>1, <2>2, VoidStays
<1>4. CASE BindTargets \/ StopAll \/ Restart
  BY <1>4, VoidStays DEF BindTargets, StopAll, Restart
<1>5. CASE Crash
  BY <1>5 DEF Crash, VoidInv, Base, GhostTyped
<1>6. ASSUME NEW t \in Target, Acts(t) PROVE VoidInv'
  <2>1. UNCHANGED <<registryVars, job, workVars>> /\ ghost'.void = ghost.void
    BY <1>6 DEF Acts, Base, GhostTyped
  <2> QED
    BY <2>1, VoidStays
<1> QED
  BY <1>1, <1>2, <1>3, <1>4, <1>5, <1>6, NextCases, VoidCommit, VoidFill

\* A fill withdrawn while its decision was pending never gets its material:
\* cancelled, its connection gone, its policy changed, its consents reset.
THEOREM VoidNeverFillsHolds == Spec => []VoidNeverFills
<1>1. Base /\ HandleInv /\ VoidInv => VoidNeverFills
  BY DEF Base, GhostTyped, HandleInv, VoidInv, VoidNeverFills
<1> QED
  BY <1>1, BaseInit, BaseStep, HandleInit, HandleStep, VoidInit, VoidStep, PTL DEF Spec

-----------------------------------------------------------------------------
(* Handles.  A handle names one connection for ever: the connection goes,    *)
(* its adapter stops for good, and no other takes its place.                 *)

HandlesMove ==
  /\ ids.handle \in Nat /\ ids'.handle \in Nat /\ ids.handle <= ids'.handle
  /\ \A h \in Handle : h < ids.handle =>
       /\ inst'[h] \in {inst[h], None}
       /\ link'[h] # "stopped" => link[h] # "stopped"

LEMMA HandlesGo ==
  ASSUME Base, ids'.handle = ids.handle,
         \A h \in Handle : /\ inst'[h] \in {inst[h], None}
                           /\ link'[h] # "stopped" => link[h] # "stopped"
  PROVE  HandlesMove
  BY Bounds DEF HandlesMove, Base, ServiceTyped

LEMMA HandlesNew ==
  ASSUME Base, NEW c \in Client, NEW p \in Profile \cup {None}, NEW l \in Link,
         NewHandle(c, p, l)
  PROVE  HandlesMove
<1>1. ids.handle \in Nat /\ ids'.handle = ids.handle + 1
  BY NewHandleTyped, Bounds DEF Base, ServiceTyped
<1>2. \A h \in Handle : h < ids.handle => h # ids.handle
  BY <1>1 DEF Handle
<1>3. \A h \in Handle : h # ids.handle => inst'[h] = inst[h] /\ link'[h] = link[h]
  BY DEF NewHandle, Base, TableTyped, WireTyped
<1> QED
  BY <1>1, <1>2, <1>3 DEF HandlesMove

LEMMA HandlesCommit ==
  ASSUME Base, Commit
  PROVE  HandlesMove
<1>1. CASE Reap
  BY <1>1, HandlesGo DEF Reap
<1>2. ASSUME NEW k \in Conn, NativeAsk(k) \/ NativeApprove(k) PROVE HandlesMove
  BY <1>2, HandlesGo DEF NativeAsk, NativeApprove
<1>3. ASSUME NEW k \in Conn, NativeRegister(k) PROVE HandlesMove
  <2>1. conn[k].client \in Client /\ conn[k].profile \in Profile
    BY <1>3 DEF NativeRegister, Base, PermitTyped, Hello
  <2>2. CASE UNCHANGED <<inst, link, ids>>
    BY <2>2, HandlesGo
  <2> QED
    BY <1>3, <2>1, <2>2, HandlesNew DEF NativeRegister
<1>4. CASE RegisterCdpCommit
  <2>1. admin.client \in Client
    BY <1>4 DEF RegisterCdpCommit, AdminCommits, Base, PermitTyped, Admin
  <2>2. CASE UNCHANGED <<inst, link, ids>>
    BY <2>2, HandlesGo
  <2> QED
    BY <1>4, <2>1, <2>2, HandlesNew DEF RegisterCdpCommit
<1>5. CASE ConfigureCommit \/ RevokeCommit
  BY <1>5, HandlesGo DEF ConfigureCommit, RevokeCommit, Removed, Stopped
<1>6. ASSUME NEW c \in Client, NEW h \in Handle, DisconnectBrowser(c, h) PROVE HandlesMove
  BY <1>6, HandlesGo DEF DisconnectBrowser, Removed, Stopped
<1>7. ASSUME NEW c \in Client, NEW ss, NEW uses, Withdraw(c, ss, uses) PROVE HandlesMove
  BY <1>7, HandlesGo DEF Withdraw
<1> QED
  BY <1>1, <1>2, <1>3, <1>4, <1>5, <1>6, <1>7 DEF Commit, RevokeConsent, ClearConsents

LEMMA HandlesStep ==
  ASSUME Base, Next
  PROVE  HandlesMove
<1>1. CASE Quiet
  <2>1. inst' = inst /\ ids' = ids
    BY <1>1, QuietFrame
  <2>2. \A h \in Handle : link'[h] # "stopped" => link[h] # "stopped"
    <3> DEFINE Goal == \A h \in Handle : link'[h] # "stopped" => link[h] # "stopped"
    <3> USE DEF Base, WireTyped
    <3>1. ASSUME NEW h \in Handle, Greeted(h) \/ BrowserLost(h) PROVE Goal
      BY <3>1 DEF Greeted, BrowserLost
    <3>2. CASE TargetsFail
      BY <3>2 DEF TargetsFail, Stopped
    <3>3. ASSUME NEW k \in Conn, NEW c \in Client, NEW p \in Profile, NEW m \in BOOLEAN,
                 NativeHello(k, c, p, m)
          PROVE  Goal
      BY <3>3 DEF NativeHello
    <3>4. ASSUME NEW k \in Conn, NativeAllowed(k) \/ NativeEnds(k) PROVE Goal
      BY <3>4 DEF NativeAllowed, NativeEnds
    <3>5. ASSUME NEW h \in Handle, Navigate(h) PROVE Goal
      BY <3>5 DEF Navigate
    <3>6. ASSUME NEW kind, NEW c, NEW t, NEW k, NEW origins, AdminBegin(kind, c, t, k, origins)
          PROVE  Goal
      BY <3>6 DEF AdminBegin
    <3>7. CASE AdminAllowed \/ CdpConnected \/ AdminEnds \/ Signal \/ TargetsFound
      BY <3>7 DEF AdminAllowed, CdpConnected, AdminEnds, Signal, TargetsFound
    <3>8. ASSUME NEW c \in Client, NEW h \in Handle, BrowserTargets(c, h) PROVE Goal
      BY <3>8 DEF BrowserTargets
    <3> QED
      BY <1>1, <3>1, <3>2, <3>3, <3>4, <3>5, <3>6, <3>7, <3>8
      DEF Quiet, RegisterCdpBegin, RevokeBegin, ConfigureBegin
  <2> QED
    BY <2>1, <2>2, HandlesGo
<1>2. ASSUME NEW o \in Op, Task(o) PROVE HandlesMove
  <2>1. inst' = inst /\ ids' = ids
    BY <1>2 DEF Task, Spawn, PromptExpires, PromptCancelled, Decide, AuthorizeRefused, OnlyWork,
                EffectRefused, EffectStarts, StaleFound, Replied, Cut, WireOnly
  <2>2. \A h \in Handle : link'[h] # "stopped" => link[h] # "stopped"
    BY <1>2 DEF Task, Spawn, PromptExpires, PromptCancelled, Decide, AuthorizeRefused, OnlyWork,
                EffectRefused, EffectStarts, StaleFound, Replied, Cut, Stopped
  <2> QED
    BY <2>1, <2>2, HandlesGo
<1>3. ASSUME NEW o \in Op, Admits(o) \/ Aborted(o) \/ CancelFill(o) PROVE HandlesMove
  BY <1>3, HandlesGo DEF Admits, SecurePromptFill, SecureFill, Reserve, Aborted, CancelFill
<1>4. ASSUME NEW o \in Op, Authorize(o) \/ Dispatch(o) \/ Complete(o) PROVE HandlesMove
  <2>1. inst' = inst /\ link' = link /\ ids'.handle = ids.handle
    BY <1>4 DEF Authorize, Remembers, Dispatch, WireOnly, Complete, Base, ServiceTyped
  <2> QED
    BY <2>1, HandlesGo
<1>5. CASE Forget \/ BindTargets \/ StopAll
  <2>1. ids'.handle = ids.handle
    BY <1>5 DEF Forget, BindTargets, StopAll, Base, ServiceTyped
  <2> QED
    BY <1>5, <2>1, HandlesGo DEF Forget, BindTargets, StopAll, Removed, Stopped
<1>6. CASE Crash \/ Restart
  BY <1>6, HandlesGo DEF Crash, Restart
<1>7. ASSUME NEW t \in Target, Acts(t) PROVE HandlesMove
  BY <1>7, HandlesGo DEF Acts
<1> QED
  BY <1>1, <1>2, <1>3, <1>4, <1>5, <1>6, <1>7, NextCases, HandlesCommit

-----------------------------------------------------------------------------
(* What a discovery, a target handle and a ticket say of their connection    *)
(* stays true as long as the connection lives.                               *)

Belongs(h, c) == h < ids.handle /\ (inst[h] # None => inst[h].owner = c)

\* The scope of a ticket names the connection, or the profile behind it.
Rests(t) ==
  /\ Belongs(t.browser, t.owner)
  /\ inst[t.browser] # None =>
       t.scope.who = IF inst[t.browser].profile = None THEN t.browser
                                                       ELSE inst[t.browser].profile
  /\ t.scope.who \in Handle => t.scope.who = t.browser
  /\ t.prompted => t.existing = 0

PlaceInv ==
  /\ probe # None => Belongs(probe.browser, probe.client)
  /\ \A t \in Target : bound[t] # None => Belongs(bound[t].browser, bound[t].owner)
  /\ \A o \in Op : ticket[o] # None => Rests(ticket[o])

LEMMA BelongsStays ==
  ASSUME HandlesMove, NEW h \in Handle, NEW c, Belongs(h, c)
  PROVE  h < ids'.handle /\ (inst'[h] # None => inst'[h].owner = c)
<1>1. h \in Nat
  BY DEF Handle
<1> QED
  BY <1>1 DEF HandlesMove, Belongs

LEMMA RestsStays ==
  ASSUME HandlesMove, NEW t \in Ticket, Rests(t)
  PROVE  Rests(t)'
<1>1. t.browser \in Handle /\ t.browser < ids.handle
  BY DEF Rests, Belongs, Ticket
<1>2. Belongs(t.browser, t.owner)'
  BY <1>1, BelongsStays DEF Rests, Belongs
<1>3. inst'[t.browser] \in {inst[t.browser], None}
  BY <1>1 DEF HandlesMove
<1> QED
  BY <1>2, <1>3 DEF Rests

LEMMA PlaceStays ==
  ASSUME Base, PlaceInv, HandlesMove,
         probe' # None => probe # None /\ probe'.browser = probe.browser /\ probe'.client = probe.client,
         \A t \in Target : bound'[t] \in {bound[t], None},
         \A o \in Op : ticket'[o] \in {ticket[o], None}
  PROVE  PlaceInv'
<1>1. probe' # None => Belongs(probe.browser, probe.client)'
  BY BelongsStays DEF PlaceInv, Base, PermitTyped, Probe, Belongs
<1>2. ASSUME NEW t \in Target, bound'[t] # None PROVE Belongs(bound[t].browser, bound[t].owner)'
  <2>1. bound'[t] = bound[t] /\ bound[t] \in Bound /\ Belongs(bound[t].browser, bound[t].owner)
    BY <1>2 DEF PlaceInv, Base, TableTyped
  <2>2. bound[t].browser \in Handle
    BY <2>1 DEF Bound
  <2> QED
    BY <2>1, <2>2, BelongsStays DEF Belongs
<1>3. ASSUME NEW o \in Op, ticket'[o] # None PROVE Rests(ticket[o])'
  <2>1. ticket'[o] = ticket[o] /\ ticket[o] \in Ticket /\ Rests(ticket[o])
    BY <1>3 DEF PlaceInv, Base, WorkTyped
  <2>2. PICK t \in Ticket : t = ticket[o] /\ t = ticket'[o] /\ Rests(t)
    BY <2>1
  <2> QED
    BY <2>2, RestsStays
<1> QED
  BY <1>1, <1>2, <1>3 DEF PlaceInv, Belongs

LEMMA PlaceQuiet ==
  ASSUME Base, OneConnection, PlaceInv, HandlesMove, Quiet
  PROVE  PlaceInv'
<1>1. bound' = bound /\ ticket' = ticket /\ inst' = inst /\ ids' = ids
  BY QuietFrame
<1>2. CASE \E c \in Client, h \in Handle : BrowserTargets(c, h)
  <2>1. PICK c \in Client, h \in Handle : BrowserTargets(c, h)
    BY <1>2
  <2>2. inst[h] # None /\ inst[h].owner = c /\ probe'.browser = h /\ probe'.client = c
    BY <2>1 DEF BrowserTargets
  <2>3. Belongs(h, c)
    BY <2>2 DEF OneConnection, Belongs
  <2>4. PlaceInv'
    <3>1. \A o \in Op : ticket[o] # None => Rests(ticket[o])'
      BY <1>1 DEF PlaceInv, Rests, Belongs
    <3>2. \A t \in Target : bound[t] # None => Belongs(bound[t].browser, bound[t].owner)'
      BY <1>1 DEF PlaceInv, Belongs
    <3>3. Belongs(probe.browser, probe.client)'
      BY <1>1, <2>2, <2>3 DEF Belongs
    <3> QED
      BY <1>1, <3>1, <3>2, <3>3 DEF PlaceInv
  <2> QED
    BY <2>4
<1>3. CASE ~\E c \in Client, h \in Handle : BrowserTargets(c, h)
  <2> DEFINE Goal == probe' # None =>
                       /\ probe # None
                       /\ probe'.browser = probe.browser /\ probe'.client = probe.client
  <2>1. ASSUME NEW k \in Conn, NEW c \in Client, NEW p \in Profile, NEW m \in BOOLEAN,
               NativeHello(k, c, p, m)
        PROVE  Goal
    BY <2>1 DEF NativeHello
  <2>2. ASSUME NEW k \in Conn, NativeAllowed(k) \/ NativeEnds(k) PROVE Goal
    BY <2>2 DEF NativeAllowed, NativeEnds
  <2>3. ASSUME NEW h \in Handle, Greeted(h) \/ BrowserLost(h) \/ Navigate(h) PROVE Goal
    BY <2>3 DEF Greeted, BrowserLost, Navigate
  <2>4. ASSUME NEW kind, NEW c, NEW t, NEW k, NEW origins, AdminBegin(kind, c, t, k, origins)
        PROVE  Goal
    BY <2>4 DEF AdminBegin
  <2>5. ASSUME AdminAllowed \/ CdpConnected \/ AdminEnds \/ Signal \/ TargetsFail PROVE Goal
    BY <2>5 DEF AdminAllowed, CdpConnected, AdminEnds, Signal, TargetsFail
  <2>6. ASSUME TargetsFound PROVE Goal
    BY <2>6 DEF TargetsFound, Base, PermitTyped, Probe
  <2>7. Goal
    BY <1>3, <2>1, <2>2, <2>3, <2>4, <2>5, <2>6
    DEF Quiet, RegisterCdpBegin, RevokeBegin, ConfigureBegin
  <2> QED
    BY <1>1, <2>7, PlaceStays
<1> QED
  BY <1>2, <1>3

LEMMA PlaceAdmits ==
  ASSUME Base, RegistryInv, PlaceInv, HandlesMove, NEW o \in Op, Admits(o)
  PROVE  PlaceInv'
<1>1. PICK c \in Client, t \in Target, prompted \in BOOLEAN, creds \in SUBSET Cred :
        /\ Reserve(o, c, t, prompted, creds)
        /\ bound[t] \in Bound /\ bound[t].owner = c /\ inst[bound[t].browser] \in Instance
        /\ prompted => creds = {}
  BY AdmitCases
<1>2. inst' = inst /\ ids' = ids /\ probe' = probe
  BY <1>1 DEF Reserve
<1>3. CASE UNCHANGED <<bound, ticket>>
  BY <1>2, <1>3, PlaceStays
<1>4. CASE ~UNCHANGED <<bound, ticket>>
  <2>1. PICK b \in Bound : b = bound[t]
    BY <1>1
  <2>2. PICK s : s = ScopeOf(b.browser, b.doc, creds)
    OBVIOUS
  <2>3. PICK g \in IF Covering(c, s) = {} THEN {0} ELSE {x.id : x \in Covering(c, s)} :
          ticket' = [ticket EXCEPT ![o] =
            [owner |-> c, browser |-> b.browser, doc |-> b.doc, prompted |-> prompted,
             scope |-> s, existing |-> g, epoch |-> epochs[c]]]
    BY <1>1, <1>4, <2>1, <2>2 DEF Reserve
  <2>4. bound' = [bound EXCEPT ![t] = None]
    BY <1>1, <1>4 DEF Reserve, ConsumesHandle
  <2>5. /\ ticket'[o].owner = c /\ ticket'[o].browser = b.browser
        /\ ticket'[o].prompted = prompted /\ ticket'[o].scope = s /\ ticket'[o].existing = g
    BY <2>3 DEF Base, WorkTyped
  <2>6. prompted => g = 0
    <3>1. prompted => s.creds = {}
      BY <1>1, <2>2 DEF ScopeOf
    <3>2. \A x \in Covering(c, s) : s.creds # {}
      BY DEF Covering, RegistryInv, Coherent, ConsentsOk, ValidScope
    <3> QED
      BY <2>3, <3>1, <3>2
  <2>7. /\ Belongs(b.browser, c) /\ inst[b.browser] \in Instance /\ b.browser \in Handle
        /\ inst[b.browser] # None
    BY <1>1, <2>1, NoneAssumption DEF PlaceInv, Bound
  <2>8. /\ s.who = IF inst[b.browser].profile = None THEN b.browser ELSE inst[b.browser].profile
        /\ s.who \in Handle => s.who = b.browser
    <3>1. s.who = IF inst[b.browser].profile = None THEN b.browser ELSE inst[b.browser].profile
      BY <2>2 DEF ScopeOf
    <3>2. inst[b.browser].profile # None => inst[b.browser].profile \notin Handle
      BY <2>7, BrowserAssumption DEF Instance
    <3> QED
      BY <3>1, <3>2
  <2>9. Rests(ticket[o])'
    BY <1>2, <2>5, <2>6, <2>7, <2>8 DEF Rests, Belongs
  <2>10. ASSUME NEW q \in Op, q # o, ticket'[q] # None PROVE Rests(ticket[q])'
    <3>1. ticket'[q] = ticket[q]
      BY <2>3, <2>10 DEF Base, WorkTyped
    <3> QED
      BY <1>2, <2>10, <3>1 DEF PlaceInv, Rests, Belongs
  <2>11. \A x \in Target : bound'[x] # None => Belongs(bound[x].browser, bound[x].owner)'
    BY <1>2, <2>4 DEF PlaceInv, Belongs, Base, TableTyped
  <2> QED
    BY <1>2, <2>9, <2>10, <2>11 DEF PlaceInv, Belongs
<1> QED
  BY <1>3, <1>4

LEMMA PlaceBind ==
  ASSUME Base, PlaceInv, HandlesMove, BindTargets
  PROVE  PlaceInv'
<1>1. inst' = inst /\ ids'.handle = ids.handle /\ ticket' = ticket /\ probe' = None
  BY DEF BindTargets, Base, ServiceTyped
<1>2. Belongs(probe.browser, probe.client)
  BY DEF BindTargets, PlaceInv
<1>3. \A x \in Target : \/ bound'[x] \in {bound[x], None}
                        \/ /\ bound'[x].browser = probe.browser
                           /\ bound'[x].owner = probe.client
  BY DEF BindTargets, Rebound, Unbound
<1>4. \A x \in Target : bound'[x] # None => Belongs(bound[x].browser, bound[x].owner)'
  BY <1>1, <1>2, <1>3 DEF PlaceInv, Belongs
<1>5. \A o \in Op : ticket'[o] # None => Rests(ticket[o])'
  BY <1>1 DEF PlaceInv, Rests, Belongs
<1> QED
  BY <1>1, <1>4, <1>5 DEF PlaceInv

LEMMA PlaceInit == Init => PlaceInv
  BY DEF Init, PlaceInv

LEMMA PlaceStep ==
  Base /\ RegistryInv /\ OneConnection /\ PlaceInv /\ [Next]_vars => PlaceInv'
<1> SUFFICES ASSUME Base, RegistryInv, OneConnection, PlaceInv, [Next]_vars PROVE PlaceInv'
  OBVIOUS
<1>1. CASE UNCHANGED vars
  <2>1. HandlesMove
    BY <1>1, HandlesGo DEF vars
  <2> QED
    BY <1>1, <2>1, PlaceStays DEF vars
<1>2. CASE Next
  <2>1. HandlesMove
    BY <1>2, HandlesStep
  <2>2. CASE Commit
    BY <2>1, <2>2, CommitFrame, CommitHandles, PlaceStays
  <2>3. ASSUME NEW o \in Op, Task(o) PROVE PlaceInv'
    <3>1. bound' = bound /\ ticket' = ticket /\ probe' = probe
      BY <2>3, TaskFrame
    <3> QED
      BY <2>1, <3>1, PlaceStays
  <2>4. ASSUME NEW o \in Op, Aborted(o) \/ CancelFill(o) \/ Authorize(o) \/ Dispatch(o) \/ Complete(o)
        PROVE  PlaceInv'
    <3>1. /\ bound' = bound /\ probe' = probe
          /\ \A q \in Op : ticket'[q] \in {ticket[q], None}
      BY <2>4 DEF Aborted, CancelFill, Authorize, Dispatch, WireOnly, Complete, Base, WorkTyped
    <3> QED
      BY <2>1, <3>1, PlaceStays
  <2>5. CASE Forget
    <3>1. /\ ticket' = ticket /\ probe' = probe
          /\ \A t \in Target : bound'[t] \in {bound[t], None}
      BY <2>5 DEF Forget, Base, TableTyped
    <3> QED
      BY <2>1, <3>1, PlaceStays
  <2>6. CASE StopAll \/ Crash \/ Restart
    BY <2>1, <2>6, PlaceStays DEF StopAll, Crash, Restart
  <2>7. ASSUME NEW t \in Target, Acts(t) PROVE PlaceInv'
    BY <2>1, <2>7, PlaceStays DEF Acts
  <2> QED
    BY <1>2, <2>1, <2>2, <2>3, <2>4, <2>5, <2>6, <2>7, NextCases, PlaceQuiet, PlaceAdmits,
       PlaceBind
<1> QED
  BY <1>1, <1>2

-----------------------------------------------------------------------------
(* Authority.  From its release until the adapter takes it up, a fill rests  *)
(* on what released it, or its token has fired, or its adapter has stopped.  *)

Standing(t) ==
  /\ t.owner \in reg.peers
  /\ Permitted(t)
  /\ t.existing # 0 => \E g \in Covering(t.owner, t.scope) : g.id = t.existing

StandsInv ==
  /\ ~up => \A o \in Op : pc[o] = "idle"
  /\ \A o \in Op : pc[o] = "effect" /\ o \notin cancel =>
       /\ inst[At(o)] # None
       /\ link[At(o)] # "stopped" => Standing(ticket[o])

\* A step leaves what a ticket rests on.
Keeps(t) ==
  /\ t.owner \in reg'.peers
  /\ \A p \in reg.perms : p.owner = t.owner => p \in reg'.perms
  /\ t.existing # 0 => Covering(t.owner, t.scope) \subseteq reg'.consents

LEMMA KeepsStanding ==
  ASSUME NEW t, Standing(t), Keeps(t)
  PROVE  Standing(t)'
<1>1. Permitted(t)'
  BY DEF Standing, Keeps, Permitted, Allowed
<1>2. t.existing # 0 => \E g \in Covering(t.owner, t.scope)' : g.id = t.existing
  BY DEF Standing, Keeps, Covering
<1> QED
  BY <1>1, <1>2 DEF Standing, Keeps

LEMMA StandsStay ==
  ASSUME StandsInv, ~up' => \A o \in Op : pc'[o] = "idle",
         \A o \in Op : pc'[o] = "effect" /\ o \notin cancel' =>
           /\ pc[o] = "effect" /\ o \notin cancel /\ ticket'[o] = ticket[o]
           /\ inst'[At(o)] # None
           /\ link'[At(o)] # "stopped" /\ link[At(o)] # "stopped" /\ Standing(ticket[o])
                => Keeps(ticket[o])
           /\ link'[At(o)] # "stopped" => link[At(o)] # "stopped"
  PROVE  StandsInv'
<1> SUFFICES ASSUME NEW o \in Op, pc'[o] = "effect", o \notin cancel'
             PROVE  /\ inst'[ticket'[o].browser] # None
                    /\ link'[ticket'[o].browser] # "stopped" => Standing(ticket[o])'
  BY DEF StandsInv, At
<1>1. /\ pc[o] = "effect" /\ o \notin cancel /\ ticket'[o] = ticket[o]
      /\ inst'[ticket[o].browser] # None
  BY DEF At
<1>2. ASSUME link'[ticket[o].browser] # "stopped" PROVE Standing(ticket[o])'
  <2>1. PICK t : t = ticket[o] /\ t = ticket'[o]
    BY <1>1
  <2>2. Standing(t) /\ Keeps(t)
    BY <1>1, <1>2, <2>1 DEF StandsInv, At
  <2>3. Standing(t)'
    BY <2>2, KeepsStanding
  <2> QED
    BY <2>1, <2>3 DEF Standing, Permitted, Allowed, Covering
<1> QED
  BY <1>1, <1>2

\* What is known of a fill between its release and its adapter.
LEMMA Released ==
  ASSUME Base, OneConnection, PlaceInv, StandsInv, HandlesMove,
         NEW o \in Op, pc[o] = "effect", o \notin cancel
  PROVE  /\ up /\ ticket[o] \in Ticket /\ o \in Open /\ o \in OwnOpen(ticket[o].owner)
         /\ job[o].browser = At(o) /\ job[o].owner = ticket[o].owner
         /\ At(o) \in Live /\ At(o) \in Handle /\ inst[At(o)] \in Instance
         /\ inst[At(o)].owner = ticket[o].owner
         /\ Rests(ticket[o])
         /\ inst'[At(o)] \in {inst[At(o)], None}
         /\ link'[At(o)] # "stopped" => link[At(o)] # "stopped"
<1>1. /\ ticket[o] \in Ticket /\ ticket[o] # None /\ job[o].browser = At(o)
      /\ job[o].owner = ticket[o].owner /\ job[o].state \in {"pending", "filling"}
  BY NoneAssumption DEF Base, WorkTyped, Captured, At
<1>2. up /\ inst[At(o)] # None
  BY DEF StandsInv, Base, ServiceTyped
<1>3. At(o) \in Handle /\ Rests(ticket[o])
  BY <1>1 DEF At, Ticket, PlaceInv
<1>4. At(o) < ids.handle /\ inst[At(o)].owner = ticket[o].owner
  BY <1>2, <1>3 DEF At, Rests, Belongs
<1>5. inst[At(o)] \in Instance
  BY <1>2, <1>3 DEF Base, TableTyped
<1>6. /\ inst'[At(o)] \in {inst[At(o)], None}
      /\ link'[At(o)] # "stopped" => link[At(o)] # "stopped"
  BY <1>3, <1>4 DEF HandlesMove
<1> QED
  BY <1>1, <1>2, <1>3, <1>4, <1>5, <1>6 DEF Open, Jobs, OwnOpen, Live

\* Steps that leave the released fills and their connections, and drop nothing from
\* the registry.
LEMMA StandsGrows ==
  ASSUME Base, OneConnection, PlaceInv, StandsInv, HandlesMove,
         ~up' => \A o \in Op : pc'[o] = "idle",
         \A o \in Op : pc'[o] = "effect" /\ o \notin cancel' =>
           /\ pc[o] = "effect" /\ o \notin cancel /\ ticket'[o] = ticket[o]
           /\ inst'[At(o)] = inst[At(o)],
         reg.peers \subseteq reg'.peers, reg.perms \subseteq reg'.perms,
         reg.consents \subseteq reg'.consents
  PROVE  StandsInv'
<1>1. ASSUME NEW o \in Op, pc'[o] = "effect", o \notin cancel'
      PROVE  /\ pc[o] = "effect" /\ o \notin cancel /\ ticket'[o] = ticket[o]
             /\ inst'[At(o)] # None
             /\ Standing(ticket[o]) => Keeps(ticket[o])
             /\ link'[At(o)] # "stopped" => link[At(o)] # "stopped"
  <2>1. pc[o] = "effect" /\ o \notin cancel /\ ticket'[o] = ticket[o] /\ inst'[At(o)] = inst[At(o)]
    BY <1>1
  <2>2. inst[At(o)] # None /\ (link'[At(o)] # "stopped" => link[At(o)] # "stopped")
    BY <2>1, Released DEF StandsInv
  <2>3. Standing(ticket[o]) => Keeps(ticket[o])
    BY DEF Standing, Keeps, Covering
  <2> QED
    BY <2>1, <2>2, <2>3
<1> QED
  BY <1>1, StandsStay

LEMMA StandsCommits ==
  ASSUME Base, OneConnection, PlaceInv, StandsInv, HandlesMove,
         up' = up, pc' = pc, ticket' = ticket, cancel \subseteq cancel',
         \A o \in Op : pc[o] = "effect" /\ o \notin cancel' =>
           /\ inst'[At(o)] # None
           /\ link'[At(o)] # "stopped" => Keeps(ticket[o])
  PROVE  StandsInv'
<1>1. ASSUME NEW o \in Op, pc'[o] = "effect", o \notin cancel'
      PROVE  /\ pc[o] = "effect" /\ o \notin cancel /\ ticket'[o] = ticket[o]
             /\ inst'[At(o)] # None
             /\ link'[At(o)] # "stopped" => Keeps(ticket[o])
             /\ link'[At(o)] # "stopped" => link[At(o)] # "stopped"
  BY <1>1, Released
<1>2. ~up' => \A o \in Op : pc'[o] = "idle"
  BY DEF StandsInv
<1> QED
  BY <1>1, <1>2, StandsStay

LEMMA StandsRegisters ==
  ASSUME Base, OneConnection, PlaceInv, StandsInv, HandlesMove,
         \/ RegisterCdpCommit
         \/ \E k \in Conn : NativeAsk(k) \/ NativeApprove(k) \/ NativeRegister(k)
  PROVE  StandsInv'
<1> DEFINE Goal == /\ reg.peers \subseteq reg'.peers /\ reg.perms \subseteq reg'.perms
                   /\ reg.consents \subseteq reg'.consents
                   /\ UNCHANGED <<up, pc, ticket, cancel>>
                   /\ \A h \in Handle : h < ids.handle => inst'[h] = inst[h]
<1>1. ASSUME NEW k \in Conn, NativeAsk(k) PROVE Goal
  BY <1>1 DEF NativeAsk, AuditFails, Persist, RefusedFirst, Base, RegistryTyped, Registry
<1>2. ASSUME NEW k \in Conn, NativeApprove(k) PROVE Goal
  BY <1>2 DEF NativeApprove, Persist, WithApproval, Base, RegistryTyped, Registry
<1>3. ASSUME NEW c \in Client, NEW p \in Profile \cup {None}, NEW l, NewHandle(c, p, l)
      PROVE  \A h \in Handle : h < ids.handle => inst'[h] = inst[h]
  <2>1. ids.handle \in Nat /\ \A h \in Handle : h \in Nat
    BY Bounds DEF Base, ServiceTyped, Handle
  <2>2. \A h \in Handle : h # ids.handle => inst'[h] = inst[h]
    BY <1>3 DEF NewHandle, Base, TableTyped
  <2> QED
    BY <2>1, <2>2
<1>4. ASSUME NEW k \in Conn, NativeRegister(k) PROVE Goal
  <2>1. conn[k].client \in Client /\ conn[k].profile \in Profile
    BY <1>4 DEF NativeRegister, Base, PermitTyped, Hello
  <2>2. \A h \in Handle : h < ids.handle => inst'[h] = inst[h]
    BY <1>3, <1>4, <2>1 DEF NativeRegister
  <2> QED
    BY <1>4, <2>2 DEF NativeRegister, AuditFails
<1>5. ASSUME RegisterCdpCommit PROVE Goal
  <2>1. admin.client \in Client
    BY <1>5 DEF RegisterCdpCommit, AdminCommits, Base, PermitTyped, Admin
  <2>2. \A h \in Handle : h < ids.handle => inst'[h] = inst[h]
    BY <1>3, <1>5, <2>1 DEF RegisterCdpCommit
  <2> QED
    BY <1>5, <2>2 DEF RegisterCdpCommit, AuditFails
<1>6. Goal
  BY <1>1, <1>2, <1>4, <1>5
<1>7. \A o \in Op : pc[o] = "effect" /\ o \notin cancel => inst'[At(o)] = inst[At(o)]
  BY <1>6, Released DEF Rests, Belongs, At
<1>8. ~up' => \A o \in Op : pc'[o] = "idle"
  BY <1>6 DEF StandsInv
<1> QED
  BY <1>6, <1>7, <1>8, StandsGrows

\* A withdrawal fires the token of every fill that rests on what it drops.
LEMMA StandsAdmin ==
  ASSUME Base, OneConnection, PlaceInv, StandsInv, HandlesMove, Commit,
         ConfigureCommit \/ RevokeCommit
  PROVE  StandsInv'
<1>1. UNCHANGED <<pc, ticket, up>>
  BY CommitFrame
<1>2. CASE ConfigureCommit
  <2> DEFINE c == admin.client
             r == Configured(c, admin.cred, admin.origins)
  <2>1. inst' = inst /\ link' = link
    BY <1>2 DEF ConfigureCommit
  <2>2. CASE AuditFails /\ cancel' = cancel
    BY <1>1, <2>1, <2>2, StandsGrows DEF AuditFails, StandsInv
  <2>3. CASE cancel' = cancel \cup OwnOpen(c) /\ Persist(r)
    <3>1. /\ reg'.peers = reg.peers
          /\ \A p \in reg.perms : p.owner # c => p \in reg'.perms
          /\ \A g \in reg.consents : g.owner # c => g \in reg'.consents
      BY <2>3 DEF Persist, Configured, OnlyConfigured, Base, RegistryTyped, Registry
    <3>2. ASSUME NEW o \in Op, pc[o] = "effect", o \notin cancel'
          PROVE  inst'[At(o)] # None /\ (link'[At(o)] # "stopped" => Keeps(ticket[o]))
      <4>1. o \notin cancel /\ o \notin OwnOpen(c)
        BY <2>3, <3>2
      <4>2. ticket[o].owner # c /\ inst[At(o)] # None
        BY <3>2, <4>1, Released DEF StandsInv
      <4>3. link[At(o)] # "stopped" => ticket[o].owner \in reg.peers
        BY <3>2, <4>1 DEF StandsInv, Standing
      <4> HIDE DEF c
      <4> QED
        BY <2>1, <3>1, <4>2, <4>3 DEF Keeps, Covering
    <3> QED
      BY <1>1, <2>3, <3>2, StandsCommits
  <2> QED
    BY <1>2, <2>2, <2>3 DEF ConfigureCommit
<1>3. CASE RevokeCommit
  <2> DEFINE t == admin.target
  <2>1. CASE AuditFails /\ UNCHANGED <<inst, link, cancel>>
    BY <1>1, <2>1, StandsGrows DEF AuditFails, StandsInv
  <2>2. CASE cancel' = cancel \cup OwnOpen(t) /\ Persist(Unpaired(t)) /\ inst' = Removed(Owned(t))
    <3>1. /\ reg'.peers = reg.peers \ {t}
          /\ \A p \in reg.perms : p.owner # t => p \in reg'.perms
          /\ \A g \in reg.consents : g.owner # t => g \in reg'.consents
      BY <2>2 DEF Persist, Unpaired
    <3>2. ASSUME NEW o \in Op, pc[o] = "effect", o \notin cancel'
          PROVE  inst'[At(o)] # None /\ (link'[At(o)] # "stopped" => Keeps(ticket[o]))
      <4>1. o \notin cancel /\ o \notin OwnOpen(t)
        BY <2>2, <3>2
      <4>2. /\ ticket[o].owner # t /\ inst[At(o)] # None /\ At(o) \in Handle
            /\ inst[At(o)].owner = ticket[o].owner
            /\ link'[At(o)] # "stopped" => link[At(o)] # "stopped"
        BY <3>2, <4>1, Released DEF StandsInv
      <4>3. link[At(o)] # "stopped" => ticket[o].owner \in reg.peers
        BY <3>2, <4>1 DEF StandsInv, Standing
      <4>4. inst'[At(o)] = inst[At(o)]
        BY <2>2, <4>2 DEF Removed, Owned
      <4> HIDE DEF t
      <4> QED
        BY <3>1, <4>2, <4>3, <4>4 DEF Keeps, Covering
    <3> QED
      BY <1>1, <2>2, <3>2, StandsCommits
  <2> QED
    BY <1>3, <2>1, <2>2 DEF RevokeCommit
<1> QED
  BY <1>2, <1>3

LEMMA StandsDisconnect ==
  ASSUME Base, OneConnection, PlaceInv, StandsInv, HandlesMove, Commit,
         NEW c \in Client, NEW h \in Handle, DisconnectBrowser(c, h)
  PROVE  StandsInv'
<1> DEFINE mine == {o \in Open : job[o].browser = h}
<1>1. UNCHANGED <<pc, ticket, up>>
  BY CommitFrame
<1>2. /\ inst[h] # None /\ inst[h].owner = c /\ link' = Stopped({h})
      /\ \/ inst' = inst /\ cancel' = cancel
         \/ inst' = Removed({h}) /\ cancel' = cancel \cup mine
  BY DEF DisconnectBrowser
<1>3. /\ reg'.peers = reg.peers /\ reg'.perms = reg.perms
      /\ \A g \in reg.consents : g.owner # c \/ g.scope.who \notin Names(h) => g \in reg'.consents
  BY DEF DisconnectBrowser, Persist, Disconnected, StaysApproved, Base, RegistryTyped, Registry
<1>4. ASSUME NEW o \in Op, pc[o] = "effect", o \notin cancel'
      PROVE  inst'[At(o)] # None /\ (link'[At(o)] # "stopped" => Keeps(ticket[o]))
  <2>1. o \notin cancel /\ (cancel' = cancel \cup mine => o \notin mine)
    BY <1>2, <1>4
  <2>2. /\ At(o) \in Handle /\ inst[At(o)] \in Instance /\ inst[At(o)].owner = ticket[o].owner
        /\ Rests(ticket[o]) /\ inst[At(o)] # None /\ job[o].browser = At(o) /\ o \in Open
        /\ link'[At(o)] # "stopped" => link[At(o)] # "stopped"
    BY <1>4, <2>1, Released DEF StandsInv
  <2>3. inst'[At(o)] # None
    BY <1>2, <2>1, <2>2 DEF Removed
  <2>4. ASSUME link'[At(o)] # "stopped" PROVE Keeps(ticket[o])
    <3>1. At(o) # h
      BY <1>2, <2>2, <2>4 DEF Stopped
    <3>2. ticket[o].owner \in reg.peers
      BY <1>4, <2>1, <2>2, <2>4 DEF StandsInv, Standing
    <3>3. ticket[o].owner = c => ticket[o].scope.who \notin Names(h)
      <4>1. ticket[o].scope.who = IF inst[At(o)].profile = None THEN At(o)
                                                               ELSE inst[At(o)].profile
        BY <2>2 DEF Rests, At
      <4>2. inst[h] \in Instance
        BY <1>2 DEF Base, TableTyped
      <4>3. inst[At(o)].profile # None /\ inst[At(o)].profile = inst[h].profile => inst[At(o)].owner # c
        BY <1>2, <2>2, <3>1, <4>2 DEF OneConnection, Instance
      <4>4. /\ inst[h].profile \in Profile \cup {None}
            /\ inst[At(o)].profile \in Profile \cup {None}
        BY <2>2, <4>2 DEF Instance
      <4> QED
        BY <2>2, <3>1, <4>1, <4>3, <4>4, BrowserAssumption DEF Names
    <3> QED
      BY <1>3, <3>2, <3>3 DEF Keeps, Covering
  <2> QED
    BY <2>3, <2>4
<1>5. cancel \subseteq cancel'
  BY <1>2
<1> HIDE DEF mine
<1> QED
  BY <1>1, <1>4, <1>5, StandsCommits

LEMMA StandsWithdraw ==
  ASSUME Base, OneConnection, PlaceInv, StandsInv, HandlesMove,
         NEW c \in Client, NEW ss, NEW uses, Withdraw(c, ss, uses),
         \A o \in OwnOpen(c) :
           ticket[o] # None /\ ~ticket[o].prompted /\ ticket[o].scope \in ss => o \in uses
  PROVE  StandsInv'
<1>1. UNCHANGED <<pc, ticket, up, inst, link>>
  BY DEF Withdraw
<1>2. CASE AuditFails /\ cancel' = cancel
  BY <1>1, <1>2, StandsGrows DEF AuditFails, StandsInv
<1>3. CASE cancel' = cancel \cup uses /\ Persist(Without(c, ss))
  <2>1. /\ reg'.peers = reg.peers /\ reg'.perms = reg.perms
        /\ \A g \in reg.consents : g.owner # c \/ g.scope \notin ss => g \in reg'.consents
    BY <1>3 DEF Persist, Without, Base, RegistryTyped, Registry
  <2>2. ASSUME NEW o \in Op, pc[o] = "effect", o \notin cancel'
        PROVE  inst'[At(o)] # None /\ (link'[At(o)] # "stopped" => Keeps(ticket[o]))
    <3>1. o \notin cancel /\ o \notin uses
      BY <1>3, <2>2
    <3>2. /\ o \in OwnOpen(ticket[o].owner) /\ ticket[o] \in Ticket /\ Rests(ticket[o])
          /\ inst[At(o)] # None
      BY <2>2, <3>1, Released DEF StandsInv
    <3>3. link[At(o)] # "stopped" => ticket[o].owner \in reg.peers
      BY <2>2, <3>1 DEF StandsInv, Standing
    <3>4. ticket[o].owner = c /\ ticket[o].existing # 0 => ticket[o].scope \notin ss
      BY <3>1, <3>2, NoneAssumption DEF Rests
    <3> QED
      BY <1>1, <2>1, <3>2, <3>3, <3>4 DEF Keeps, Covering
  <2> QED
    BY <1>1, <1>3, <2>2, StandsCommits
<1> QED
  BY <1>2, <1>3 DEF Withdraw

LEMMA StandsReap ==
  ASSUME Base, OneConnection, PlaceInv, StandsInv, HandlesMove, Reap
  PROVE  StandsInv'
<1>1. /\ UNCHANGED <<pc, ticket, up, link>> /\ cancel' = cancel \cup ReapedFills
      /\ reg' = SessionGone(reg, Handle \ (Live \ Dead))
      /\ inst' = [h \in Handle |-> IF h \in Dead THEN None ELSE inst[h]]
  BY DEF Reap
<1>2. /\ reg'.peers = reg.peers /\ reg'.perms = reg.perms
      /\ \A g \in reg.consents :
           g.scope.who \in Profile \/ g.scope.who \in Live \ Dead => g \in reg'.consents
  BY <1>1 DEF SessionGone, Base, RegistryTyped, Registry
<1>3. ASSUME NEW o \in Op, pc[o] = "effect", o \notin cancel'
      PROVE  inst'[At(o)] # None /\ (link'[At(o)] # "stopped" => Keeps(ticket[o]))
  <2>1. o \notin cancel /\ o \notin ReapedFills
    BY <1>1, <1>3
  <2>2. /\ o \in Open /\ job[o].browser = At(o) /\ At(o) \in Handle /\ Rests(ticket[o])
        /\ ticket[o] \in Ticket /\ inst[At(o)] # None
    BY <1>3, <2>1, Released DEF StandsInv
  <2>3. At(o) \in Live \ Dead
    BY <2>1, <2>2 DEF ReapedFills
  <2>4. link[At(o)] # "stopped" => ticket[o].owner \in reg.peers
    BY <1>3, <2>1 DEF StandsInv, Standing
  <2>5. ticket[o].scope.who \in Profile \/ ticket[o].scope.who \in Live \ Dead
    <3>1. ticket[o].scope.who \in Profile \cup Handle
      BY <2>2 DEF Ticket, Scope
    <3> QED
      BY <2>2, <2>3, <3>1 DEF Rests, At
  <2>6. Covering(ticket[o].owner, ticket[o].scope) \subseteq reg'.consents
    BY <1>2, <2>5 DEF Covering
  <2>7. inst'[At(o)] # None
    BY <1>1, <2>2, <2>3
  <2> QED
    BY <1>1, <1>2, <2>4, <2>6, <2>7 DEF Keeps
<1> QED
  BY <1>1, <1>3, StandsCommits

\* A fill is released only on what stands in the same transaction.
LEMMA StandsAuthorize ==
  ASSUME Base, OneConnection, PlaceInv, StandsInv, NEW o \in Op, Authorize(o)
  PROVE  StandsInv'
<1>1. /\ Authorizable(o) /\ up /\ up' = up
      /\ UNCHANGED <<inst, link, ticket, cancel>>
      /\ \A q \in Op : q # o => pc'[q] = pc[q]
  BY DEF Authorize, Authorizable, Paired, Ready, Settle, Base, WorkTyped
<1>2. /\ reg.peers \subseteq reg'.peers /\ reg.perms \subseteq reg'.perms
      /\ reg.consents \subseteq reg'.consents
  BY DEF Authorize, AuditFails, Remembers, Persist, Base, RegistryTyped, Registry
<1>3. \A t : Standing(t) => Keeps(t)
  BY <1>2 DEF Standing, Keeps, Covering
<1>4. ASSUME NEW q \in Op, pc'[q] = "effect", q \notin cancel'
      PROVE  inst[At(q)] # None /\ (link[At(q)] # "stopped" => Standing(ticket[q]))
  <2>1. CASE q # o
    BY <1>1, <1>4, <2>1 DEF StandsInv
  <2>2. CASE q = o
    <3>1. ticket[o] \in Ticket /\ ticket[o] # None /\ Rests(ticket[o])
      BY <1>1, NoneAssumption DEF Authorizable, Base, Captured, WorkTyped, PlaceInv
    <3>2. ticket[o].owner \in reg.peers
      BY <1>1 DEF Authorizable, Paired
    <3>3. CASE ticket[o].prompted
      <4>1. ticket[o].existing = 0
        BY <3>1, <3>3 DEF Rests
      <4>2. inst[At(o)] # None
        BY <1>1, <3>3 DEF Authorizable, PromptStands, At
      <4>3. Permitted(ticket[o])
        BY <3>3 DEF Permitted
      <4> QED
        BY <2>2, <3>2, <4>1, <4>2, <4>3 DEF Standing
    <3>4. CASE ~ticket[o].prompted
      <4>1. inst[At(o)] # None /\ Permitted(ticket[o]) /\ ConsentStands(ticket[o])
        BY <1>1, <3>4 DEF Authorizable, At
      <4> QED
        BY <2>2, <3>2, <4>1 DEF Standing, ConsentStands
    <3> QED
      BY <3>3, <3>4
  <2> QED
    BY <2>1, <2>2
<1>5. ASSUME NEW q \in Op, pc'[q] = "effect", q \notin cancel'
      PROVE  /\ inst'[ticket'[q].browser] # None
             /\ link'[ticket'[q].browser] # "stopped" => Standing(ticket[q])'
  <2>1. PICK t : t = ticket[q] /\ t = ticket'[q]
    BY <1>1
  <2>2. Standing(t) => Standing(t)'
    BY <1>3, KeepsStanding
  <2>3. link'[ticket'[q].browser] # "stopped" => Standing(t)'
    BY <1>1, <1>4, <1>5, <2>1, <2>2 DEF At
  <2>4. Standing(t)' => Standing(ticket[q])'
    BY <2>1 DEF Standing, Permitted, Allowed, Covering
  <2> QED
    BY <1>1, <1>4, <1>5, <2>3, <2>4 DEF At
<1> QED
  BY <1>1, <1>5 DEF StandsInv, At

LEMMA StandsInit == Init => StandsInv
  BY DEF Init, StandsInv

LEMMA StandsStep ==
  Base /\ OneConnection /\ PlaceInv /\ StandsInv /\ [Next]_vars => StandsInv'
<1> SUFFICES ASSUME Base, OneConnection, PlaceInv, StandsInv, [Next]_vars PROVE StandsInv'
  OBVIOUS
<1>1. CASE UNCHANGED vars
  <2>1. HandlesMove
    BY <1>1, HandlesGo DEF vars
  <2> QED
    BY <1>1, <2>1, StandsGrows DEF vars, StandsInv
<1>2. CASE Next
  <2>1. HandlesMove
    BY <1>2, HandlesStep
  <2>2. CASE Quiet
    <3>1. UNCHANGED <<reg, inst, workVars, up>>
      BY <2>2, QuietFrame
    <3> QED
      BY <2>1, <3>1, StandsGrows DEF StandsInv
  <2>3. CASE Commit
    <3>1. ASSUME NEW c \in Client, NEW g \in reg.consents, RevokeConsent(c, g) PROVE StandsInv'
      <4>1. \A o \in OwnOpen(c) :
              ticket[o] # None /\ ~ticket[o].prompted /\ ticket[o].scope \in {g.scope}
                => o \in Uses(c, g.scope)
        BY DEF Uses
      <4> QED
        BY <2>1, <3>1, <4>1, StandsWithdraw DEF RevokeConsent
    <3>2. ASSUME NEW c \in Client, ClearConsents(c) PROVE StandsInv'
      BY <2>1, <3>2, StandsWithdraw DEF ClearConsents
    <3> QED
      BY <2>1, <2>3, <3>1, <3>2, StandsReap, StandsRegisters, StandsAdmin, StandsDisconnect
      DEF Commit
  <2>4. ASSUME NEW o \in Op, Task(o) PROVE StandsInv'
    <3>1. /\ reg' = reg /\ inst' = inst /\ ticket' = ticket /\ up' = up /\ pc[o] # "idle"
          /\ cancel \subseteq cancel' /\ pc'[o] # "effect"
          /\ \A q \in Op : q # o => pc'[q] = pc[q]
      <4>1. inst' = inst
        BY <2>4 DEF Task, Spawn, PromptExpires, PromptCancelled, Decide, AuthorizeRefused,
                    OnlyWork, EffectRefused, EffectStarts, StaleFound, Replied, Cut, WireOnly
      <4> QED
        BY <2>4, <4>1, TaskFrame DEF Base, WorkTyped
    <3>2. up
      BY <3>1 DEF StandsInv
    <3> QED
      BY <2>1, <3>1, <3>2, StandsGrows
  <2>5. ASSUME NEW o \in Op, Admits(o) PROVE StandsInv'
    <3>1. PICK c \in Client, t \in Target, prompted \in BOOLEAN, creds \in SUBSET Cred :
            Reserve(o, c, t, prompted, creds)
      BY <2>5, AdmitCases
    <3>2. /\ reg' = reg /\ inst' = inst /\ up /\ up' = up /\ cancel' = cancel
          /\ \/ pc' = pc /\ ticket' = ticket
             \/ /\ pc'[o] = "reserved"
                /\ \A q \in Op : q # o => pc'[q] = pc[q] /\ ticket'[q] = ticket[q]
      BY <3>1 DEF Reserve, AuditFails, Paired, Ready, Base, WorkTyped
    <3> QED
      BY <2>1, <3>2, StandsGrows
  <2>6. ASSUME NEW o \in Op, Aborted(o) \/ CancelFill(o) \/ Dispatch(o) \/ Complete(o)
        PROVE  StandsInv'
    <3>1. /\ reg' = reg /\ inst' = inst /\ up /\ up' = up
          /\ \A q \in Op : q # o => /\ pc'[q] = pc[q] /\ ticket'[q] = ticket[q]
                                    /\ q \in cancel => q \in cancel'
          /\ \/ pc'[o] # "effect"
             \/ pc' = pc /\ ticket' = ticket /\ cancel \subseteq cancel'
      BY <2>6 DEF Aborted, CancelFill, Dispatch, Complete, WireOnly, Paired, Ready, Base, WorkTyped
    <3> QED
      BY <2>1, <3>1, StandsGrows
  <2>7. ASSUME NEW o \in Op, Authorize(o) PROVE StandsInv'
    BY <2>7, StandsAuthorize
  <2>8. CASE Forget \/ BindTargets
    <3>1. UNCHANGED <<reg, inst, workVars, up>>
      BY <2>8 DEF Forget, BindTargets
    <3> QED
      BY <2>1, <3>1, StandsGrows DEF StandsInv
  <2>9. CASE StopAll
    <3>1. UNCHANGED <<pc, ticket, up>> /\ up /\ cancel' = cancel \cup Open
      BY <2>9 DEF StopAll
    <3>2. \A o \in Op : pc[o] = "effect" => o \in cancel'
      BY <2>1, <3>1, Released
    <3> QED
      BY <3>1, <3>2 DEF StandsInv
  <2>10. CASE Crash
    BY <2>10 DEF Crash, StandsInv
  <2>11. CASE Restart
    BY <2>11 DEF Restart, StandsInv
  <2>12. ASSUME NEW t \in Target, Acts(t) PROVE StandsInv'
    <3>1. UNCHANGED <<reg, inst, workVars, up>>
      BY <2>12 DEF Acts
    <3> QED
      BY <2>1, <3>1, StandsGrows DEF StandsInv
  <2> QED
    BY <1>2, <2>2, <2>3, <2>4, <2>5, <2>6, <2>7, <2>8, <2>9, <2>10, <2>11, <2>12, NextCases
<1> QED
  BY <1>1, <1>2

\* When an adapter takes up a saved fill, the pairing, the permission for the document
\* and the consent that released it still stand, although all of them may have been
\* withdrawn since the release.
THEOREM TakenUnderAuthorityHolds == Spec => TakenUnderAuthority
<1> DEFINE Taken ==
      \A o \in Op : pc[o] = "effect" /\ pc'[o] = "sending" => Standing(ticket[o])
<1>1. Base /\ StandsInv /\ [Next]_vars => [Taken]_vars
  <2> SUFFICES ASSUME Base, StandsInv, Next, NEW o \in Op, pc[o] = "effect", pc'[o] = "sending"
               PROVE  Standing(ticket[o])
    OBVIOUS
  <2>1. EffectStarts(o)
    <3>1. ASSUME pc' = pc PROVE FALSE
      BY <3>1
    <3>2. ASSUME NEW q \in Op, q # o, \E p : pc' = [pc EXCEPT ![q] = p] PROVE FALSE
      BY <3>2 DEF Base, WorkTyped
    <3>3. ASSUME NEW q \in Op, \E p : pc' = [pc EXCEPT ![q] = p]
          PROVE  q = o
      BY <3>2, <3>3
    <3>4. ~Quiet /\ ~Commit
      BY <3>1, QuietFrame, CommitFrame
    <3>5. ASSUME NEW q \in Op, Task(q) PROVE EffectStarts(o)
      <4>1. q = o
        BY <3>3, <3>5, TaskFrame
      <4>2. \A s : ~Settle(o, s)
        BY DEF Settle, Base, WorkTyped
      <4> QED
        BY <3>5, <4>1, <4>2
        DEF Task, Spawn, PromptExpires, PromptCancelled, Decide, Asking, AuthorizeRefused,
            EffectRefused, StaleFound, Replied, Cut
    <3>6. ASSUME NEW q \in Op, Admits(q) \/ Aborted(q) \/ CancelFill(q) \/ Authorize(q)
                               \/ Dispatch(q) \/ Complete(q)
          PROVE  FALSE
      <4>1. pc' = pc \/ \E p \in PC \ {"sending"} : pc' = [pc EXCEPT ![q] = p]
        BY <3>6 DEF Admits, SecurePromptFill, SecureFill, Reserve, Aborted, CancelFill, Authorize,
                    Dispatch, Complete, Settle
      <4> QED
        BY <4>1 DEF Base, WorkTyped
    <3>7. ~Forget /\ ~BindTargets /\ ~StopAll /\ ~Restart
      BY <3>1 DEF Forget, BindTargets, StopAll, Restart
    <3>8. ~Crash
      BY DEF Crash
    <3>9. \A t \in Target : ~Acts(t)
      BY <3>1 DEF Acts
    <3> QED
      BY <3>4, <3>5, <3>6, <3>7, <3>8, <3>9, NextCases
  <2> QED
    BY <2>1 DEF EffectStarts, Sendable, Cancelled, StandsInv
<1>2. Spec => [][Taken]_vars
  BY <1>1, BaseInit, BaseStep, RegistryInit, RegistryStep, ProfilesInit, ProfilesStep,
     PlaceInit, PlaceStep, StandsInit, StandsStep, PTL DEF Spec
<1>3. [Taken]_vars => [\A o \in Op :
         pc[o] = "effect" /\ pc'[o] = "sending" =>
           LET t == ticket[o] IN
           /\ t.owner \in reg.peers
           /\ Permitted(t)
           /\ t.existing # 0 => \E g \in Covering(t.owner, t.scope) : g.id = t.existing]_vars
  BY DEF Standing
<1> QED
  BY <1>2, <1>3, PTL DEF TakenUnderAuthority

=============================================================================
