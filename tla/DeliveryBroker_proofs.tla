----------------------- MODULE DeliveryBroker_proofs -----------------------
(***************************************************************************)
(* Proofs about DeliveryBroker, for any clients, profiles, operations and  *)
(* bounds.                                                                 *)
(***************************************************************************)
EXTENDS DeliveryBroker, FiniteSetTheorems, TLAPS

USE DEF JobState, Terminal, PC, Phase, registryVars, jobVars, workVars, permitVars,
        serviceVars, ghostVars

-----------------------------------------------------------------------------
(* One workflow at a time.  With the domain of pc the invariant is inductive: *)
(* a permit is only taken when it is free, and only given up by its holder,   *)
(* or by the shutdown that ends its holder.                                   *)

PermitInv == pc \in [Op -> PC] /\ OneWorkflow

LEMMA PermitInit == Init => PermitInv
  BY DEF Init, PermitInv, OneWorkflow, AllIdle

\* A task that settles keeps the permit.
LEMMA SettleKeepsPermit ==
  ASSUME PermitInv, NEW o \in Op, NEW s, NEW ran, Settle(o, s, ran), pc[o] # "idle",
         UNCHANGED permitVars
  PROVE  PermitInv'
  BY DEF PermitInv, OneWorkflow, Settle

LEMMA PermitTask ==
  ASSUME PermitInv, NEW o \in Op, Machine(o) \/ Decide(o) \/ Reap(o)
  PROVE  PermitInv'
<1> USE DEF PermitInv, OneWorkflow
<1>1. CASE Spawn(o)
  BY <1>1 DEF Spawn
<1>2. CASE DeadlinePasses(o) \/ Reap(o)
  BY <1>2 DEF DeadlinePasses, Reap
<1>3. CASE PromptExpires(o) \/ PromptCancelled(o)
  BY <1>3, SettleKeepsPermit DEF PromptExpires, PromptCancelled
<1>4. CASE Decide(o)
  <2>1. ASSUME NEW s, Settle(o, s, FALSE) PROVE PermitInv'
    BY <1>4, <2>1, SettleKeepsPermit DEF Decide
  <2>2. ASSUME NEW d \in {"once", "always"}, pc' = [pc EXCEPT ![o] = d] PROVE PermitInv'
    BY <1>4, <2>2 DEF Decide
  <2> QED
    BY <1>4, <2>1, <2>2 DEF Decide
<1>5. CASE AuthorizeRefused(o) \/ AuthorizeFaults(o)
  BY <1>5, SettleKeepsPermit DEF AuthorizeRefused, AuthorizeFaults, Authorizable
<1>6. CASE Authorize(o)
  BY <1>6 DEF Authorize, Authorizable
<1>7. CASE Release(o)
  BY <1>7 DEF Release
<1>8. CASE ReleaseRefused(o)
  BY <1>8 DEF ReleaseRefused, Settle
<1>9. CASE EffectCancelled(o) \/ NotDispatched(o) \/ Settled(o)
  BY <1>9, SettleKeepsPermit DEF EffectCancelled, NotDispatched, Settled
<1>10. CASE EffectStarts(o) \/ Dispatch(o)
  BY <1>10 DEF EffectStarts, Dispatch
<1>11. CASE Complete(o)
  BY <1>11, ConstantsAssumption DEF Complete, ReleasesPermit, Ends
<1> QED
  BY <1>1, <1>2, <1>3, <1>4, <1>5, <1>6, <1>7, <1>8, <1>9, <1>10, <1>11 DEF Machine

LEMMA PermitRequest ==
  ASSUME PermitInv, Request
  PROVE  PermitInv'
<1> USE DEF PermitInv, OneWorkflow
<1>1. ASSUME NEW o \in Op, Issue(o) \/ Cancel(o) PROVE PermitInv'
  BY <1>1 DEF Issue, Cancel
<1>2. ASSUME NEW o \in Op, NEW c \in Client, NEW p \in Profile, Reserve(o, c, p)
      PROVE  PermitInv'
  BY <1>2, ConstantsAssumption DEF Reserve, PermitFree
<1>3. ASSUME NEW c, NEW P, NEW r, Withdraw(c, P, r) PROVE PermitInv'
  BY <1>3 DEF Withdraw
<1>4. ASSUME NEW kind, NEW c, NEW t, AdminBegin(kind, c, t) PROVE PermitInv'
  BY <1>4, ConstantsAssumption DEF AdminBegin, PermitFree
<1> QED
  BY <1>1, <1>2, <1>3, <1>4
  DEF Request, RemoveProfile, RevokeConsent, ClearConsents, RegisterBegin, RevokeBegin,
      StopBegin

LEMMA PermitAdmin ==
  ASSUME PermitInv, AdminStep
  PROVE  PermitInv'
<1> USE DEF PermitInv, OneWorkflow
<1>1. CASE AdminEnd
  BY <1>1, ConstantsAssumption DEF AdminEnd
<1>2. CASE ~AdminEnd
  <2>1. admin # None /\ UNCHANGED <<pc, gate>>
    BY <1>2 DEF AdminStep, AdminAnswer, RegisterCommit, RevokeCommit, StopCommit,
                AdminRefused, AdminCommits
  <2> QED
    BY <2>1
<1> QED
  BY <1>1, <1>2

LEMMA PermitService ==
  ASSUME PermitInv, Signal \/ Service \/ Crash \/ Restart
  PROVE  PermitInv'
<1> USE DEF PermitInv, OneWorkflow
<1>1. CASE Signal \/ StopAccepting \/ StopAll \/ Restart
  BY <1>1 DEF Signal, StopAccepting, StopAll, Restart
<1>2. CASE Drained
  BY <1>2, ConstantsAssumption DEF Drained, DropsPermit, Unspawned, Ends
<1>3. CASE QuiesceAcquire
  BY <1>3, ConstantsAssumption DEF QuiesceAcquire
<1>4. CASE Exit \/ Crash
  BY <1>4 DEF Exit, Crash, MemoryLost, AllIdle
<1> QED
  BY <1>1, <1>2, <1>3, <1>4 DEF Service

LEMMA PermitStep == PermitInv /\ [Next]_vars => PermitInv'
<1> SUFFICES ASSUME PermitInv, [Next]_vars PROVE PermitInv'
  OBVIOUS
<1>1. CASE UNCHANGED vars
  BY <1>1 DEF vars, PermitInv, OneWorkflow
<1> QED
  BY <1>1, PermitTask, PermitRequest, PermitAdmin, PermitService DEF Next

\* The only permit is held by the operation whose task is alive, or by the
\* administrative request in progress, from prompt to cleanup, in every
\* interleaving with shutdown, crash and restart.
THEOREM OneWorkflowHolds == Spec => []OneWorkflow
<1>1. PermitInv => OneWorkflow
  BY DEF PermitInv
<1> QED
  BY <1>1, PermitInit, PermitStep, PTL DEF Spec

-----------------------------------------------------------------------------
(* Types.  TypeOK is not inductive: a task that lives has captured a ticket, *)
(* one that is settled has a result, and while a lasting consent is decided  *)
(* on there is an identity for it, since no other workflow can take it.      *)

Captured ==
  \A o \in Op :
    /\ pc[o] # "idle" => ticket[o] \in Ticket
    /\ pc[o] = "settled" => result[o] \in Result

Room == \A o \in Op : pc[o] = "always" => nextGrant <= MaxGrantId

TypeInv == TypeOK /\ Captured /\ Room

\* A task that has its outcome is well formed.
LEMMA SettleTypes ==
  ASSUME TypeInv, NEW o \in Op, NEW s \in Terminal, NEW ran \in BOOLEAN,
         Settle(o, s, ran), ticket' = ticket, pc[o] # "idle"
  PROVE  /\ pc' \in [Op -> PC]
         /\ result' \in [Op -> Result \cup {None}]
         /\ Captured'
         /\ nextGrant' = nextGrant => Room'
  BY DEF TypeInv, TypeOK, Captured, Room, Settle, Result

\* A step that does nothing else preserves the types.
LEMMA SettleAlone ==
  ASSUME TypeInv, NEW o \in Op, NEW s \in Terminal, NEW ran \in BOOLEAN,
         Settle(o, s, ran), pc[o] # "idle",
         UNCHANGED <<registryVars, jobVars, ticket, permitVars, serviceVars, ghostVars>>
  PROVE  TypeInv'
  BY SettleTypes DEF TypeInv, TypeOK

\* So are the tasks that are left when some end.
LEMMA EndsTypes ==
  ASSUME TypeInv, NEW S, Ends(S)
  PROVE  /\ pc' \in [Op -> PC]
         /\ ticket' \in [Op -> Ticket \cup {None}]
         /\ result' \in [Op -> Result \cup {None}]
         /\ late' \subseteq Op /\ cancel' \subseteq Op
         /\ Captured'
         /\ nextGrant' = nextGrant => Room'
  BY DEF TypeInv, TypeOK, Captured, Room, Ends

\* Writing a well-formed registry leaves well-formed ones.
LEMMA PersistTypes ==
  ASSUME TypeInv, NEW r \in Registry, Persist(r)
  PROVE  reg' \in Registry /\ disk' \in Registry /\ faulted' \in BOOLEAN
  BY DEF TypeInv, TypeOK, Persist

LEMMA MemoryLostTypes ==
  ASSUME TypeInv, MemoryLost
  PROVE  TypeInv'
<1>1. Blank \in Registry
  BY DEF Blank, Registry
<1>2. NoJobs \in [Op -> Job]
  BY DEF NoJobs, NoJob, Job
<1>3. NoEpochs \in [Client -> 0..MaxReset]
  BY ConstantsAssumption DEF NoEpochs
<1>4. AllIdle \in [Op -> PC] /\ NoTickets \in [Op -> {None}]
  BY DEF AllIdle, NoTickets
<1>5. Captured' /\ Room'
  BY DEF Captured, Room, MemoryLost, AllIdle
<1>6. NoRuns \in [Op -> Nat]
  BY DEF NoRuns
<1>7. TypeOK'
  BY <1>1, <1>2, <1>3, <1>4, <1>6 DEF TypeInv, TypeOK, MemoryLost
<1> QED
  BY <1>5, <1>7 DEF TypeInv

\* Requests preserve the types.
LEMMA RequestTypes == TypeInv /\ Request => TypeInv'
<1> SUFFICES ASSUME TypeInv, Request PROVE TypeInv'
  OBVIOUS
<1>1. ASSUME NEW o \in Op, Issue(o) PROVE TypeInv'
  BY <1>1 DEF TypeInv, TypeOK, Captured, Room, Issue
<1>2. ASSUME NEW o \in Op, Cancel(o) PROVE TypeInv'
  BY <1>2 DEF TypeInv, TypeOK, Captured, Room, Cancel, Pending
<1>3. ASSUME NEW o \in Op, NEW c \in Client, NEW p \in Profile, Reserve(o, c, p)
      PROVE  TypeInv'
  <2>1. CASE AuditFails /\ UNCHANGED <<reg, disk, epochs, jobVars, workVars,
                                      permitVars, serviceVars, ghostVars>>
    BY <2>1 DEF TypeInv, TypeOK, Captured, Room, AuditFails
  <2>2. ASSUME NEW e \in Owned(reg, c, p),
               NEW g \in IF Covering(reg, c, p) = {} THEN {0}
                         ELSE {x.id : x \in Covering(reg, c, p)},
               gate' = o, spent' = spent \cup {o},
               job' = [job EXCEPT ![o] = [state |-> "pending", mayHaveRun |-> FALSE,
                                          owner |-> c, profile |-> p]],
               ticket' = [ticket EXCEPT ![o] =
                            [owner |-> c, profile |-> p, content |-> e.content,
                             existing |-> g, epoch |-> epochs[c]]],
               pc' = [pc EXCEPT ![o] = "reserved"],
               UNCHANGED <<registryVars, cancel, late, result, lock, admin,
                           serviceVars, ghostVars>>
        PROVE  TypeInv'
    <3>1. e.content \in 1..MaxContent
      BY <2>2 DEF TypeInv, TypeOK, Owned, Registry, Entry
    <3>2. g \in 0..MaxGrantId
      BY <2>2, ConstantsAssumption DEF TypeInv, TypeOK, Covering, Registry, Grant
    <3>3. epochs[c] \in 0..MaxReset
      BY DEF TypeInv, TypeOK
    <3>4. [owner |-> c, profile |-> p, content |-> e.content,
           existing |-> g, epoch |-> epochs[c]] \in Ticket
      BY <3>1, <3>2, <3>3 DEF Ticket
    <3>5. [state |-> "pending", mayHaveRun |-> FALSE, owner |-> c, profile |-> p] \in Job
      BY DEF Job
    <3> QED
      BY <2>2, <3>4, <3>5 DEF TypeInv, TypeOK, Captured, Room
  <2> QED
    BY <1>3, <2>1, <2>2 DEF Reserve
<1>4. ASSUME NEW c \in Client, NEW P, NEW r \in Registry, Withdraw(c, P, r)
      PROVE  TypeInv'
  <2>1. CASE AuditFails /\ UNCHANGED <<reg, disk, epochs, cancel, revoked, void>>
    BY <1>4, <2>1 DEF Withdraw, AuditFails, TypeInv, TypeOK, Captured, Room
  <2>2. CASE ~(AuditFails /\ UNCHANGED <<reg, disk, epochs, cancel, revoked, void>>)
    <3>1. reg' \in Registry /\ disk' \in Registry /\ faulted' \in BOOLEAN
      BY <1>4, <2>2, PersistTypes DEF Withdraw
    <3>2. epochs' \in [Client -> 0..MaxReset]
      BY <1>4, <2>2, ConstantsAssumption DEF Withdraw, TypeInv, TypeOK
    <3>3. {g.id : g \in reg.consents \ r.consents} \subseteq 1..MaxGrantId
      BY DEF TypeInv, TypeOK, Registry, Grant
    <3>4. revoked' \subseteq 1..MaxGrantId
      BY <1>4, <2>2, <3>3 DEF Withdraw, TypeInv, TypeOK
    <3>5. cancel' \subseteq Op /\ void' \subseteq Op
      BY <1>4, <2>2 DEF Withdraw, Uses, Open, Pending, TypeInv, TypeOK
    <3> QED
      BY <1>4, <3>1, <3>2, <3>4, <3>5 DEF Withdraw, TypeInv, TypeOK, Captured, Room
  <2> QED
    BY <2>1, <2>2
<1>5. \A c \in Client : \A P : [reg EXCEPT !.consents = Without(c, P)] \in Registry
  BY DEF Without, TypeInv, TypeOK, Registry
<1>6. \A c \in Client, p \in Profile : ProfileRemoved(c, p) \in Registry
  BY DEF ProfileRemoved, Without, Owned, TypeInv, TypeOK, Registry
<1>7. ASSUME NEW c \in Client, NEW p \in Profile,
             RemoveProfile(c, p) \/ RevokeConsent(c, p)
      PROVE  TypeInv'
  BY <1>4, <1>5, <1>6, <1>7 DEF RemoveProfile, RevokeConsent
<1>8. ASSUME NEW c \in Client, NEW t \in Profile \cup Client \cup {None},
             NEW kind \in AdminKind, AdminBegin(kind, c, t)
      PROVE  TypeInv'
  BY <1>8 DEF AdminBegin, Admin, TypeInv, TypeOK, Captured, Room
<1>9. ASSUME NEW c \in Client, StopBegin(c) PROVE TypeInv'
  BY <1>8, <1>9 DEF StopBegin, AdminKind
<1>10. ASSUME NEW c \in Client, NEW p \in Profile, RegisterBegin(c, p) PROVE TypeInv'
  BY <1>8, <1>10 DEF RegisterBegin, AdminKind
<1>11. ASSUME NEW c \in Client, NEW t \in Client, RevokeBegin(c, t) PROVE TypeInv'
  BY <1>8, <1>11 DEF RevokeBegin, AdminKind
<1>12. ASSUME NEW c \in Client, ClearConsents(c) PROVE TypeInv'
  BY <1>4, <1>5, <1>12 DEF ClearConsents
<1> QED
  BY <1>1, <1>2, <1>3, <1>7, <1>9, <1>10, <1>11, <1>12 DEF Request

\* The consents with the one a lasting decision creates.
LEMMA RememberingType ==
  ASSUME TypeInv, NEW o \in Op, Authorizable(o), pc[o] = "always"
  PROVE  Remembering(o) \in Registry
<1>1. ticket[o] \in Ticket
  BY DEF TypeInv, Captured, Authorizable
<1>2. nextGrant \in 1..MaxGrantId
  BY ConstantsAssumption DEF TypeInv, TypeOK, Room
<1>3. [id |-> nextGrant, owner |-> ticket[o].owner, profile |-> ticket[o].profile,
       content |-> ticket[o].content] \in Grant
  BY <1>1, <1>2 DEF Ticket, Grant
<1> QED
  BY <1>3 DEF Remembering, TypeInv, TypeOK, Registry

\* Steps of an operation's task preserve the types.
LEMMA TaskTypes ==
  ASSUME TypeInv, OneWorkflow, NEW o \in Op, Machine(o) \/ Decide(o) \/ Reap(o)
  PROVE  TypeInv'
<1>1. CASE Spawn(o)
  BY <1>1 DEF Spawn, TypeInv, TypeOK, Captured, Room
<1>2. CASE DeadlinePasses(o)
  BY <1>2 DEF DeadlinePasses, TypeInv, TypeOK, Captured, Room
<1>3. CASE PromptExpires(o)
  BY <1>3, SettleTypes DEF PromptExpires, TypeInv, TypeOK
<1>4. CASE PromptCancelled(o)
  BY <1>4, SettleAlone DEF PromptCancelled
<1>5. CASE Decide(o)
  <2>1. ASSUME NEW s \in {"denied", "failed"}, Settle(o, s, FALSE) PROVE TypeInv'
    BY <1>5, <2>1, SettleAlone DEF Decide
  <2>2. CASE UNCHANGED result /\ pc' = [pc EXCEPT ![o] = "once"]
    BY <1>5, <2>2 DEF Decide, TypeInv, TypeOK, Captured, Room
  <2>3. CASE UNCHANGED result /\ pc' = [pc EXCEPT ![o] = "always"]
                              /\ nextGrant <= MaxGrantId
    BY <1>5, <2>3 DEF Decide, TypeInv, TypeOK, Captured, Room
  <2> QED
    BY <1>5, <2>1, <2>2, <2>3 DEF Decide
<1>6. CASE AuthorizeRefused(o)
  BY <1>6, SettleAlone DEF AuthorizeRefused
<1>7. CASE Authorize(o)
  <2>1. reg' \in Registry /\ disk' \in Registry
    BY <1>7, RememberingType DEF Authorize, Remembering, TypeInv, TypeOK
  <2>2. nextGrant' \in 1..(MaxGrantId + 1)
    BY <1>7, ConstantsAssumption DEF Authorize, TypeInv, TypeOK, Room
  <2>3. Room'
    BY <1>7 DEF Authorize, Authorizable, OneWorkflow, TypeInv, TypeOK, Room
  <2> QED
    BY <1>7, <2>1, <2>2, <2>3 DEF Authorize, Authorizable, Line, Receipt, TypeInv, TypeOK, Captured
<1>8. CASE AuthorizeFaults(o)
  <2>1. reg' \in Registry /\ disk' \in Registry
    BY <1>8, RememberingType DEF AuthorizeFaults, Remembering, TypeInv, TypeOK
  <2>2. nextGrant' \in 1..(MaxGrantId + 1)
    BY <1>8, ConstantsAssumption DEF AuthorizeFaults, TypeInv, TypeOK, Room
  <2>3. pc' = [pc EXCEPT ![o] = "settled"] /\ pc[o] # "idle" /\ ticket' = ticket
    BY <1>8 DEF AuthorizeFaults, Authorizable, Settle
  <2>4. Room'
    BY <2>3 DEF OneWorkflow, TypeInv, TypeOK, Room
  <2>5. log' \subseteq Receipt
    BY <1>8 DEF AuthorizeFaults, Line, Receipt, TypeInv, TypeOK
  <2> QED
    BY <1>8, <2>1, <2>2, <2>3, <2>4, <2>5, SettleTypes DEF AuthorizeFaults, TypeInv, TypeOK
<1>9. CASE Release(o)
  BY <1>9 DEF Release, Starts, Job, TypeInv, TypeOK, Captured, Room
<1>10. CASE ReleaseRefused(o)
  BY <1>10, SettleTypes DEF ReleaseRefused, TypeInv, TypeOK
<1>11. CASE EffectCancelled(o)
  BY <1>11, SettleAlone DEF EffectCancelled
<1>12. CASE EffectStarts(o)
  BY <1>12 DEF EffectStarts, TypeInv, TypeOK, Captured, Room
<1>13. CASE Dispatch(o)
  BY <1>13 DEF Dispatch, TypeInv, TypeOK, Captured, Room
<1>14. CASE NotDispatched(o)
  BY <1>14, SettleAlone DEF NotDispatched
<1>15. CASE Settled(o)
  BY <1>15, SettleAlone DEF Settled
<1>16. CASE Complete(o)
  <2>1. result[o] \in Result
    BY <1>16 DEF Complete, TypeInv, Captured
  <2>2. PICK audited \in BOOLEAN :
          LET done == Line(o, result[o].state)
              seen == Published(result[o], audited)
          IN /\ log' \in IF audited THEN {log \cup {done}} ELSE {log, log \cup {done}}
             /\ job' = [job EXCEPT ![o].state = seen.state,
                                   ![o].mayHaveRun = seen.mayHaveRun]
             /\ faulted' = (faulted \/ ~audited)
    BY <1>16 DEF Complete
  <2>3. Published(result[o], audited) \in Result
    BY <2>1 DEF Published, Result
  <2>4. job' \in [Op -> Job]
    <3> DEFINE seen == Published(result[o], audited)
    <3>1. job[o] \in Job /\ seen.state \in Terminal /\ seen.mayHaveRun \in BOOLEAN
      BY <2>3 DEF Result, TypeInv, TypeOK
    <3> HIDE DEF seen
    <3>2. [job[o] EXCEPT !.state = seen.state, !.mayHaveRun = seen.mayHaveRun] \in Job
      BY <3>1 DEF Job
    <3>3. job' = [job EXCEPT ![o] = [job[o] EXCEPT !.state = seen.state,
                                                  !.mayHaveRun = seen.mayHaveRun]]
      BY <2>2 DEF seen, TypeInv, TypeOK
    <3> QED
      BY <3>2, <3>3 DEF TypeInv, TypeOK
  <2>5. log' \subseteq Receipt
    BY <2>1, <2>2 DEF Line, Receipt, Result, TypeInv, TypeOK
  <2>6. faulted' \in BOOLEAN
    BY <2>2 DEF TypeInv, TypeOK
  <2> QED
    BY <1>16, <2>4, <2>5, <2>6, EndsTypes DEF Complete, ReleasesPermit, TypeInv, TypeOK
<1>17. CASE Reap(o)
  BY <1>17 DEF Reap, NoJobs, NoJob, Job, TypeInv, TypeOK, Captured, Room
<1> QED
  BY <1>1, <1>2, <1>3, <1>4, <1>5, <1>6, <1>7, <1>8, <1>9, <1>10, <1>11, <1>12, <1>13,
     <1>14, <1>15, <1>16, <1>17 DEF Machine

\* Administrative requests preserve the types.
LEMMA AdminTypes ==
  ASSUME TypeInv, AdminStep
  PROVE  TypeInv'
<1>1. CASE AdminAnswer
  BY <1>1 DEF AdminAnswer, AdminGoesTo, Admin, TypeInv, TypeOK, Captured, Room
<1>2. CASE RegisterCommit
  <2>1. admin.client \in Client /\ admin.target \in Profile
    BY <1>2, ConstantsAssumption
    DEF RegisterCommit, AdminCommits, Registrable, Paired, Admin, TypeInv, TypeOK
  <2>2. admin' \in Admin
    BY <1>2 DEF RegisterCommit, AdminCommits, AdminGoesTo, Admin, TypeInv, TypeOK
  <2>3. CASE AuditFails /\ UNCHANGED <<reg, disk, nextContent>>
    BY <1>2, <2>2, <2>3 DEF RegisterCommit, AuditFails, TypeInv, TypeOK, Captured, Room
  <2>4. CASE ~(AuditFails /\ UNCHANGED <<reg, disk, nextContent>>)
    <3> DEFINE added == [id |-> admin.target, owner |-> admin.client,
                         content |-> nextContent]
               r == [reg EXCEPT !.profiles = @ \cup {added}]
    <3>1. nextContent \in 1..MaxContent
      BY <1>2, ConstantsAssumption DEF RegisterCommit, TypeInv, TypeOK
    <3>2. r \in Registry
      BY <2>1, <3>1 DEF Entry, Registry, TypeInv, TypeOK
    <3>3. Persist(r) /\ nextContent' = nextContent + 1
      BY <1>2, <2>4 DEF RegisterCommit
    <3>4. reg' \in Registry /\ disk' \in Registry /\ faulted' \in BOOLEAN
      BY <3>2, <3>3, PersistTypes
    <3>5. nextContent' \in 1..(MaxContent + 1)
      BY <3>1, <3>3, ConstantsAssumption
    <3> QED
      BY <1>2, <2>2, <3>4, <3>5 DEF RegisterCommit, TypeInv, TypeOK, Captured, Room
  <2> QED
    BY <2>3, <2>4
<1>3. CASE RevokeCommit
  <2>1. admin' \in Admin
    BY <1>3 DEF RevokeCommit, AdminCommits, AdminGoesTo, Admin, TypeInv, TypeOK
  <2>2. CASE AuditFails /\ UNCHANGED <<reg, disk, epochs, cancel, revoked, void>>
    BY <1>3, <2>1, <2>2 DEF RevokeCommit, AuditFails, TypeInv, TypeOK, Captured, Room
  <2>3. CASE ~(AuditFails /\ UNCHANGED <<reg, disk, epochs, cancel, revoked, void>>)
    <3> DEFINE t == admin.target
    <3>1. Unpaired(t) \in Registry
      BY DEF Unpaired, Without, Registry, TypeInv, TypeOK
    <3>2. reg' \in Registry /\ disk' \in Registry /\ faulted' \in BOOLEAN
      BY <1>3, <2>3, <3>1, PersistTypes DEF RevokeCommit
    <3>3. epochs' \in [Client -> 0..MaxReset]
      BY <1>3, <2>3, ConstantsAssumption DEF RevokeCommit, TypeInv, TypeOK
    <3>4. {g.id : g \in reg.consents \ Unpaired(t).consents} \subseteq 1..MaxGrantId
      BY DEF TypeInv, TypeOK, Registry, Grant
    <3>5. revoked' \subseteq 1..MaxGrantId
      BY <1>3, <2>3, <3>4 DEF RevokeCommit, TypeInv, TypeOK
    <3>6. cancel' \subseteq Op /\ void' \subseteq Op
      BY <1>3, <2>3 DEF RevokeCommit, Uses, Open, Pending, TypeInv, TypeOK
    <3> QED
      BY <1>3, <2>1, <3>2, <3>3, <3>5, <3>6 DEF RevokeCommit, TypeInv, TypeOK, Captured, Room
  <2> QED
    BY <2>2, <2>3
<1>4. CASE StopCommit
  BY <1>4
  DEF StopCommit, AdminCommits, AdminGoesTo, Admin, AuditFails, TypeInv, TypeOK, Captured, Room
<1>5. CASE AdminRefused
  BY <1>5 DEF AdminRefused, AdminGoesTo, Admin, TypeInv, TypeOK, Captured, Room
<1>6. CASE AdminEnd
  BY <1>6 DEF AdminEnd, TypeInv, TypeOK, Captured, Room
<1> QED
  BY <1>1, <1>2, <1>3, <1>4, <1>5, <1>6 DEF AdminStep

LEMMA ServiceTypes ==
  ASSUME TypeInv, Signal \/ Service \/ Crash \/ Restart
  PROVE  TypeInv'
<1>1. CASE Signal \/ StopAccepting
  BY <1>1 DEF Signal, StopAccepting, TypeInv, TypeOK, Captured, Room
<1>2. CASE Drained
  BY <1>2, EndsTypes DEF Drained, DropsPermit, TypeInv, TypeOK
<1>3. CASE StopAll
  BY <1>3 DEF StopAll, Live, TypeInv, TypeOK, Captured, Room
<1>4. CASE QuiesceAcquire
  BY <1>4 DEF QuiesceAcquire, TypeInv, TypeOK, Captured, Room
<1>5. CASE Exit \/ Crash
  BY <1>5, MemoryLostTypes DEF Exit, Crash
<1>6. CASE Restart
  BY <1>6, ConstantsAssumption DEF Restart, TypeInv, TypeOK, Captured, Room
<1> QED
  BY <1>1, <1>2, <1>3, <1>4, <1>5, <1>6 DEF Service

LEMMA TypeStep ==
  ASSUME TypeInv, OneWorkflow, [Next]_vars
  PROVE  TypeInv'
<1>1. CASE UNCHANGED vars
  BY <1>1 DEF vars, TypeInv, TypeOK, Captured, Room
<1> QED
  BY <1>1, TaskTypes, RequestTypes, AdminTypes, ServiceTypes DEF Next

LEMMA TypeInit == Init => TypeInv
<1> SUFFICES ASSUME Init PROVE TypeInv
  OBVIOUS
<1>1. disk \in Registry
  BY DEF Init, Registry
<1>2. job \in [Op -> Job]
  BY DEF Init, NoJobs, NoJob, Job
<1>3. epochs \in [Client -> 0..MaxReset]
  BY ConstantsAssumption DEF Init, NoEpochs
<1>4. pc \in [Op -> PC] /\ ticket \in [Op -> {None}] /\ result \in [Op -> {None}]
  BY DEF Init, AllIdle, NoTickets
<1>5. Captured /\ Room
  BY DEF Init, AllIdle, Captured, Room
<1>6. epoch \in 1..MaxEpoch /\ nextContent \in 1..(MaxContent + 1)
      /\ nextGrant \in 1..(MaxGrantId + 1)
  BY ConstantsAssumption DEF Init
<1>7. issued \in [Op -> SUBSET (1..MaxEpoch)] /\ runs \in [Op -> Nat]
  BY DEF Init, NoRuns
<1>8. TypeOK
  BY <1>1, <1>2, <1>3, <1>4, <1>6, <1>7 DEF Init, TypeOK
<1> QED
  BY <1>5, <1>8 DEF TypeInv

TypedPermit == TypeInv /\ PermitInv

LEMMA TypedPermitAlways == Spec => []TypedPermit
<1>1. Init => TypedPermit
  BY TypeInit, PermitInit DEF TypedPermit
<1>2. TypedPermit /\ [Next]_vars => TypedPermit'
  BY TypeStep, PermitStep DEF TypedPermit, PermitInv
<1> QED
  BY <1>1, <1>2, PTL DEF Spec

\* Every variable keeps its type: a finished task's outcome is one a receipt may
\* show, and the bounds of the model are respected.
THEOREM TypeCorrect == Spec => []TypeOK
<1>1. TypedPermit => TypeOK
  BY DEF TypedPermit, TypeInv
<1> QED
  BY <1>1, TypedPermitAlways, PTL

-----------------------------------------------------------------------------
(* At most once, and honest receipts.  The set of spent operations remembers  *)
(* what this incarnation admitted, which was addressed to it.  A task that has not dispatched yet belongs to an        *)
(* operation whose recipient was given nothing, and once the material has     *)
(* left custody the retained job says so.                                     *)

Undispatched == PC \ {"idle", "sent", "settled"}

Once(o) ==
  /\ runs[o] <= 1
  /\ pc[o] # "idle" => o \in spent
  /\ o \in spent => Up /\ epoch \in issued[o]
  /\ runs[o] > 0 => o \in spent
  /\ pc[o] \in Undispatched => runs[o] = 0

Honest(o) ==
  /\ runs[o] > 0 /\ job[o].state # "none" => job[o].mayHaveRun
  /\ runs[o] > 0 /\ pc[o] = "settled" => result[o].mayHaveRun
  /\ pc[o] \in {"effect", "sending", "sent"} /\ job[o].state # "none" => job[o].mayHaveRun

OnceInv == \A o \in Op : Once(o) /\ Honest(o)

\* A step that leaves tasks, operations and jobs alone.
LEMMA OnceFrame ==
  ASSUME OnceInv, UNCHANGED <<runs, issued, epoch, pc, spent, job, result>>, Up' = Up
  PROVE  OnceInv'
  BY DEF OnceInv, Once, Honest

\* A task settles: honestly, if its recipient was reached.
LEMMA OnceSettle ==
  ASSUME TypeInv, OnceInv, NEW o \in Op, NEW s, NEW ran \in BOOLEAN, Settle(o, s, ran),
         pc[o] \in Undispatched \/ (pc[o] = "sent" /\ ran),
         UNCHANGED <<runs, issued, epoch, phase, spent, job>>
  PROVE  OnceInv'
  BY DEF OnceInv, Once, Honest, Settle, Undispatched, Up, TypeInv, TypeOK

LEMMA OnceTask ==
  ASSUME TypeInv, OnceInv, NEW o \in Op, Machine(o) \/ Decide(o) \/ Reap(o)
  PROVE  OnceInv'
<1> USE DEF Undispatched
<1>1. CASE Spawn(o) \/ EffectStarts(o) \/ Authorize(o)
  BY <1>1 DEF Spawn, EffectStarts, Authorize, Authorizable, OnceInv, Once, Honest, Up, TypeInv,
              TypeOK
<1>2. CASE DeadlinePasses(o)
  BY <1>2, OnceFrame DEF DeadlinePasses, Up
<1>3. CASE PromptExpires(o) \/ PromptCancelled(o)
  BY <1>3, OnceSettle DEF PromptExpires, PromptCancelled
<1>4. CASE Decide(o)
  <2>1. ASSUME NEW s, Settle(o, s, FALSE) PROVE OnceInv'
    BY <1>4, <2>1, OnceSettle DEF Decide
  <2>2. ASSUME NEW d \in {"once", "always"}, pc' = [pc EXCEPT ![o] = d], UNCHANGED result
        PROVE OnceInv'
    BY <1>4, <2>2 DEF Decide, OnceInv, Once, Honest, Up, TypeInv, TypeOK
  <2> QED
    BY <1>4, <2>1, <2>2 DEF Decide
<1>5. CASE AuthorizeRefused(o)
  BY <1>5, OnceSettle DEF AuthorizeRefused
<1>6. CASE AuthorizeFaults(o)
  BY <1>6, OnceSettle DEF AuthorizeFaults, Authorizable
<1>7. CASE Release(o)
  BY <1>7 DEF Release, Starts, OnceInv, Once, Honest, Up, TypeInv, TypeOK, Job
<1>8. CASE ReleaseRefused(o)
  BY <1>8, OnceSettle DEF ReleaseRefused
<1>9. CASE EffectCancelled(o)
  BY <1>9, OnceSettle DEF EffectCancelled
<1>10. CASE NotDispatched(o)
  BY <1>10, OnceSettle DEF NotDispatched
<1>11. CASE Settled(o)
  BY <1>11, OnceSettle DEF Settled
<1>12. CASE Dispatch(o)
  BY <1>12 DEF Dispatch, OnceInv, Once, Honest, Up, TypeInv, TypeOK
<1>13. CASE Complete(o)
  <2>1. job'[o].mayHaveRun = result[o].mayHaveRun
    BY <1>13 DEF Complete, Published, TypeInv, TypeOK, Captured, Job, Result
  <2>2. \A x \in Op \ {o} : job'[x] = job[x]
    BY <1>13 DEF Complete, TypeInv, TypeOK
  <2>3. /\ \A x \in Op : pc'[x] = IF x = o THEN "idle" ELSE pc[x]
        /\ \A x \in Op \ {o} : result'[x] = result[x]
        /\ UNCHANGED <<runs, issued, epoch, phase, spent>>
    BY <1>13 DEF Complete, Ends
  <2>4. pc[o] = "settled"
    BY <1>13 DEF Complete
  <2> QED
    BY <2>1, <2>2, <2>3, <2>4 DEF OnceInv, Once, Honest, Up, TypeInv, TypeOK
<1>14. CASE Reap(o)
  BY <1>14 DEF Reap, NoJob, OnceInv, Once, Honest, Up, TypeInv, TypeOK
<1> QED
  BY <1>1, <1>2, <1>3, <1>4, <1>5, <1>6, <1>7, <1>8, <1>9, <1>10, <1>11, <1>12, <1>13,
     <1>14 DEF Machine

LEMMA OnceRequest ==
  ASSUME TypeInv, OnceInv, Request
  PROVE  OnceInv'
<1>1. ASSUME NEW o \in Op, Issue(o) PROVE OnceInv'
  BY <1>1, ConstantsAssumption DEF Issue, OnceInv, Once, Honest, Up, TypeInv, TypeOK
<1>2. ASSUME NEW o \in Op, Cancel(o) PROVE OnceInv'
  BY <1>2, OnceFrame DEF Cancel, Up
<1>3. ASSUME NEW o \in Op, NEW c \in Client, NEW p \in Profile, Reserve(o, c, p)
      PROVE  OnceInv'
  <2>1. CASE UNCHANGED <<jobVars, workVars, serviceVars, ghostVars>>
    BY <2>1, OnceFrame DEF Up
  <2>2. CASE /\ spent' = spent \cup {o}
             /\ job' = [job EXCEPT ![o] = [state |-> "pending", mayHaveRun |-> FALSE,
                                           owner |-> c, profile |-> p]]
             /\ pc' = [pc EXCEPT ![o] = "reserved"]
             /\ UNCHANGED <<result, serviceVars, ghostVars>>
    <3>1. epoch \in issued[o] /\ o \notin spent /\ Up /\ Up' = Up
      BY <1>3, <2>2 DEF Reserve, ThisIncarnation, Serving, Up
    <3>2. runs[o] = 0
      BY <3>1 DEF OnceInv, Once, TypeInv, TypeOK
    <3> QED
      BY <2>2, <3>1, <3>2 DEF OnceInv, Once, Honest, Undispatched, TypeInv, TypeOK
  <2> QED
    BY <1>3, <2>1, <2>2 DEF Reserve
<1>4. ASSUME NEW c, NEW P, NEW r, Withdraw(c, P, r) PROVE OnceInv'
  BY <1>4, OnceFrame DEF Withdraw, Up
<1>5. ASSUME NEW kind, NEW c, NEW t, AdminBegin(kind, c, t) PROVE OnceInv'
  BY <1>5, OnceFrame DEF AdminBegin, Up
<1> QED
  BY <1>1, <1>2, <1>3, <1>4, <1>5
  DEF Request, RemoveProfile, RevokeConsent, ClearConsents, RegisterBegin, RevokeBegin,
      StopBegin

LEMMA OnceAdmin ==
  ASSUME OnceInv, AdminStep
  PROVE  OnceInv'
  BY OnceFrame
  DEF AdminStep, AdminAnswer, RegisterCommit, RevokeCommit, StopCommit, AdminRefused, AdminEnd,
      Up

LEMMA OnceService ==
  ASSUME TypeInv, OnceInv, Signal \/ Service \/ Crash \/ Restart
  PROVE  OnceInv'
<1>1. CASE Signal \/ StopAccepting \/ StopAll \/ QuiesceAcquire
  BY <1>1, OnceFrame DEF Signal, StopAccepting, StopAll, QuiesceAcquire, Up
<1>2. CASE Drained
  BY <1>2 DEF Drained, Ends, OnceInv, Once, Honest, Undispatched, Up, TypeInv, TypeOK
<1>3. CASE Exit \/ Crash
  BY <1>3
  DEF Exit, Crash, MemoryLost, NoRuns, NoJobs, NoJob, AllIdle, OnceInv, Once, Honest,
      Undispatched, Up, TypeInv, TypeOK
<1>4. CASE Restart
  BY <1>4, ConstantsAssumption DEF Restart, OnceInv, Once, Honest, Up, TypeInv, TypeOK
<1> QED
  BY <1>1, <1>2, <1>3, <1>4 DEF Service

LEMMA OnceAlways == Spec => []OnceInv
<1>1. Init => OnceInv
  BY ConstantsAssumption
  DEF Init, NoJobs, NoJob, NoRuns, AllIdle, OnceInv, Once, Honest, Undispatched, Up
<1>2. TypedPermit /\ OnceInv /\ [Next]_vars => OnceInv'
  <2> SUFFICES ASSUME TypedPermit, OnceInv, [Next]_vars PROVE OnceInv'
    OBVIOUS
  <2>1. CASE UNCHANGED vars
    BY <2>1, OnceFrame DEF vars, Up
  <2> QED
    BY <2>1, OnceTask, OnceRequest, OnceAdmin, OnceService DEF Next, TypedPermit
<1> QED
  BY <1>1, <1>2, TypedPermitAlways, PTL DEF Spec

\* However often and late a request is repeated, an incarnation gives the recipient
\* an operation's material at most once, and only on a request addressed to it: what
\* was on its way to an earlier incarnation has no effect.
THEOREM AtMostOnceHolds == Spec => []AtMostOnce
<1>1. OnceInv => AtMostOnce
  BY DEF OnceInv, Once, AtMostOnce
<1> QED
  BY <1>1, OnceAlways, PTL

\* A retained job that says nothing may have run tells the truth: "false is
\* explicit evidence".
THEOREM HonestReceiptHolds == Spec => []HonestReceipt
<1>1. OnceInv => HonestReceipt
  BY DEF OnceInv, Honest, HonestReceipt
<1> QED
  BY <1>1, OnceAlways, PTL

-----------------------------------------------------------------------------
(* The job a client reads follows the task: while a task lives its job is     *)
(* unfinished and belongs to the client and destination of the ticket, what   *)
(* has left custody has its authorization on disk, and a finished job has its *)
(* own record there and has given the permit back.  What is retained was      *)
(* admitted, and what is pending has reached nobody.                          *)

Early     == {"reserved", "prompt", "once", "always"}
Effecting == {"effect", "sending", "sent"}

TaskJob(o) ==
  pc[o] # "idle" =>
    /\ job[o].owner = ticket[o].owner /\ job[o].profile = ticket[o].profile
    /\ pc[o] \in Early \cup {"authorizing"} => job[o].state = "pending"
    /\ pc[o] \in Effecting => job[o].state = "running"
    /\ pc[o] = "settled" => job[o].state \in {"pending", "running"}

Recorded(o) ==
  /\ runs[o] > 0 \/ pc[o] \in Effecting \cup {"authorizing"} =>
       Line(o, "authorized") \in log
  /\ job[o].state \in Terminal \ {"uncertain"} => Line(o, job[o].state) \in log
  /\ job[o].state \in Terminal => gate # o

Retained(o) ==
  /\ job[o].state # "none" => o \in spent
  /\ job[o].state = "pending" => runs[o] = 0

StatusInv == \A o \in Op : TaskJob(o) /\ Recorded(o) /\ Retained(o)

\* A step that leaves jobs, tasks and their records alone, and hands the permit to
\* nobody.
LEMMA StatusFrame ==
  ASSUME StatusInv, UNCHANGED <<pc, job, spent, ticket, runs, log>>, gate' = gate \/ gate' \notin Op
  PROVE  StatusInv'
  BY DEF StatusInv, TaskJob, Recorded, Retained

LEMMA StatusSettle ==
  ASSUME TypeInv, StatusInv, NEW o \in Op, NEW s, NEW ran, Settle(o, s, ran), pc[o] # "idle",
         UNCHANGED <<job, spent, ticket, runs, gate>>, log \subseteq log'
  PROVE  StatusInv'
  BY DEF StatusInv, TaskJob, Recorded, Retained, Settle, Early, Effecting, TypeInv, TypeOK

LEMMA StatusTask ==
  ASSUME TypeInv, StatusInv, NEW o \in Op, Machine(o) \/ Decide(o) \/ Reap(o)
  PROVE  StatusInv'
<1> USE DEF Early, Effecting
<1>1. CASE Spawn(o)
  BY <1>1 DEF Spawn, StatusInv, TaskJob, Recorded, Retained, TypeInv, TypeOK
<1>2. CASE EffectStarts(o)
  BY <1>2 DEF EffectStarts, StatusInv, TaskJob, Recorded, Retained, TypeInv, TypeOK
<1>3. CASE Authorize(o)
  BY <1>3 DEF Authorize, Authorizable, StatusInv, TaskJob, Recorded, Retained, TypeInv, TypeOK
<1>4. CASE DeadlinePasses(o)
  BY <1>4, StatusFrame DEF DeadlinePasses
<1>5. CASE PromptExpires(o) \/ PromptCancelled(o)
  BY <1>5, StatusSettle DEF PromptExpires, PromptCancelled
<1>6. CASE Decide(o)
  <2>1. ASSUME NEW s, Settle(o, s, FALSE) PROVE StatusInv'
    BY <1>6, <2>1, StatusSettle DEF Decide
  <2>2. ASSUME NEW d \in {"once", "always"}, pc' = [pc EXCEPT ![o] = d] PROVE StatusInv'
    BY <1>6, <2>2 DEF Decide, StatusInv, TaskJob, Recorded, Retained, TypeInv, TypeOK
  <2> QED
    BY <1>6, <2>1, <2>2 DEF Decide
<1>7. CASE AuthorizeRefused(o)
  BY <1>7, StatusSettle DEF AuthorizeRefused
<1>8. CASE AuthorizeFaults(o)
  BY <1>8, StatusSettle DEF AuthorizeFaults, Authorizable
<1>9. CASE Release(o)
  <2>1. /\ job'[o].state = "running" /\ job'[o].owner = job[o].owner
        /\ job'[o].profile = job[o].profile
    BY <1>9 DEF Release, Starts, TypeInv, TypeOK, Job
  <2>2. /\ \A x \in Op \ {o} : job'[x] = job[x] /\ pc'[x] = pc[x]
        /\ pc[o] = "authorizing" /\ pc'[o] = "effect"
        /\ UNCHANGED <<spent, ticket, runs, log, gate>>
    BY <1>9 DEF Release, TypeInv, TypeOK
  <2>3. ASSUME NEW x \in Op PROVE TaskJob(x)' /\ Retained(x)'
    BY <2>1, <2>2 DEF StatusInv, TaskJob, Retained
  <2>4. ASSUME NEW x \in Op PROVE Recorded(x)'
    BY <2>1, <2>2 DEF StatusInv, Recorded
  <2> QED
    BY <2>3, <2>4 DEF StatusInv
<1>10. CASE ReleaseRefused(o)
  BY <1>10, StatusSettle DEF ReleaseRefused
<1>11. CASE EffectCancelled(o)
  BY <1>11, StatusSettle DEF EffectCancelled
<1>12. CASE NotDispatched(o)
  BY <1>12, StatusSettle DEF NotDispatched
<1>13. CASE Settled(o)
  BY <1>13, StatusSettle DEF Settled
<1>14. CASE Dispatch(o)
  BY <1>14 DEF Dispatch, StatusInv, TaskJob, Recorded, Retained, TypeInv, TypeOK
<1>15. CASE Complete(o)
  <2>1. PICK audited \in BOOLEAN :
          /\ log' \in IF audited THEN {log \cup {Line(o, result[o].state)}}
                     ELSE {log, log \cup {Line(o, result[o].state)}}
          /\ job' = [job EXCEPT ![o].state = Published(result[o], audited).state,
                                ![o].mayHaveRun = Published(result[o], audited).mayHaveRun]
    BY <1>15 DEF Complete
  <2>2. job'[o].state = IF audited THEN result[o].state ELSE "uncertain"
    BY <1>15, <2>1 DEF Complete, Published, TypeInv, TypeOK, Captured, Job, Result
  <2>3. \A x \in Op \ {o} : job'[x] = job[x]
    BY <2>1 DEF TypeInv, TypeOK
  <2>4. log \subseteq log' /\ audited => Line(o, result[o].state) \in log'
    BY <2>1
  <2>5. /\ \A x \in Op : pc'[x] = IF x = o THEN "idle" ELSE pc[x]
        /\ \A x \in Op \ {o} : ticket'[x] = ticket[x]
        /\ gate' = None /\ runs' = runs
    BY <1>15 DEF Complete, ReleasesPermit, Ends
  <2>6. pc[o] = "settled" /\ None \notin Op /\ log \subseteq log'
    BY <1>15, <2>1, ConstantsAssumption DEF Complete
  <2>7. ASSUME NEW x \in Op PROVE Recorded(x)'
    <3>1. CASE x = o
      BY <2>2, <2>4, <2>5, <2>6, <3>1 DEF StatusInv, Recorded
    <3>2. CASE x # o
      BY <2>3, <2>5, <2>6, <3>2 DEF StatusInv, Recorded
    <3> QED
      BY <3>1, <3>2
  <2>8. ASSUME NEW x \in Op PROVE TaskJob(x)'
    BY <2>3, <2>5 DEF StatusInv, TaskJob
  <2>9. ASSUME NEW x \in Op PROVE Retained(x)'
    <3>1. job[o].state # "none" /\ job'[o].state # "pending" /\ spent' = spent
      BY <1>15, <2>2, <2>6 DEF Complete, StatusInv, TaskJob, TypeInv, TypeOK, Captured, Result
    <3> QED
      BY <2>3, <2>5, <3>1 DEF StatusInv, Retained
  <2> QED
    BY <2>7, <2>8, <2>9 DEF StatusInv
<1>16. CASE Reap(o)
  <2>1. pc[o] = "idle"
    BY <1>16 DEF Reap, StatusInv, TaskJob, TypeInv, TypeOK
  <2> QED
    BY <1>16, <2>1 DEF Reap, NoJob, StatusInv, TaskJob, Recorded, Retained, TypeInv, TypeOK
<1> QED
  BY <1>1, <1>2, <1>3, <1>4, <1>5, <1>6, <1>7, <1>8, <1>9, <1>10, <1>11, <1>12, <1>13,
     <1>14, <1>15, <1>16 DEF Machine

LEMMA StatusRequest ==
  ASSUME TypeInv, StatusInv, PermitInv, OnceInv, Request
  PROVE  StatusInv'
<1>1. ASSUME NEW o \in Op, Issue(o) \/ Cancel(o) PROVE StatusInv'
  BY <1>1, StatusFrame DEF Issue, Cancel
<1>2. ASSUME NEW o \in Op, NEW c \in Client, NEW p \in Profile, Reserve(o, c, p)
      PROVE  StatusInv'
  <2>1. CASE UNCHANGED <<jobVars, workVars, permitVars, serviceVars, ghostVars>>
    BY <2>1, StatusFrame
  <2>2. ASSUME NEW g, NEW e \in Owned(reg, c, p), gate' = o, spent' = spent \cup {o},
               job' = [job EXCEPT ![o] = [state |-> "pending", mayHaveRun |-> FALSE,
                                                     owner |-> c, profile |-> p]],
               ticket' = [ticket EXCEPT ![o] =
                            [owner |-> c, profile |-> p, content |-> e.content,
                             existing |-> g, epoch |-> epochs[c]]],
               pc' = [pc EXCEPT ![o] = "reserved"],
               UNCHANGED ghostVars
        PROVE  StatusInv'
    <3>1. pc[o] = "idle"
      BY <1>2, ConstantsAssumption DEF Reserve, PermitFree, PermitInv, OneWorkflow
    <3>2. runs[o] = 0
      BY <1>2 DEF Reserve, ThisIncarnation, Serving, Up, OnceInv, Once, TypeInv, TypeOK
    <3> QED
      BY <2>2, <3>1, <3>2 DEF Early, Effecting, StatusInv, TaskJob, Recorded, Retained, TypeInv, TypeOK
  <2> QED
    BY <1>2, <2>1, <2>2 DEF Reserve
<1>3. ASSUME NEW c, NEW P, NEW r, Withdraw(c, P, r) PROVE StatusInv'
  BY <1>3, StatusFrame DEF Withdraw
<1>4. ASSUME NEW kind, NEW c, NEW t, AdminBegin(kind, c, t) PROVE StatusInv'
  BY <1>4, StatusFrame, ConstantsAssumption DEF AdminBegin
<1> QED
  BY <1>1, <1>2, <1>3, <1>4
  DEF Request, RemoveProfile, RevokeConsent, ClearConsents, RegisterBegin, RevokeBegin,
      StopBegin

LEMMA StatusAdmin ==
  ASSUME StatusInv, AdminStep
  PROVE  StatusInv'
  BY StatusFrame, ConstantsAssumption
  DEF AdminStep, AdminAnswer, RegisterCommit, RevokeCommit, StopCommit, AdminRefused, AdminEnd

LEMMA StatusService ==
  ASSUME TypeInv, StatusInv, Signal \/ Service \/ Crash \/ Restart
  PROVE  StatusInv'
<1>1. CASE Signal \/ StopAccepting \/ StopAll \/ QuiesceAcquire \/ Restart
  BY <1>1, StatusFrame, ConstantsAssumption
  DEF Signal, StopAccepting, StopAll, QuiesceAcquire, Restart
<1>2. CASE Drained
  BY <1>2, ConstantsAssumption
  DEF Drained, Ends, DropsPermit, Early, Effecting, StatusInv, TaskJob, Recorded, Retained, TypeInv, TypeOK
<1>3. CASE Exit \/ Crash
  <2>1. \A x \in Op : pc'[x] = "idle" /\ job'[x].state = "none"
    BY <1>3 DEF Exit, Crash, MemoryLost, NoJobs, NoJob, AllIdle
  <2>2. \A x \in Op : runs'[x] = 0
    BY <1>3 DEF Exit, Crash, MemoryLost, NoRuns
  <2> QED
    BY <2>1, <2>2 DEF Early, Effecting, StatusInv, TaskJob, Recorded, Retained
<1> QED
  BY <1>1, <1>2, <1>3 DEF Service

LEMMA StatusAlways == Spec => []StatusInv
<1>1. Init => StatusInv
  BY DEF Init, NoJobs, NoJob, NoRuns, AllIdle, Early, Effecting, StatusInv, TaskJob, Recorded,
      Retained
<1>2. TypedPermit /\ OnceInv /\ StatusInv /\ [Next]_vars => StatusInv'
  <2> SUFFICES ASSUME TypedPermit, OnceInv, StatusInv, [Next]_vars PROVE StatusInv'
    OBVIOUS
  <2>1. CASE UNCHANGED vars
    BY <2>1, StatusFrame DEF vars
  <2> QED
    BY <2>1, StatusTask, StatusRequest, StatusAdmin, StatusService DEF Next, TypedPermit
<1> QED
  BY <1>1, <1>2, TypedPermitAlways, OnceAlways, PTL DEF Spec

\* A client that reads a finished receipt does not find its own job still busy.
THEOREM FinishedIsReleasedHolds == Spec => []FinishedIsReleased
<1>1. StatusInv => FinishedIsReleased
  BY DEF StatusInv, Recorded, FinishedIsReleased
<1> QED
  BY <1>1, StatusAlways, PTL

\* Nothing is dispatched before its authorization is durable, and no receipt other
\* than uncertain is shown before its own record is.
THEOREM AuditedFirstHolds == Spec => []AuditedFirst
<1>1. StatusInv => AuditedFirst
  BY DEF StatusInv, Recorded, AuditedFirst
<1> QED
  BY <1>1, StatusAlways, PTL

-----------------------------------------------------------------------------
(* Faults.  While an authorization is between its writes and its last checks  *)
(* it holds the mutex, so that no other transaction can fault the broker.     *)

LockInv ==
  /\ \A o \in Op : pc[o] = "authorizing" => lock = o /\ ~faulted
  /\ phase = "down" => ~faulted

LEMMA LockTask ==
  ASSUME TypeInv, LockInv, NEW o \in Op, Machine(o) \/ Decide(o) \/ Reap(o)
  PROVE  LockInv'
<1> USE DEF LockInv, TypeInv, TypeOK
<1>1. CASE Spawn(o) \/ EffectStarts(o) \/ Dispatch(o)
  BY <1>1 DEF Spawn, EffectStarts, Dispatch
<1>2. CASE DeadlinePasses(o) \/ Reap(o)
  BY <1>2 DEF DeadlinePasses, Reap
<1>3. CASE PromptExpires(o) \/ PromptCancelled(o)
  BY <1>3 DEF PromptExpires, PromptCancelled, Settle
<1>4. CASE Decide(o)
  <2>1. pc'[o] # "authorizing" /\ \A x \in Op \ {o} : pc'[x] = pc[x]
    BY <1>4 DEF Decide, Settle
  <2> QED
    BY <1>4, <2>1 DEF Decide
<1>5. CASE AuthorizeRefused(o) \/ AuthorizeFaults(o)
  <2>1. lock = None /\ lock' = lock /\ UNCHANGED phase /\ Up
    BY <1>5 DEF AuthorizeRefused, AuthorizeFaults, Authorizable
  <2>2. \A x \in Op : pc'[x] # "authorizing"
    BY <1>5, <2>1, ConstantsAssumption DEF AuthorizeRefused, AuthorizeFaults, Settle
  <2> QED
    BY <2>1, <2>2 DEF Up
<1>6. CASE Authorize(o)
  BY <1>6, ConstantsAssumption DEF Authorize, Authorizable, Paired, Ready
<1>7. CASE Release(o)
  BY <1>7 DEF Release
<1>8. CASE ReleaseRefused(o)
  BY <1>8 DEF ReleaseRefused, Settle
<1>9. CASE EffectCancelled(o) \/ NotDispatched(o) \/ Settled(o)
  BY <1>9 DEF EffectCancelled, NotDispatched, Settled, Settle
<1>10. CASE Complete(o)
  BY <1>10, ConstantsAssumption DEF Complete, Ends, Up
<1> QED
  BY <1>1, <1>2, <1>3, <1>4, <1>5, <1>6, <1>7, <1>8, <1>9, <1>10 DEF Machine

\* A transaction that fails does so with the mutex.
LEMMA LockFrame ==
  ASSUME LockInv, UNCHANGED <<pc, lock>>, phase' # "down",
         faulted' = faulted \/ lock = None
  PROVE  LockInv'
  BY ConstantsAssumption DEF LockInv

LEMMA LockRequest ==
  ASSUME TypeInv, LockInv, Request
  PROVE  LockInv'
<1>1. ASSUME NEW o \in Op, Issue(o) \/ Cancel(o) PROVE LockInv'
  BY <1>1, LockFrame DEF Issue, Cancel, Serving
<1>2. ASSUME NEW o \in Op, NEW c \in Client, NEW p \in Profile, Reserve(o, c, p)
      PROVE  LockInv'
  <2>1. /\ \A x \in Op : pc'[x] = "authorizing" => pc[x] = "authorizing"
        /\ lock' = lock /\ lock = None /\ phase' # "down"
    BY <1>2 DEF Reserve, Serving, TypeInv, TypeOK
  <2> QED
    BY <2>1, ConstantsAssumption DEF LockInv
<1>3. ASSUME NEW c, NEW P, NEW r, Withdraw(c, P, r) PROVE LockInv'
  BY <1>3, LockFrame DEF Withdraw, Serving
<1>4. ASSUME NEW kind, NEW c, NEW t, AdminBegin(kind, c, t) PROVE LockInv'
  BY <1>4, LockFrame DEF AdminBegin, Serving
<1> QED
  BY <1>1, <1>2, <1>3, <1>4
  DEF Request, RemoveProfile, RevokeConsent, ClearConsents, RegisterBegin, RevokeBegin,
      StopBegin

LEMMA LockAdmin ==
  ASSUME LockInv, AdminStep
  PROVE  LockInv'
<1>1. CASE AdminAnswer \/ AdminRefused \/ AdminEnd
  BY <1>1, LockFrame DEF AdminAnswer, AdminRefused, AdminEnd, Up
<1>2. CASE RegisterCommit \/ RevokeCommit \/ StopCommit
  BY <1>2, LockFrame DEF RegisterCommit, RevokeCommit, StopCommit, AdminCommits, Up
<1> QED
  BY <1>1, <1>2 DEF AdminStep

LEMMA LockService ==
  ASSUME TypeInv, LockInv, Signal \/ Service \/ Crash \/ Restart
  PROVE  LockInv'
<1>1. CASE Signal \/ StopAccepting \/ StopAll \/ QuiesceAcquire \/ Restart
  BY <1>1 DEF Signal, Serving, StopAccepting, StopAll, QuiesceAcquire, Restart, LockInv
<1>2. CASE Drained
  BY <1>2 DEF Drained, Ends, LockInv
<1>3. CASE Exit \/ Crash
  BY <1>3 DEF Exit, Crash, MemoryLost, AllIdle, LockInv
<1> QED
  BY <1>1, <1>2, <1>3 DEF Service

LEMMA LockStep ==
  ASSUME TypedPermit, LockInv, [Next]_vars
  PROVE  LockInv'
<1>1. CASE UNCHANGED vars
  BY <1>1 DEF vars, LockInv
<1> QED
  BY <1>1, LockTask, LockRequest, LockAdmin, LockService DEF Next, TypedPermit

LEMMA LockAlways == Spec => []LockInv
<1>1. Init => LockInv
  BY DEF Init, AllIdle, LockInv
<1> QED
  BY <1>1, LockStep, TypedPermitAlways, PTL DEF Spec

Frozen ==
  /\ reg' = reg /\ disk' = disk
  /\ spent' = spent
  /\ \A o \in Op : job[o].state = "pending" => job'[o].state # "running"

LEMMA FrozenTask ==
  ASSUME TypeInv, LockInv, faulted, NEW o \in Op, Machine(o) \/ Decide(o) \/ Reap(o)
  PROVE  Frozen
<1>1. CASE Authorize(o) \/ AuthorizeFaults(o) \/ Release(o)
  BY <1>1 DEF Authorize, AuthorizeFaults, Authorizable, Paired, Ready, Release, LockInv
<1>2. CASE Complete(o)
  <2>1. job'[o].state \in Terminal /\ \A x \in Op \ {o} : job'[x] = job[x]
    BY <1>2 DEF Complete, Published, TypeInv, TypeOK, Captured, Job, Result
  <2> QED
    BY <1>2, <2>1 DEF Complete, Frozen
<1>3. CASE Reap(o)
  BY <1>3 DEF Reap, NoJob, Frozen, TypeInv, TypeOK
<1>4. CASE UNCHANGED <<reg, disk, spent, job>>
  BY <1>4 DEF Frozen
<1>5. CASE Spawn(o) \/ DeadlinePasses(o) \/ PromptExpires(o) \/ PromptCancelled(o) \/ Decide(o)
           \/ AuthorizeRefused(o)
  BY <1>4, <1>5
  DEF Spawn, DeadlinePasses, PromptExpires, PromptCancelled, Decide, AuthorizeRefused
<1>6. CASE ReleaseRefused(o) \/ EffectCancelled(o) \/ EffectStarts(o) \/ Dispatch(o)
           \/ NotDispatched(o) \/ Settled(o)
  BY <1>4, <1>6
  DEF ReleaseRefused, EffectCancelled, EffectStarts, Dispatch, NotDispatched, Settled
<1> QED
  BY <1>1, <1>2, <1>3, <1>5, <1>6 DEF Machine

LEMMA FrozenStep ==
  ASSUME TypeInv, LockInv, [Next]_vars, faulted, faulted'
  PROVE  Frozen
<1>1. CASE UNCHANGED <<reg, disk, spent, job>>
  BY <1>1 DEF Frozen
<1>2. CASE Request
  <2>1. \/ \E o \in Op : Issue(o) \/ Cancel(o)
        \/ \E kind, c, t : AdminBegin(kind, c, t)
    BY <1>2
    DEF Request, RemoveProfile, RevokeConsent, ClearConsents, RegisterBegin, RevokeBegin,
        StopBegin, Reserve, Withdraw, Paired, Ready
  <2> QED
    BY <1>1, <2>1 DEF Issue, Cancel, AdminBegin
<1>3. CASE AdminStep
  BY <1>1, <1>3
  DEF AdminStep, AdminAnswer, RegisterCommit, RevokeCommit, StopCommit, AdminRefused, AdminEnd,
      AdminCommits, Paired, Ready
<1>4. CASE Signal \/ Service \/ Crash \/ Restart
  BY <1>1, <1>4
  DEF Signal, Service, StopAccepting, Drained, StopAll, QuiesceAcquire, Exit, Crash, MemoryLost,
      Restart, LockInv
<1> QED
  BY <1>1, <1>2, <1>3, <1>4, FrozenTask DEF Next, vars

\* After a failed durable write nothing durable changes, nothing is admitted and
\* nothing is released, not even by the authorization that was under way.
THEOREM FaultFreezesHolds == Spec => FaultFreezes
<1>1. TypedPermit /\ LockInv /\ [Next]_vars =>
        [faulted /\ faulted' =>
           /\ reg' = reg /\ disk' = disk
           /\ spent' = spent
           /\ \A o \in Op : job[o].state = "pending" => job'[o].state # "running"]_vars
  BY FrozenStep DEF Frozen, TypedPermit
<1> QED
  BY <1>1, TypedPermitAlways, LockAlways, PTL DEF Spec, FaultFreezes

-----------------------------------------------------------------------------
(* The registry, in memory and on disk.  A restart accepts what it finds,     *)
(* every remembered consent is bound to a destination that is registered, and *)
(* the identities of consents are not used twice, so that one whose           *)
(* revocation was acknowledged cannot come back under a new consent.          *)

Binds(r) ==
  \A g \in r.consents :
    [id |-> g.profile, owner |-> g.owner, content |-> g.content] \in r.profiles

Coherent(r) ==
  /\ IsFiniteSet(r.profiles) /\ IsFiniteSet(r.consents)
  /\ ValidRegistry(r) /\ Binds(r)

Fresh(r) == \A g \in r.consents : g.id < nextGrant /\ g.id \notin revoked

RegistryInv ==
  /\ Coherent(reg) /\ Fresh(reg)
  /\ Coherent(disk) /\ Fresh(disk)
  /\ \A i \in revoked : i < nextGrant

LEMMA BoundIsOwned ==
  ASSUME NEW r, Binds(r), NEW g \in r.consents
  PROVE  Owned(r, g.owner, g.profile) # {}
<1> DEFINE e == [id |-> g.profile, owner |-> g.owner, content |-> g.content]
<1>1. e \in r.profiles /\ e.owner = g.owner /\ e.id = g.profile
  BY DEF Binds
<1> HIDE DEF e
<1> QED
  BY <1>1 DEF Owned

\* What is left of a coherent registry is coherent if no destination and no consent
\* outlives what it rests on.
LEMMA CoherentSubset ==
  ASSUME Coherent(reg), NEW r,
         r.profiles \subseteq reg.profiles, r.consents \subseteq reg.consents,
         \A e \in r.profiles : e.owner \in r.peers,
         \A g \in r.consents : g.owner \in r.peers,
         Binds(r)
  PROVE  Coherent(r)
<1>1. /\ IsFiniteSet(r.consents) /\ Cardinality(r.consents) <= Cardinality(reg.consents)
      /\ IsFiniteSet(r.profiles) /\ Cardinality(r.profiles) <= Cardinality(reg.profiles)
  BY FS_Subset DEF Coherent
<1>2. /\ Cardinality(r.consents) \in Nat /\ Cardinality(reg.consents) \in Nat
      /\ Cardinality(r.profiles) \in Nat /\ Cardinality(reg.profiles) \in Nat
  BY <1>1, FS_CardinalityType DEF Coherent
<1>3. Cardinality(r.consents) <= MaxGrants /\ Cardinality(r.profiles) <= MaxProfiles
  BY <1>1, <1>2, ConstantsAssumption DEF Coherent, ValidRegistry
<1>4. \A g \in r.consents : Owned(r, g.owner, g.profile) # {}
  BY BoundIsOwned
<1>5. /\ \A e \in r.profiles : <<e.owner, e.id>> \in Usable
      /\ \A e, f \in r.profiles : e.id = f.id => e = f
      /\ \A g, h \in r.consents :
           g.id = h.id \/ (g.owner = h.owner /\ g.profile = h.profile) => g = h
  BY DEF Coherent, ValidRegistry
<1> QED
  BY <1>1, <1>3, <1>4, <1>5 DEF Coherent, ValidRegistry

LEMMA CoherentWithout ==
  ASSUME Coherent(reg), reg \in Registry, NEW c, NEW P
  PROVE  Coherent([reg EXCEPT !.consents = Without(c, P)])
<1> DEFINE r == [reg EXCEPT !.consents = Without(c, P)]
<1>1. r.profiles = reg.profiles /\ r.peers = reg.peers /\ r.consents \subseteq reg.consents
  BY DEF Without, Registry
<1> HIDE DEF r
<1>2. Binds(r)
  BY <1>1 DEF Binds, Coherent
<1>3. /\ \A e \in r.profiles : e.owner \in r.peers
      /\ \A g \in r.consents : g.owner \in r.peers
  BY <1>1 DEF Coherent, ValidRegistry
<1> QED
  BY <1>1, <1>2, <1>3, CoherentSubset DEF r

\* Removing a destination removes the consents that are bound to it.
LEMMA CoherentProfileRemoved ==
  ASSUME Coherent(reg), reg \in Registry, NEW c, NEW p
  PROVE  Coherent(ProfileRemoved(c, p))
<1> DEFINE r == ProfileRemoved(c, p)
<1>1. /\ r.peers = reg.peers /\ r.profiles = reg.profiles \ Owned(reg, c, p)
      /\ r.consents = Without(c, {p})
  BY DEF ProfileRemoved, Registry
<1> HIDE DEF r
<1>2. r.profiles \subseteq reg.profiles /\ r.consents \subseteq reg.consents
  BY <1>1 DEF Without
<1>3. Binds(r)
  BY <1>1 DEF Binds, Without, Owned, Coherent
<1>4. /\ \A e \in r.profiles : e.owner \in r.peers
      /\ \A g \in r.consents : g.owner \in r.peers
  BY <1>1, <1>2 DEF Coherent, ValidRegistry
<1> QED
  BY <1>2, <1>3, <1>4, CoherentSubset DEF r

\* Unpairing a client removes what it registered and what was remembered for it.
LEMMA CoherentUnpaired ==
  ASSUME Coherent(reg), reg \in Registry, NEW t
  PROVE  Coherent(Unpaired(t))
<1> DEFINE r == Unpaired(t)
<1>1. /\ r.peers = reg.peers \ {t} /\ r.profiles = {e \in reg.profiles : e.owner # t}
      /\ r.consents = {g \in reg.consents : g.owner # t \/ g.profile \notin Profile}
  BY DEF Unpaired, Without
<1> HIDE DEF r
<1>2. r.profiles \subseteq reg.profiles /\ r.consents \subseteq reg.consents
      /\ \A g \in r.consents : g.owner # t
  BY <1>1 DEF Registry, Grant
<1>3. Binds(r)
  BY <1>1, <1>2 DEF Binds, Coherent
<1>4. /\ \A e \in r.profiles : e.owner \in r.peers
      /\ \A g \in r.consents : g.owner \in r.peers
  BY <1>1, <1>2 DEF Coherent, ValidRegistry
<1> QED
  BY <1>2, <1>3, <1>4, CoherentSubset DEF r

\* One more, below the limit, is within the limit.
LEMMA OneMore ==
  ASSUME NEW S, IsFiniteSet(S), NEW x, NEW n \in Nat, Cardinality(S) < n
  PROVE  IsFiniteSet(S \cup {x}) /\ Cardinality(S \cup {x}) <= n
<1>1. Cardinality(S) \in Nat
  BY FS_CardinalityType
<1>2. /\ IsFiniteSet(S \cup {x})
      /\ Cardinality(S \cup {x}) = IF x \in S THEN Cardinality(S) ELSE Cardinality(S) + 1
  BY FS_AddElement
<1> QED
  BY <1>1, <1>2

LEMMA CoherentRegistered ==
  ASSUME Coherent(reg), reg \in Registry, NEW c, NEW p, Registrable(c, p), NEW i
  PROVE  Coherent([reg EXCEPT !.profiles = @ \cup {[id |-> p, owner |-> c, content |-> i]}])
<1> DEFINE e == [id |-> p, owner |-> c, content |-> i]
           r == [reg EXCEPT !.profiles = @ \cup {e}]
<1>1. r.peers = reg.peers /\ r.profiles = reg.profiles \cup {e} /\ r.consents = reg.consents
  BY DEF Registry
<1>2. e.id = p /\ e.owner = c
  OBVIOUS
<1> HIDE DEF e, r
<1>3. IsFiniteSet(r.profiles) /\ Cardinality(r.profiles) <= MaxProfiles
  <2>1. /\ IsFiniteSet(reg.profiles) /\ Cardinality(reg.profiles) < MaxProfiles
        /\ MaxProfiles \in Nat
    BY ConstantsAssumption DEF Registrable, Coherent
  <2> QED
    BY <1>1, <2>1, OneMore
<1>4. <<c, p>> \in Usable /\ c \in reg.peers /\ \A f \in reg.profiles : f.id # p
  BY DEF Registrable, Paired
<1>5. Binds(r)
  BY <1>1 DEF Coherent, Binds
<1>6. \A g \in r.consents : g.owner \in r.peers /\ Owned(r, g.owner, g.profile) # {}
  BY <1>1, <1>5, BoundIsOwned DEF Coherent, ValidRegistry
<1>7. /\ \A f \in r.profiles : f.owner \in r.peers /\ <<f.owner, f.id>> \in Usable
      /\ \A f, h \in r.profiles : f.id = h.id => f = h
  BY <1>1, <1>2, <1>4 DEF Coherent, ValidRegistry
<1>8. /\ IsFiniteSet(r.consents) /\ Cardinality(r.consents) <= MaxGrants
      /\ \A g, h \in r.consents :
           g.id = h.id \/ (g.owner = h.owner /\ g.profile = h.profile) => g = h
  BY <1>1 DEF Coherent, ValidRegistry
<1>9. Coherent(r)
  BY <1>3, <1>5, <1>6, <1>7, <1>8 DEF Coherent, ValidRegistry
<1> QED
  BY <1>9 DEF r, e

Destination(t) == [id |-> t.profile, owner |-> t.owner, content |-> t.content]

\* A consent is added for the destination its ticket names, if that is still the
\* one registered.
LEMMA CoherentRemembering ==
  ASSUME Coherent(reg), Fresh(reg), TypeInv, NEW o \in Op, Authorizable(o),
         pc[o] = "always", Destination(ticket[o]) \in reg.profiles
  PROVE  Coherent(Remembering(o))
<1> DEFINE t == ticket[o]
           n == [id |-> nextGrant, owner |-> t.owner, profile |-> t.profile,
                 content |-> t.content]
           r == Remembering(o)
<1>1. r.peers = reg.peers /\ r.profiles = reg.profiles /\ r.consents = reg.consents \cup {n}
  BY DEF Remembering, Registry, TypeInv, TypeOK
<1>2. n.id = nextGrant /\ n.owner = t.owner /\ n.profile = t.profile /\ n.content = t.content
  OBVIOUS
<1> HIDE DEF n, r
<1>3. /\ t.owner \in reg.peers /\ Covering(reg, t.owner, t.profile) = {}
      /\ Cardinality(reg.consents) < MaxGrants
  BY DEF Authorizable, CanRemember, Permitted, Paired
<1>4. IsFiniteSet(r.consents) /\ Cardinality(r.consents) <= MaxGrants
  <2>1. IsFiniteSet(reg.consents) /\ MaxGrants \in Nat
    BY ConstantsAssumption DEF Coherent
  <2>2. Cardinality(reg.consents) < MaxGrants
    BY <1>3
  <2>3. IsFiniteSet(reg.consents \cup {n}) /\ Cardinality(reg.consents \cup {n}) <= MaxGrants
    BY <2>1, <2>2, OneMore
  <2> QED
    BY <1>1, <2>3
<1>5. Binds(r)
  BY <1>1, <1>2 DEF Binds, Coherent, Destination
<1>6. \A g \in r.consents : g.owner \in r.peers /\ Owned(r, g.owner, g.profile) # {}
  BY <1>1, <1>2, <1>3, <1>5, BoundIsOwned DEF Coherent, ValidRegistry
<1>7. \A g \in reg.consents : g.id # nextGrant /\ ~(g.owner = t.owner /\ g.profile = t.profile)
  BY <1>3 DEF Fresh, Covering, Registry, Grant, TypeInv, TypeOK
<1>8. \A g, h \in r.consents :
        g.id = h.id \/ (g.owner = h.owner /\ g.profile = h.profile) => g = h
  BY <1>1, <1>2, <1>7 DEF Coherent, ValidRegistry
<1>9. /\ IsFiniteSet(r.profiles) /\ Cardinality(r.profiles) <= MaxProfiles
      /\ \A e \in r.profiles : e.owner \in r.peers /\ <<e.owner, e.id>> \in Usable
      /\ \A e, f \in r.profiles : e.id = f.id => e = f
  BY <1>1 DEF Coherent, ValidRegistry
<1>10. Coherent(r)
  BY <1>4, <1>5, <1>6, <1>8, <1>9 DEF Coherent, ValidRegistry
<1> QED
  BY <1>10 DEF r

\* A step that leaves the registry, and what has been revoked, alone.
LEMMA RegistryFrame ==
  ASSUME RegistryInv, UNCHANGED <<reg, disk, nextGrant, revoked>>
  PROVE  RegistryInv'
  BY DEF RegistryInv, Coherent, ValidRegistry, Owned, Binds, Fresh

\* What a withdrawal leaves is written, and what it removed is revoked once that is
\* durable: no consent that is left has the identity of one that was removed.
LEMMA RegistryWithdrawn ==
  ASSUME RegistryInv, NEW r, Coherent(r), r.consents \subseteq reg.consents, Persist(r),
         nextGrant' = nextGrant,
         revoked' = IF faulted' THEN revoked
                    ELSE revoked \cup {g.id : g \in reg.consents \ r.consents}
  PROVE  RegistryInv'
<1>1. reg' = r /\ disk' \in {disk, r} /\ (~faulted' => disk' = r)
  BY DEF Persist
<1>2. Coherent(reg') /\ Coherent(disk')
  BY <1>1 DEF RegistryInv
<1>3. \A g \in r.consents, h \in reg.consents \ r.consents : g.id # h.id
  BY DEF RegistryInv, Coherent, ValidRegistry
<1>4. \A i \in revoked' : i < nextGrant'
  BY DEF RegistryInv, Fresh
<1>5. \A g \in r.consents : g.id < nextGrant /\ g.id \notin revoked'
  BY <1>3 DEF RegistryInv, Fresh
<1>6. \A g \in disk'.consents : g.id < nextGrant /\ g.id \notin revoked'
  BY <1>1, <1>5 DEF RegistryInv, Fresh
<1> QED
  BY <1>1, <1>2, <1>4, <1>5, <1>6 DEF RegistryInv, Coherent, ValidRegistry, Owned, Binds, Fresh

LEMMA RegistryRegistered ==
  ASSUME RegistryInv, NEW r, Coherent(r), r.consents = reg.consents, Persist(r),
         UNCHANGED <<nextGrant, revoked>>
  PROVE  RegistryInv'
<1>1. reg' = r /\ disk' \in {disk, r}
  BY DEF Persist
<1>2. Coherent(reg') /\ Coherent(disk')
  BY <1>1 DEF RegistryInv
<1> QED
  BY <1>1, <1>2 DEF RegistryInv, Coherent, ValidRegistry, Owned, Binds, Fresh

\* A lasting consent gets an identity that no consent had.
LEMMA RegistryRemembered ==
  ASSUME RegistryInv, TypeInv, NEW o \in Op, Authorizable(o), pc[o] = "always",
         Destination(ticket[o]) \in reg.profiles,
         reg' = Remembering(o), disk' \in {disk, Remembering(o)},
         nextGrant' = nextGrant + 1, revoked' = revoked
  PROVE  RegistryInv'
<1>1. Coherent(Remembering(o))
  BY CoherentRemembering DEF RegistryInv
<1>2. Coherent(reg') /\ Coherent(disk')
  BY <1>1 DEF RegistryInv
<1>3. nextGrant \in Nat /\ revoked \subseteq Nat
      /\ \A g \in reg.consents \cup disk.consents : g.id \in Nat
  BY ConstantsAssumption DEF TypeInv, TypeOK, Registry, Grant
<1>4. nextGrant \notin revoked /\ \A i \in revoked : i < nextGrant + 1
  BY <1>3 DEF RegistryInv
<1>5. \A g \in Remembering(o).consents : g.id < nextGrant + 1 /\ g.id \notin revoked
  BY <1>3, <1>4 DEF Remembering, RegistryInv, Fresh, TypeInv, TypeOK, Registry
<1>6. \A g \in disk.consents : g.id < nextGrant + 1 /\ g.id \notin revoked
  BY <1>3 DEF RegistryInv, Fresh
<1> QED
  BY <1>2, <1>4, <1>5, <1>6 DEF RegistryInv, Coherent, ValidRegistry, Owned, Binds, Fresh

-----------------------------------------------------------------------------
(* What a decision rests on.  From its admission to its authorization an      *)
(* operation that was not cancelled and whose client is still paired names    *)
(* the destination that is registered: removing it cancels the operation, and *)
(* registering another content needs the permit, which the operation has.     *)

Standing(o) ==
  LET t == ticket[o] IN
  /\ pc[o] # "idle" /\ t.owner \in reg.peers => t.epoch <= epochs[t.owner]
  /\ pc[o] \in Early /\ o \notin cancel /\ t.owner \in reg.peers =>
       Destination(t) \in reg.profiles
  /\ pc[o] = "authorizing" =>
       /\ Destination(t) \in reg.profiles
       /\ t.existing # 0 => \E g \in reg.consents : g.id = t.existing /\ g.content = t.content

StandingInv == \A o \in Op : Standing(o)

\* The context that the authority of an operation is reasoned about in.
Base == TypedPermit /\ OnceInv /\ StatusInv /\ LockInv

LEMMA BaseAlways == Spec => []Base
  BY TypedPermitAlways, OnceAlways, StatusAlways, LockAlways, PTL DEF Base

LEMMA StandingFrame ==
  ASSUME StandingInv, UNCHANGED <<pc, ticket, reg, epochs>>, cancel \subseteq cancel'
  PROVE  StandingInv'
  BY DEF StandingInv, Standing, Destination

LEMMA StandingSettle ==
  ASSUME Base, StandingInv, NEW o \in Op, NEW s, NEW ran, Settle(o, s, ran), pc[o] # "idle",
         UNCHANGED <<ticket, reg, epochs>>, cancel \subseteq cancel'
  PROVE  StandingInv'
  BY DEF StandingInv, Standing, Destination, Settle, Early, Base, TypedPermit, TypeInv, TypeOK

\* While one task lives every other is idle.
LEMMA Alone ==
  ASSUME PermitInv, NEW o \in Op, pc[o] # "idle"
  PROVE  \A x \in Op \ {o} : pc[x] = "idle"
  BY DEF PermitInv, OneWorkflow

LEMMA AdminAlone ==
  ASSUME PermitInv, admin # None
  PROVE  \A x \in Op : pc[x] = "idle"
  BY ConstantsAssumption DEF PermitInv, OneWorkflow

\* The destination that may be used is the one the human is asked about.
LEMMA StandsAtUse ==
  ASSUME Base, StandingInv, NEW o \in Op, Authorizable(o)
  PROVE  Destination(ticket[o]) \in reg.profiles
  BY DEF Authorizable, Cancelled, Paired, Early, StandingInv, Standing

\* A remembered consent that may be used was given for the content of the ticket.
LEMMA ConsentAtUse ==
  ASSUME Base, RegistryInv, StandingInv, NEW o \in Op, Authorizable(o),
         ticket[o].existing # 0
  PROVE  \E g \in reg.consents :
           g.id = ticket[o].existing /\ g.content = ticket[o].content
<1> DEFINE t == ticket[o]
<1>1. PICK g \in reg.consents : g.id = t.existing /\ g.owner = t.owner /\ g.profile = t.profile
  BY DEF Authorizable, Permitted, ConsentStands, Covering
<1> DEFINE e == [id |-> g.profile, owner |-> g.owner, content |-> g.content]
           d == Destination(t)
<1>2. e \in reg.profiles /\ d \in reg.profiles
  BY StandsAtUse DEF RegistryInv, Coherent, Binds
<1>3. e.id = g.profile /\ d.id = t.profile /\ e.content = g.content /\ d.content = t.content
  BY DEF Destination
<1> HIDE DEF e, d
<1>4. e = d
  BY <1>1, <1>2, <1>3 DEF RegistryInv, Coherent, ValidRegistry
<1> QED
  BY <1>1, <1>3, <1>4

LEMMA RegistryTask ==
  ASSUME Base, RegistryInv, StandingInv, NEW o \in Op, Machine(o) \/ Decide(o) \/ Reap(o)
  PROVE  RegistryInv'
<1>1. CASE Authorize(o) \/ AuthorizeFaults(o)
  <2>1. Authorizable(o) /\ Destination(ticket[o]) \in reg.profiles /\ revoked' = revoked
    BY <1>1, StandsAtUse DEF Authorize, AuthorizeFaults
  <2>2. CASE UNCHANGED <<reg, disk, nextGrant>>
    BY <2>1, <2>2, RegistryFrame
  <2>3. CASE pc[o] = "always" /\ ~UNCHANGED <<reg, disk, nextGrant>>
    <3>1. /\ reg' = Remembering(o) /\ disk' \in {disk, Remembering(o)}
          /\ nextGrant' = nextGrant + 1
      BY <1>1, <2>3 DEF Authorize, AuthorizeFaults
    <3> QED
      BY <2>1, <2>3, <3>1, RegistryRemembered DEF Base, TypedPermit
  <2>4. CASE pc[o] # "always"
    BY <1>1, <2>2, <2>4 DEF Authorize, AuthorizeFaults, Remembering
  <2> QED
    BY <2>2, <2>3, <2>4
<1>2. CASE Spawn(o) \/ DeadlinePasses(o) \/ PromptExpires(o) \/ PromptCancelled(o) \/ Decide(o)
           \/ AuthorizeRefused(o) \/ Release(o) \/ Reap(o)
  BY <1>2, RegistryFrame
  DEF Spawn, DeadlinePasses, PromptExpires, PromptCancelled, Decide, AuthorizeRefused, Release,
      Reap
<1>3. CASE ReleaseRefused(o) \/ EffectCancelled(o) \/ EffectStarts(o) \/ Dispatch(o)
           \/ NotDispatched(o) \/ Settled(o) \/ Complete(o)
  BY <1>3, RegistryFrame
  DEF ReleaseRefused, EffectCancelled, EffectStarts, Dispatch, NotDispatched, Settled, Complete
<1> QED
  BY <1>1, <1>2, <1>3 DEF Machine

LEMMA RegistryRequest ==
  ASSUME Base, RegistryInv, Request
  PROVE  RegistryInv'
<1>0. reg \in Registry /\ Coherent(reg)
  BY DEF Base, TypedPermit, TypeInv, TypeOK, RegistryInv
<1>1. ASSUME NEW o \in Op, Issue(o) \/ Cancel(o) PROVE RegistryInv'
  BY <1>1, RegistryFrame DEF Issue, Cancel
<1>2. ASSUME NEW o \in Op, NEW c \in Client, NEW p \in Profile, Reserve(o, c, p)
      PROVE  RegistryInv'
  BY <1>2, RegistryFrame DEF Reserve
<1>3. ASSUME NEW c, NEW P, NEW r, Withdraw(c, P, r), Coherent(r), r.consents \subseteq reg.consents
      PROVE  RegistryInv'
  BY <1>3, RegistryFrame, RegistryWithdrawn DEF Withdraw
<1>4. ASSUME NEW c \in Client, NEW p \in Profile, RemoveProfile(c, p) PROVE RegistryInv'
  <2>1. ProfileRemoved(c, p).consents \subseteq reg.consents
    BY <1>0 DEF ProfileRemoved, Without, Registry
  <2> QED
    BY <1>0, <1>3, <1>4, <2>1, CoherentProfileRemoved DEF RemoveProfile
<1>5. ASSUME NEW c \in Client, NEW P, Withdraw(c, P, [reg EXCEPT !.consents = Without(c, P)])
      PROVE  RegistryInv'
  <2>1. [reg EXCEPT !.consents = Without(c, P)].consents \subseteq reg.consents
    BY <1>0 DEF Without, Registry
  <2> QED
    BY <1>0, <1>3, <1>5, <2>1, CoherentWithout
<1>6. ASSUME NEW kind, NEW c, NEW t, AdminBegin(kind, c, t) PROVE RegistryInv'
  BY <1>6, RegistryFrame DEF AdminBegin
<1> QED
  BY <1>1, <1>2, <1>4, <1>5, <1>6
  DEF Request, RevokeConsent, ClearConsents, RegisterBegin, RevokeBegin, StopBegin

LEMMA RegistryAdmin ==
  ASSUME Base, RegistryInv, AdminStep
  PROVE  RegistryInv'
<1>0. reg \in Registry /\ Coherent(reg)
  BY DEF Base, TypedPermit, TypeInv, TypeOK, RegistryInv
<1>1. CASE AdminAnswer \/ StopCommit \/ AdminRefused \/ AdminEnd
  BY <1>1, RegistryFrame DEF AdminAnswer, StopCommit, AdminRefused, AdminEnd
<1>2. CASE RegisterCommit
  <2> DEFINE r == [reg EXCEPT !.profiles = @ \cup
                     {[id |-> admin.target, owner |-> admin.client, content |-> nextContent]}]
  <2>1. Coherent(r) /\ r.consents = reg.consents
    BY <1>0, <1>2, CoherentRegistered DEF RegisterCommit, Registry
  <2> HIDE DEF r
  <2>2. UNCHANGED <<nextGrant, revoked>> /\ (UNCHANGED <<reg, disk>> \/ Persist(r))
    BY <1>2 DEF RegisterCommit, r
  <2> QED
    BY <2>1, <2>2, RegistryFrame, RegistryRegistered
<1>3. CASE RevokeCommit
  <2> DEFINE r == Unpaired(admin.target)
  <2>1. Coherent(r) /\ r.consents \subseteq reg.consents
    BY <1>0, CoherentUnpaired DEF Unpaired, Without
  <2> HIDE DEF r
  <2>2. \/ UNCHANGED <<reg, disk, nextGrant, revoked>>
        \/ /\ Persist(r) /\ nextGrant' = nextGrant
           /\ revoked' = IF faulted' THEN revoked
                         ELSE revoked \cup {g.id : g \in reg.consents \ r.consents}
    BY <1>3 DEF RevokeCommit, r
  <2> QED
    BY <2>1, <2>2, RegistryFrame, RegistryWithdrawn
<1> QED
  BY <1>1, <1>2, <1>3 DEF AdminStep

LEMMA CoherentBlank == Coherent(Blank) /\ Blank.consents = {}
  BY FS_EmptySet, ConstantsAssumption DEF Blank, Coherent, ValidRegistry, Binds, Owned

LEMMA RegistryService ==
  ASSUME RegistryInv, Signal \/ Service \/ Crash \/ Restart
  PROVE  RegistryInv'
<1>1. CASE Signal \/ StopAccepting \/ Drained \/ StopAll \/ QuiesceAcquire
  BY <1>1, RegistryFrame DEF Signal, StopAccepting, Drained, StopAll, QuiesceAcquire
<1>2. CASE Exit \/ Crash
  <2>1. reg' = Blank /\ disk' = disk /\ nextGrant' = nextGrant /\ revoked' = revoked
    BY <1>2 DEF Exit, Crash, MemoryLost
  <2> QED
    BY <2>1, CoherentBlank DEF RegistryInv, Coherent, ValidRegistry, Owned, Binds, Fresh
<1>3. CASE Restart
  BY <1>3 DEF Restart, RegistryInv, Coherent, ValidRegistry, Owned, Binds, Fresh
<1> QED
  BY <1>1, <1>2, <1>3 DEF Service

LEMMA StandingTask ==
  ASSUME Base, RegistryInv, StandingInv, NEW o \in Op, Machine(o) \/ Decide(o) \/ Reap(o)
  PROVE  StandingInv'
<1>0. pc \in [Op -> PC] /\ cancel \subseteq Op
  BY DEF Base, TypedPermit, TypeInv, TypeOK
<1>1. CASE Authorize(o)
  <2> DEFINE t == ticket[o]
  <2>1. \A x \in Op \ {o} : pc'[x] = "idle"
    BY <1>0, <1>1, Alone DEF Authorize, Authorizable, Base, TypedPermit
  <2>2. pc'[o] = "authorizing" /\ pc[o] \in Early /\ UNCHANGED <<ticket, epochs, cancel>>
    BY <1>0, <1>1 DEF Authorize, Authorizable, Early
  <2>3. /\ reg'.peers = reg.peers /\ reg'.profiles = reg.profiles
        /\ reg.consents \subseteq reg'.consents
    BY <1>1 DEF Authorize, Remembering, Base, TypedPermit, TypeInv, TypeOK, Registry
  <2>4. Authorizable(o)
    BY <1>1 DEF Authorize
  <2>5. Destination(t) \in reg.profiles
    BY <2>4, StandsAtUse
  <2>6. t.existing # 0 => \E g \in reg.consents : g.id = t.existing /\ g.content = t.content
    BY <2>4, ConsentAtUse
  <2> QED
    BY <2>1, <2>2, <2>3, <2>5, <2>6 DEF StandingInv, Standing, Destination, Early
<1>2. CASE AuthorizeFaults(o)
  <2>1. \A x \in Op : pc'[x] \in {"idle", "settled"}
    BY <1>0, <1>2, Alone DEF AuthorizeFaults, Authorizable, Settle, Base, TypedPermit
  <2>2. pc[o] # "idle" /\ \A x \in Op \ {o} : pc'[x] = "idle"
    BY <1>0, <1>2, Alone DEF AuthorizeFaults, Authorizable, Settle, Base, TypedPermit
  <2>3. reg'.peers = reg.peers /\ UNCHANGED <<ticket, epochs>>
    BY <1>2 DEF AuthorizeFaults, Remembering, Base, TypedPermit, TypeInv, TypeOK, Registry
  <2> QED
    BY <2>1, <2>2, <2>3 DEF StandingInv, Standing, Early
<1>3. CASE Spawn(o) \/ EffectStarts(o) \/ Dispatch(o) \/ Release(o) \/ DeadlinePasses(o) \/ Reap(o)
  BY <1>0, <1>3
  DEF Spawn, EffectStarts, Dispatch, Release, DeadlinePasses, Reap, StandingInv, Standing,
      Destination, Early
<1>4. CASE Decide(o)
  <2>1. ASSUME NEW s, Settle(o, s, FALSE) PROVE StandingInv'
    BY <1>4, <2>1, StandingSettle DEF Decide
  <2>2. ASSUME NEW d \in {"once", "always"}, pc' = [pc EXCEPT ![o] = d] PROVE StandingInv'
    BY <1>0, <1>4, <2>2 DEF Decide, StandingInv, Standing, Destination, Early
  <2> QED
    BY <1>4, <2>1, <2>2 DEF Decide
<1>5. CASE PromptExpires(o) \/ PromptCancelled(o) \/ AuthorizeRefused(o) \/ ReleaseRefused(o)
  BY <1>5, StandingSettle
  DEF PromptExpires, PromptCancelled, AuthorizeRefused, ReleaseRefused
<1>6. CASE EffectCancelled(o) \/ NotDispatched(o) \/ Settled(o)
  BY <1>6, StandingSettle DEF EffectCancelled, NotDispatched, Settled
<1>7. CASE Complete(o)
  <2>1. \A x \in Op : pc'[x] = "idle"
    BY <1>0, <1>7, Alone DEF Complete, Ends, Base, TypedPermit
  <2> QED
    BY <2>1 DEF StandingInv, Standing, Early
<1> QED
  BY <1>1, <1>2, <1>3, <1>4, <1>5, <1>6, <1>7 DEF Machine

\* A withdrawal that keeps the destinations of the uses it does not cancel.
LEMMA StandingWithdrawn ==
  ASSUME Base, StandingInv, NEW c \in Client, NEW P, NEW r, Withdraw(c, P, r),
         r.peers = reg.peers,
         \A e \in reg.profiles : e \in r.profiles \/ (e.owner = c /\ e.id \in P)
  PROVE  StandingInv'
<1>1. CASE UNCHANGED <<reg, epochs, cancel>>
  BY <1>1, StandingFrame DEF Withdraw
<1>2. CASE ~UNCHANGED <<reg, epochs, cancel>>
  <2>1. /\ reg' = r /\ epochs' = [epochs EXCEPT ![c] = @ + 1]
        /\ cancel' = cancel \cup Uses(c, P) /\ UNCHANGED <<pc, ticket, job>>
        /\ lock = None
    BY <1>2 DEF Withdraw, Persist
  <2>2. \A d \in Client : epochs[d] \in Nat /\ epochs'[d] \in Nat /\ epochs[d] <= epochs'[d]
    BY <2>1, ConstantsAssumption DEF Base, TypedPermit, TypeInv, TypeOK
  <2>3. ASSUME NEW o \in Op, pc[o] # "idle" PROVE ticket[o] \in Ticket
    BY <2>3 DEF Base, TypedPermit, TypeInv, Captured
  <2>4. \A o \in Op : pc[o] # "authorizing"
    BY <2>1, ConstantsAssumption DEF Base, LockInv
  <2>5. ASSUME NEW o \in Op, pc[o] # "idle", ticket[o].owner \in reg.peers
        PROVE  ticket[o].epoch <= epochs'[ticket[o].owner]
    BY <2>2, <2>3, <2>5, ConstantsAssumption DEF StandingInv, Standing, Ticket
  <2>6. ASSUME NEW o \in Op, pc[o] \in Early, o \notin cancel', ticket[o].owner \in reg.peers
        PROVE  Destination(ticket[o]) \in r.profiles
    <3>1. Destination(ticket[o]) \in reg.profiles
      BY <2>1, <2>6 DEF StandingInv, Standing
    <3>2. /\ job[o].state = "pending"
          /\ job[o].owner = ticket[o].owner /\ job[o].profile = ticket[o].profile
      BY <2>6 DEF Base, StatusInv, TaskJob, Early
    <3>3. ~(ticket[o].owner = c /\ ticket[o].profile \in P)
      BY <2>1, <2>6, <3>2 DEF Uses, Open
    <3>4. /\ Destination(ticket[o]).owner = ticket[o].owner
          /\ Destination(ticket[o]).id = ticket[o].profile
      BY DEF Destination
    <3> QED
      BY <3>1, <3>3, <3>4
  <2> QED
    BY <2>1, <2>4, <2>5, <2>6 DEF StandingInv, Standing, Destination, Early
<1> QED
  BY <1>1, <1>2

LEMMA StandingRequest ==
  ASSUME Base, RegistryInv, StandingInv, Request
  PROVE  StandingInv'
<1>0. reg \in Registry /\ pc \in [Op -> PC] /\ ticket \in [Op -> Ticket \cup {None}]
  BY DEF Base, TypedPermit, TypeInv, TypeOK
<1>1. ASSUME NEW o \in Op, Issue(o) \/ Cancel(o) PROVE StandingInv'
  BY <1>1, StandingFrame DEF Issue, Cancel
<1>2. ASSUME NEW o \in Op, NEW c \in Client, NEW p \in Profile, Reserve(o, c, p)
      PROVE  StandingInv'
  <2>1. CASE UNCHANGED <<pc, ticket, reg, epochs, cancel>>
    BY <2>1, StandingFrame
  <2>2. ASSUME NEW e \in Owned(reg, c, p), NEW g,
               ticket' = [ticket EXCEPT ![o] =
                            [owner |-> c, profile |-> p, content |-> e.content,
                             existing |-> g, epoch |-> epochs[c]]],
               pc' = [pc EXCEPT ![o] = "reserved"],
               UNCHANGED <<reg, epochs, cancel>>
        PROVE  StandingInv'
    <3>1. Destination(ticket'[o]) = [id |-> p, owner |-> c, content |-> e.content]
      BY <1>0, <2>2 DEF Destination
    <3>2. e \in Entry /\ e.owner = c /\ e.id = p /\ e \in reg.profiles
      BY <1>0 DEF Owned, Registry
    <3>3. Destination(ticket'[o]) = e
      BY <3>1, <3>2 DEF Entry
    <3>4. ticket'[o].epoch = epochs'[ticket'[o].owner] /\ epochs'[ticket'[o].owner] \in Nat
      BY <1>0, <2>2, ConstantsAssumption DEF Base, TypedPermit, TypeInv, TypeOK
    <3>5. \A x \in Op \ {o} : Standing(x)'
      BY <1>0, <2>2 DEF StandingInv, Standing, Destination
    <3>6. Standing(o)'
      BY <1>0, <2>2, <3>2, <3>3, <3>4 DEF Standing
    <3> QED
      BY <3>5, <3>6 DEF StandingInv
  <2> QED
    BY <1>2, <2>1, <2>2 DEF Reserve
<1>3. ASSUME NEW c \in Client, NEW p \in Profile, RemoveProfile(c, p) PROVE StandingInv'
  <2> DEFINE r == ProfileRemoved(c, p)
  <2>1. r.peers = reg.peers /\ r.profiles = reg.profiles \ Owned(reg, c, p)
    BY <1>0 DEF ProfileRemoved, Registry
  <2>2. \A e \in reg.profiles : e \in r.profiles \/ (e.owner = c /\ e.id \in {p})
    BY <2>1 DEF Owned
  <2>3. Withdraw(c, {p}, r)
    BY <1>3 DEF RemoveProfile
  <2> HIDE DEF r
  <2> QED
    BY <2>1, <2>2, <2>3, StandingWithdrawn
<1>4. ASSUME NEW c \in Client, NEW P, Withdraw(c, P, [reg EXCEPT !.consents = Without(c, P)])
      PROVE  StandingInv'
  BY <1>0, <1>4, StandingWithdrawn DEF Registry
<1>5. ASSUME NEW kind, NEW c, NEW t, AdminBegin(kind, c, t) PROVE StandingInv'
  BY <1>5, StandingFrame DEF AdminBegin
<1> QED
  BY <1>1, <1>2, <1>3, <1>4, <1>5
  DEF Request, RevokeConsent, ClearConsents, RegisterBegin, RevokeBegin, StopBegin

LEMMA StandingAdmin ==
  ASSUME Base, StandingInv, AdminStep
  PROVE  StandingInv'
<1>1. admin # None /\ pc' = pc
  BY DEF AdminStep, AdminAnswer, RegisterCommit, RevokeCommit, StopCommit, AdminRefused,
         AdminEnd, AdminCommits
<1>2. \A o \in Op : pc'[o] = "idle"
  BY <1>1, AdminAlone DEF Base, TypedPermit
<1> QED
  BY <1>2 DEF StandingInv, Standing, Early

LEMMA StandingService ==
  ASSUME Base, StandingInv, Signal \/ Service \/ Crash \/ Restart
  PROVE  StandingInv'
<1>1. CASE Signal \/ StopAccepting \/ StopAll \/ QuiesceAcquire
  BY <1>1, StandingFrame DEF Signal, StopAccepting, StopAll, QuiesceAcquire
<1>2. CASE Drained
  BY <1>2 DEF Drained, Ends, Unspawned, StandingInv, Standing, Destination, Early
<1>3. CASE Exit \/ Crash \/ Restart
  <2>1. \A o \in Op : pc'[o] = "idle"
    BY <1>3
    DEF Exit, Crash, MemoryLost, AllIdle, Restart, Base, OnceInv, Once, Up
  <2> QED
    BY <2>1 DEF StandingInv, Standing, Early
<1> QED
  BY <1>1, <1>2, <1>3 DEF Service

LEMMA AuthorityAlways == Spec => [](RegistryInv /\ StandingInv)
<1>1. Init => RegistryInv /\ StandingInv
  BY FS_EmptySet, ConstantsAssumption
  DEF Init, RegistryInv, Coherent, ValidRegistry, Binds, Fresh, Owned, StandingInv, Standing,
      AllIdle, Early
<1>2. Base /\ RegistryInv /\ StandingInv /\ [Next]_vars => RegistryInv' /\ StandingInv'
  <2> SUFFICES ASSUME Base, RegistryInv, StandingInv, [Next]_vars
               PROVE  RegistryInv' /\ StandingInv'
    OBVIOUS
  <2>1. CASE UNCHANGED vars
    BY <2>1, RegistryFrame, StandingFrame DEF vars
  <2>2. CASE Next
    <3>1. RegistryInv'
      BY <2>2, RegistryTask, RegistryRequest, RegistryAdmin, RegistryService DEF Next
    <3>2. StandingInv'
      BY <2>2, StandingTask, StandingRequest, StandingAdmin, StandingService DEF Next
    <3> QED
      BY <3>1, <3>2
  <2> QED
    BY <2>1, <2>2
<1> QED
  BY <1>1, <1>2, BaseAlways, PTL DEF Spec

\* A remembered consent stands for the very destination the human read, whichever
\* client registers, removes or is unpaired, in memory and on disk.
THEOREM ConsentBindsContentHolds == Spec => []ConsentBindsContent
<1>1. RegistryInv => ConsentBindsContent
  BY DEF RegistryInv, Coherent, Binds, ConsentBindsContent
<1> QED
  BY <1>1, AuthorityAlways, PTL

\* A consent whose revocation was acknowledged exists nowhere, not after a crash or
\* a failed write, and no later consent takes its identity.
THEOREM RevokedStaysRevokedHolds == Spec => []RevokedStaysRevoked
<1>1. RegistryInv => RevokedStaysRevoked
  BY DEF RegistryInv, Fresh, RevokedStaysRevoked
<1> QED
  BY <1>1, AuthorityAlways, PTL

\* Whatever was written last, and whichever write failed, the next incarnation
\* accepts the registry it finds.
THEOREM DiskReopensHolds == Spec => []DiskReopens
<1>1. RegistryInv => DiskReopens
  BY DEF RegistryInv, Coherent, DiskReopens
<1> QED
  BY <1>1, AuthorityAlways, PTL

\* Material leaves custody only for the destination the human was shown, still
\* registered for the client that asked, and for no consent that has gone.
THEOREM ReleaseAsApprovedHolds == Spec => ReleaseAsApproved
<1> DEFINE Released(o) == job[o].state = "pending" /\ job'[o].state = "running"
           Approved(o) ==
             LET t == ticket[o] IN
             /\ [id |-> job[o].profile, owner |-> job[o].owner,
                 content |-> t.content] \in reg.profiles
             /\ t.existing # 0 =>
                  \E g \in reg.consents : g.id = t.existing /\ g.content = t.content
<1>1. ASSUME TypeInv, StatusInv, [Next]_vars, NEW o \in Op, Released(o)
      PROVE  Release(o)
  <2>1. job' # job
    BY <1>1
  <2>2. ~UNCHANGED job
    BY <2>1
  <2>3. ASSUME NEW x \in Op, Machine(x) \/ Decide(x) \/ Reap(x) PROVE Release(o)
    <3>1. CASE Release(x)
      BY <1>1, <3>1 DEF Release, TypeInv, TypeOK
    <3>2. CASE Complete(x)
      BY <1>1, <3>2
      DEF Complete, Published, Terminal, TypeInv, TypeOK, Captured, Job, Result
    <3>3. CASE Reap(x)
      BY <1>1, <3>3 DEF Reap, NoJob, TypeInv, TypeOK
    <3> QED
      BY <2>2, <2>3, <3>1, <3>2, <3>3
      DEF Machine, Spawn, DeadlinePasses, PromptExpires, PromptCancelled, Decide,
          AuthorizeRefused, Authorize, AuthorizeFaults, ReleaseRefused, EffectCancelled,
          EffectStarts, Dispatch, NotDispatched, Settled
  <2>4. ASSUME NEW x \in Op, NEW c \in Client, NEW p \in Profile, Reserve(x, c, p)
        PROVE  FALSE
    BY <1>1, <2>2, <2>4 DEF Reserve, TypeInv, TypeOK
  <2>5. ASSUME Request PROVE FALSE
    BY <2>2, <2>4, <2>5
    DEF Request, Issue, Cancel, RemoveProfile, RevokeConsent, ClearConsents, Withdraw,
        RegisterBegin, RevokeBegin, StopBegin, AdminBegin
  <2>6. ~AdminStep
    BY <2>2
    DEF AdminStep, AdminAnswer, RegisterCommit, RevokeCommit, StopCommit, AdminRefused, AdminEnd
  <2>7. ~(Signal \/ Service \/ Crash \/ Restart)
    BY <1>1, <2>2
    DEF Signal, Service, StopAccepting, Drained, StopAll, QuiesceAcquire, Exit, Crash, Restart,
        MemoryLost, NoJobs, NoJob
  <2> QED
    BY <1>1, <2>2, <2>3, <2>5, <2>6, <2>7 DEF Next, vars, jobVars
<1>2. ASSUME Base, StandingInv, NEW o \in Op, Release(o)
      PROVE  Approved(o)
  <2>1. job[o].profile = ticket[o].profile /\ job[o].owner = ticket[o].owner
    BY <1>2 DEF Release, Base, StatusInv, TaskJob
  <2> QED
    BY <1>2, <2>1 DEF Release, StandingInv, Standing, Destination
<1>3. Base /\ StandingInv /\ [Next]_vars => [\A o \in Op : Released(o) => Approved(o)]_vars
  BY <1>1, <1>2 DEF Base, TypedPermit
<1> QED
  BY <1>3, BaseAlways, AuthorityAlways, PTL DEF Spec, ReleaseAsApproved
-----------------------------------------------------------------------------
(* Void decisions.  An operation that was cancelled, or whose client's         *)
(* authority was withdrawn, while its decision was pending stays short of its  *)
(* authorization: until its task ends something the authorization checks keeps *)
(* failing, and the operation is not admitted again.                           *)

Withdrawn(o) ==
  LET t == ticket[o] IN
  \/ o \in cancel \/ t.owner \notin reg.peers
  \/ t.existing = 0 /\ epochs[t.owner] # t.epoch

Void(o) ==
  /\ runs[o] = 0 /\ job[o].state # "running"
  /\ pc[o] \in Early \cup {"idle", "settled"}
  /\ pc[o] \in Early => Withdrawn(o)
  /\ o \in spent

VoidInv == \A o \in void : Void(o)

\* A step that admits nothing, moves no task and restores no authority.
LEMMA VoidFrame ==
  ASSUME VoidInv, UNCHANGED <<runs, job, pc, ticket, spent, void, epochs>>,
         Up' = Up, cancel \subseteq cancel', reg'.peers \subseteq reg.peers
  PROVE  VoidInv'
  BY DEF VoidInv, Void, Withdrawn

\* A task goes no further than it was allowed to, or settles.
LEMMA VoidMoves ==
  ASSUME VoidInv, NEW o \in Op, NEW s, pc \in [Op -> PC], pc' = [pc EXCEPT ![o] = s],
         (pc[o] \in Early /\ s \in Early) \/ s = "settled" \/ pc[o] \notin Early,
         pc[o] # "idle",
         pc[o] = "settled" => s = "settled",
         UNCHANGED <<runs, job, ticket, spent, void, epochs>>,
         Up' = Up, cancel \subseteq cancel', reg'.peers = reg.peers
  PROVE  VoidInv'
  BY DEF VoidInv, Void, Withdrawn, Early

\* An operation is newly void while its decision is pending.
LEMMA VoidPending ==
  ASSUME Base, NEW o \in Op, lock = None, job[o].state = "pending"
  PROVE  /\ runs[o] = 0 /\ job[o].state # "running"
         /\ pc[o] \in Early \cup {"idle", "settled"}
         /\ o \in spent
<1>1. o \in spent /\ runs[o] = 0
  BY DEF Base, StatusInv, Retained
<1>3. pc[o] # "authorizing"
  BY ConstantsAssumption DEF Base, LockInv
<1>4. pc[o] \in PC
  BY DEF Base, TypedPermit, TypeInv, TypeOK
<1> QED
  BY <1>1, <1>3, <1>4 DEF PC, Early, Effecting, Base, StatusInv, TaskJob

LEMMA VoidTask ==
  ASSUME Base, StandingInv, VoidInv, NEW o \in Op, Machine(o) \/ Decide(o) \/ Reap(o)
  PROVE  VoidInv'
<1>0. pc \in [Op -> PC] /\ cancel \subseteq Op /\ job \in [Op -> Job] /\ void \subseteq Op
  BY DEF Base, TypedPermit, TypeInv, TypeOK
<1>1. CASE Authorize(o) \/ AuthorizeFaults(o)
  <2>1. reg'.peers = reg.peers /\ Authorizable(o)
    BY <1>1
    DEF Authorize, AuthorizeFaults, Remembering, Base, TypedPermit, TypeInv, TypeOK, Registry
  <2>2. o \notin void
    BY <2>1
    DEF Authorizable, Cancelled, Paired, Permitted, ConsentStands, Early, VoidInv, Void,
        Withdrawn
  <2>3. \A x \in Op \ {o} : pc'[x] = pc[x]
    BY <1>0, <1>1 DEF Authorize, AuthorizeFaults, Settle
  <2>4. UNCHANGED <<runs, job, ticket, spent, void, epochs, cancel, phase>>
    BY <1>1 DEF Authorize, AuthorizeFaults
  <2> QED
    BY <1>0, <2>1, <2>2, <2>3, <2>4 DEF VoidInv, Void, Withdrawn, Early, Up
<1>2. CASE Release(o)
  <2>1. o \notin void
    BY <1>2 DEF Release, VoidInv, Void, Early
  <2>2. \A x \in Op \ {o} : pc'[x] = pc[x] /\ job'[x] = job[x]
    BY <1>0, <1>2 DEF Release
  <2> QED
    BY <1>0, <1>2, <2>1, <2>2 DEF Release, VoidInv, Void, Withdrawn, Up
<1>3. CASE Dispatch(o)
  <2>1. o \notin void
    BY <1>3 DEF Dispatch, VoidInv, Void, Early
  <2>2. \A x \in Op \ {o} : pc'[x] = pc[x] /\ runs'[x] = runs[x]
    BY <1>0, <1>3 DEF Dispatch, Base, TypedPermit, TypeInv, TypeOK
  <2> QED
    BY <1>0, <1>3, <2>1, <2>2 DEF Dispatch, VoidInv, Void, Withdrawn, Up
<1>4. CASE EffectStarts(o)
  BY <1>0, <1>4 DEF EffectStarts, VoidInv, Void, Withdrawn, Early, Up
<1>5. CASE DeadlinePasses(o)
  BY <1>5, VoidFrame DEF DeadlinePasses, Up
<1>6. CASE Spawn(o)
  BY <1>0, <1>6, VoidMoves DEF Spawn, Early, Up
<1>7. CASE Decide(o)
  <2>1. \E s \in {"once", "always", "settled"} : pc' = [pc EXCEPT ![o] = s]
    BY <1>7 DEF Decide, Settle
  <2> QED
    BY <1>0, <1>7, <2>1, VoidMoves DEF Decide, Early, Up
<1>8. CASE PromptExpires(o) \/ PromptCancelled(o) \/ AuthorizeRefused(o) \/ ReleaseRefused(o)
           \/ EffectCancelled(o) \/ NotDispatched(o) \/ Settled(o)
  <2>1. pc' = [pc EXCEPT ![o] = "settled"] /\ pc[o] \notin {"idle", "settled"}
    BY <1>8
    DEF PromptExpires, PromptCancelled, AuthorizeRefused, ReleaseRefused, EffectCancelled,
        NotDispatched, Settled, Settle
  <2>2. /\ UNCHANGED <<runs, job, ticket, spent, void, epochs, reg, phase>>
        /\ cancel \subseteq cancel'
    BY <1>8
    DEF PromptExpires, PromptCancelled, AuthorizeRefused, ReleaseRefused, EffectCancelled,
        NotDispatched, Settled
  <2> QED
    BY <1>0, <2>1, <2>2, VoidMoves DEF Up
<1>9. CASE Complete(o)
  <2>1. job'[o].state \in Terminal /\ \A x \in Op \ {o} : job'[x] = job[x]
    BY <1>9 DEF Complete, Published, Terminal, Base, TypedPermit, TypeInv, TypeOK, Captured, Job, Result
  <2>2. /\ \A x \in Op : pc'[x] = IF x = o THEN "idle" ELSE pc[x]
        /\ \A x \in Op \ {o} : ticket'[x] = ticket[x]
        /\ cancel' = cancel \ {o}
        /\ UNCHANGED <<runs, spent, void, epochs, reg, phase>>
    BY <1>9 DEF Complete, Ends
  <2> QED
    BY <1>0, <2>1, <2>2 DEF VoidInv, Void, Withdrawn, Terminal, Early, Up
<1>10. CASE Reap(o)
  BY <1>0, <1>10 DEF Reap, NoJob, VoidInv, Void, Withdrawn, Up
<1> QED
  BY <1>1, <1>2, <1>3, <1>4, <1>5, <1>6, <1>7, <1>8, <1>9, <1>10 DEF Machine

\* A withdrawal makes void what it cancels, and the pending uses that rest on no
\* remembered consent: their epoch is over.
LEMMA VoidWithdrawn ==
  ASSUME Base, StandingInv, VoidInv, NEW c \in Client, NEW P, NEW r, Withdraw(c, P, r),
         r.peers = reg.peers
  PROVE  VoidInv'
<1>1. CASE UNCHANGED <<reg, epochs, cancel, void>>
  BY <1>1, VoidFrame DEF Withdraw, Up
<1>2. CASE ~UNCHANGED <<reg, epochs, cancel, void>>
  <2>1. /\ reg'.peers = reg.peers /\ epochs' = [epochs EXCEPT ![c] = @ + 1]
        /\ cancel' = cancel \cup Uses(c, P)
        /\ void' = void \cup (Pending \cap
             (Uses(c, P) \cup {o \in Uses(c, Profile) : ticket[o].existing = 0}))
        /\ UNCHANGED <<pc, ticket, job, runs, spent, phase>>
        /\ lock = None /\ c \in reg.peers
    BY <1>2 DEF Withdraw, Persist, Paired
  <2>2. \A d \in Client : epochs[d] \in Nat /\ epochs'[d] = IF d = c THEN epochs[d] + 1 ELSE epochs[d]
    BY <2>1, ConstantsAssumption DEF Base, TypedPermit, TypeInv, TypeOK
  <2>3. ASSUME NEW o \in Op, pc[o] \in Early PROVE ticket[o].owner \in Client /\ ticket[o].epoch \in Nat
    BY <2>3, ConstantsAssumption DEF Base, TypedPermit, TypeInv, Captured, Early, Ticket
  <2>4. ASSUME NEW o \in Op, pc[o] \in Early, ticket[o].owner \in reg.peers
        PROVE  ticket[o].epoch <= epochs[ticket[o].owner]
    BY <2>4 DEF StandingInv, Standing, Early
  <2>5. ASSUME NEW o \in void PROVE Void(o)'
    <3>1. o \in Op /\ Void(o)
      BY <2>5 DEF VoidInv, Base, TypedPermit, TypeInv, TypeOK
    <3>2. ASSUME pc[o] \in Early PROVE Withdrawn(o)'
      BY <2>1, <2>2, <2>3, <2>4, <3>1, <3>2 DEF Void, Withdrawn
    <3> QED
      BY <2>1, <3>1, <3>2 DEF Void, Up
  <2>6. ASSUME NEW o \in void' \ void PROVE Void(o)'
    <3>1. /\ o \in Op /\ job[o].state = "pending" /\ job[o].owner = c
          /\ o \in Uses(c, P) \/ ticket[o].existing = 0
      BY <2>1, <2>6 DEF Pending, Uses
    <3>2. ASSUME pc[o] \in Early PROVE Withdrawn(o)'
      <4>1. ticket[o].owner = c
        BY <3>1, <3>2 DEF Base, StatusInv, TaskJob, Early
      <4> QED
        BY <2>1, <2>2, <2>3, <2>4, <3>1, <3>2, <4>1 DEF Withdrawn
    <3> QED
      BY <2>1, <3>1, <3>2, VoidPending DEF Void, Up
  <2> QED
    BY <2>5, <2>6 DEF VoidInv
<1> QED
  BY <1>1, <1>2

LEMMA VoidRequest ==
  ASSUME Base, StandingInv, VoidInv, Request
  PROVE  VoidInv'
<1>0. reg \in Registry /\ pc \in [Op -> PC] /\ job \in [Op -> Job] /\ void \subseteq Op
  BY DEF Base, TypedPermit, TypeInv, TypeOK
<1>1. ASSUME NEW o \in Op, Issue(o) PROVE VoidInv'
  BY <1>1, VoidFrame DEF Issue, Up
<1>2. ASSUME NEW o \in Op, Cancel(o) PROVE VoidInv'
  <2>1. /\ lock = None /\ cancel' = cancel \cup {o} /\ void' = void \cup ({o} \cap Pending)
        /\ UNCHANGED <<reg, epochs, pc, ticket, job, runs, spent, phase>>
    BY <1>2 DEF Cancel
  <2>2. ASSUME o \in Pending PROVE Void(o)'
    BY <2>1, <2>2, VoidPending DEF Pending, Void, Withdrawn, Up
  <2> QED
    BY <2>1, <2>2 DEF VoidInv, Void, Withdrawn, Up
<1>3. ASSUME NEW o \in Op, NEW c \in Client, NEW p \in Profile, Reserve(o, c, p)
      PROVE  VoidInv'
  <2>1. o \notin void
    BY <1>3 DEF Reserve, ThisIncarnation, Serving, Up, VoidInv, Void
  <2>2. \A x \in Op \ {o} : pc'[x] = pc[x] /\ job'[x] = job[x] /\ ticket'[x] = ticket[x]
    BY <1>0, <1>3 DEF Reserve, Base, TypedPermit, TypeInv, TypeOK
  <2>3. /\ spent \subseteq spent'
        /\ UNCHANGED <<runs, issued, epoch, void, epochs, reg, cancel, phase>>
    BY <1>3 DEF Reserve
  <2> QED
    BY <1>0, <2>1, <2>2, <2>3 DEF VoidInv, Void, Withdrawn, Up
<1>4. ASSUME NEW c \in Client, NEW p \in Profile, RemoveProfile(c, p) PROVE VoidInv'
  <2>1. ProfileRemoved(c, p).peers = reg.peers
    BY <1>0 DEF ProfileRemoved, Registry
  <2> QED
    BY <1>4, <2>1, VoidWithdrawn DEF RemoveProfile
<1>5. ASSUME NEW c \in Client, NEW P, Withdraw(c, P, [reg EXCEPT !.consents = Without(c, P)])
      PROVE  VoidInv'
  BY <1>0, <1>5, VoidWithdrawn DEF Registry
<1>6. ASSUME NEW kind, NEW c, NEW t, AdminBegin(kind, c, t) PROVE VoidInv'
  BY <1>6, VoidFrame DEF AdminBegin, Up
<1> QED
  BY <1>1, <1>2, <1>3, <1>4, <1>5, <1>6
  DEF Request, RevokeConsent, ClearConsents, RegisterBegin, RevokeBegin, StopBegin

LEMMA VoidAdmin ==
  ASSUME Base, VoidInv, AdminStep
  PROVE  VoidInv'
<1>1. admin # None /\ UNCHANGED <<pc, ticket, job, runs, spent, phase>>
  BY DEF AdminStep, AdminAnswer, RegisterCommit, RevokeCommit, StopCommit, AdminRefused,
         AdminEnd, AdminCommits
<1>2. \A o \in Op : pc[o] = "idle"
  BY <1>1, AdminAlone DEF Base, TypedPermit
<1>3. \A o \in void' : o \in void \/ (o \in Pending /\ lock = None)
  BY DEF AdminStep, AdminAnswer, RegisterCommit, RevokeCommit, StopCommit, AdminRefused,
         AdminEnd, AdminCommits
<1>4. ASSUME NEW o \in void' PROVE Void(o)'
  <2>1. CASE o \in void
    BY <1>1, <1>2, <2>1 DEF VoidInv, Void, Early, Up, Base, TypedPermit, TypeInv, TypeOK
  <2>2. CASE o \in Pending /\ lock = None
    BY <1>1, <1>2, <2>2, VoidPending DEF Pending, Void, Early, Up
  <2> QED
    BY <1>3, <1>4, <2>1, <2>2
<1> QED
  BY <1>4 DEF VoidInv

LEMMA VoidService ==
  ASSUME Base, VoidInv, Signal \/ Service \/ Crash \/ Restart
  PROVE  VoidInv'
<1>1. CASE Signal \/ StopAccepting \/ StopAll \/ QuiesceAcquire
  BY <1>1, VoidFrame DEF Signal, StopAccepting, StopAll, QuiesceAcquire, Up
<1>2. CASE Drained
  BY <1>2 DEF Drained, Ends, Unspawned, VoidInv, Void, Withdrawn, Early, Up, Base, TypedPermit, TypeInv, TypeOK
<1>3. CASE Exit \/ Crash
  BY <1>3
  DEF Exit, Crash, MemoryLost, AllIdle, NoJobs, NoJob, VoidInv, Void, Early, Up, Base,
      TypedPermit, TypeInv, TypeOK
<1>4. CASE Restart
  <2>1. \A o \in Op : pc[o] = "idle"
    BY <1>4 DEF Restart, Base, OnceInv, Once, Up
  <2> QED
    BY <1>4, <2>1 DEF Restart, VoidInv, Void, Early, Base, TypedPermit, TypeInv, TypeOK
<1> QED
  BY <1>1, <1>2, <1>3, <1>4 DEF Service

\* A decision that was pending when its operation was cancelled, or its client's
\* authority withdrawn, is void whatever the human answers and whenever.
THEOREM VoidNeverRunsHolds == Spec => []VoidNeverRuns
<1>1. Init => VoidInv
  BY DEF Init, VoidInv
<1>2. Base /\ StandingInv /\ VoidInv /\ [Next]_vars => VoidInv'
  <2> SUFFICES ASSUME Base, StandingInv, VoidInv, [Next]_vars PROVE VoidInv'
    OBVIOUS
  <2>1. CASE UNCHANGED vars
    BY <2>1, VoidFrame DEF vars, Up
  <2> QED
    BY <2>1, VoidTask, VoidRequest, VoidAdmin, VoidService DEF Next
<1>3. VoidInv => VoidNeverRuns
  BY DEF VoidInv, Void, VoidNeverRuns
<1> QED
  BY <1>1, <1>2, <1>3, BaseAlways, AuthorityAlways, PTL DEF Spec
=============================================================================
