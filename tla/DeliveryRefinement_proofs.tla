--------------------- MODULE DeliveryRefinement_proofs ---------------------
(***************************************************************************)
(* The broker implements OneUse, for every instance of its constants.  On   *)
(* top of the broker's own invariants the mapping needs three facts: what   *)
(* a settled task is about to publish agrees with what was dispatched, an   *)
(* unfinished job whose task is gone is only seen once nothing is admitted  *)
(* any more, and what the incarnation that is up has given is what it       *)
(* counts itself, while later ones have given nothing yet.                  *)
(***************************************************************************)
EXTENDS DeliveryRefinement, DeliveryBroker_proofs

USE DEF JobState, Terminal, PC, Phase, registryVars, jobVars, workVars, permitVars,
        serviceVars, ghostVars

Outcome(o) ==
  /\ pc[o] = "sent" => runs[o] = 1
  /\ pc[o] = "settled" /\ result[o].state = "completed" => runs[o] = 1
  /\ pc[o] = "settled" /\ job[o].state = "pending" => ~result[o].mayHaveRun
  /\ pc[o] = "idle" /\ job[o].state \in {"pending", "running"} => ~Serving

OutcomeInv == \A o \in Op : Outcome(o)

\* A step that leaves tasks and jobs alone and does not resume service.
LEMMA OutcomeFrame ==
  ASSUME OutcomeInv, UNCHANGED <<pc, job, runs, result>>, Serving' => Serving
  PROVE  OutcomeInv'
  BY DEF OutcomeInv, Outcome

\* A task settles with an outcome that agrees with what it did.
LEMMA OutcomeSettle ==
  ASSUME TypeInv, OutcomeInv, NEW o \in Op, NEW s, NEW ran, Settle(o, s, ran),
         s = "completed" => runs[o] = 1, job[o].state = "pending" => ~ran,
         UNCHANGED <<job, runs, phase>>
  PROVE  OutcomeInv'
  BY DEF OutcomeInv, Outcome, Settle, Serving, TypeInv, TypeOK

LEMMA OutcomeTask ==
  ASSUME Base, OutcomeInv, NEW o \in Op, Machine(o) \/ Decide(o) \/ Reap(o)
  PROVE  OutcomeInv'
<1>0. TypeInv /\ pc \in [Op -> PC] /\ result \in [Op -> Result \cup {None}]
  BY DEF Base, TypedPermit, TypeInv, TypeOK
<1>1. CASE Spawn(o) \/ EffectStarts(o) \/ Authorize(o) \/ DeadlinePasses(o)
  BY <1>0, <1>1
  DEF Spawn, EffectStarts, Authorize, Authorizable, DeadlinePasses, OutcomeInv, Outcome, Serving
<1>2. CASE Decide(o)
  <2>1. ASSUME NEW s \in {"denied", "failed"}, Settle(o, s, FALSE) PROVE OutcomeInv'
    BY <1>0, <1>2, <2>1, OutcomeSettle DEF Decide
  <2>2. ASSUME NEW d \in {"once", "always"}, pc' = [pc EXCEPT ![o] = d],
               UNCHANGED result
        PROVE  OutcomeInv'
    BY <1>0, <1>2, <2>2 DEF Decide, OutcomeInv, Outcome, Serving
  <2> QED
    BY <1>2, <2>1, <2>2 DEF Decide
<1>3. CASE PromptExpires(o) \/ PromptCancelled(o) \/ EffectCancelled(o) \/ AuthorizeFaults(o)
  BY <1>0, <1>3, OutcomeSettle DEF PromptExpires, PromptCancelled, EffectCancelled, AuthorizeFaults
<1>4. CASE AuthorizeRefused(o)
  <2>1. PICK s \in Terminal : RefusedWith(o, s) /\ Settle(o, s, FALSE)
    BY <1>4 DEF AuthorizeRefused
  <2>2. s # "completed"
    BY <2>1 DEF RefusedWith
  <2> QED
    BY <1>0, <1>4, <2>1, <2>2, OutcomeSettle DEF AuthorizeRefused
<1>5. CASE ReleaseRefused(o)
  BY <1>0, <1>5, OutcomeSettle DEF ReleaseRefused
<1>6. CASE NotDispatched(o)
  <2>1. job[o].state = "running"
    BY <1>6 DEF NotDispatched, Base, StatusInv, TaskJob, Effecting
  <2> QED
    BY <1>0, <1>6, <2>1, OutcomeSettle DEF NotDispatched
<1>7. CASE Settled(o)
  <2>1. job[o].state = "running" /\ runs[o] = 1
    BY <1>7 DEF Settled, Base, StatusInv, TaskJob, Effecting, OutcomeInv, Outcome
  <2> QED
    BY <1>0, <1>7, <2>1, OutcomeSettle DEF Settled
<1>8. CASE Release(o)
  BY <1>0, <1>8 DEF Release, OutcomeInv, Outcome, Serving, TypeInv, TypeOK
<1>9. CASE Dispatch(o)
  <2>1. runs[o] = 0
    BY <1>9 DEF Dispatch, Base, OnceInv, Once, Undispatched, PC
  <2> QED
    BY <1>0, <1>9, <2>1 DEF Dispatch, OutcomeInv, Outcome, Serving, TypeInv, TypeOK
<1>10. CASE Complete(o)
  <2>1. job'[o].state \in Terminal /\ \A x \in Op \ {o} : job'[x] = job[x]
    BY <1>0, <1>10 DEF Complete, Published, Terminal, TypeInv, TypeOK, Captured, Job, Result
  <2>2. /\ \A x \in Op : pc'[x] = IF x = o THEN "idle" ELSE pc[x]
        /\ \A x \in Op \ {o} : result'[x] = result[x]
        /\ UNCHANGED <<runs, phase>>
    BY <1>10 DEF Complete, Ends
  <2> QED
    BY <1>0, <2>1, <2>2 DEF OutcomeInv, Outcome, Terminal, Serving
<1>11. CASE Reap(o)
  BY <1>0, <1>11 DEF Reap, NoJob, OutcomeInv, Outcome, Serving, TypeInv, TypeOK
<1> QED
  BY <1>1, <1>2, <1>3, <1>4, <1>5, <1>6, <1>7, <1>8, <1>9, <1>10, <1>11 DEF Machine

LEMMA OutcomeRequest ==
  ASSUME Base, OutcomeInv, Request
  PROVE  OutcomeInv'
<1>1. ASSUME NEW o \in Op, Issue(o) \/ Cancel(o) PROVE OutcomeInv'
  BY <1>1, OutcomeFrame DEF Issue, Cancel, Serving
<1>2. ASSUME NEW o \in Op, NEW c \in Client, NEW p \in Profile, Reserve(o, c, p)
      PROVE  OutcomeInv'
  BY <1>2 DEF Reserve, OutcomeInv, Outcome, Serving, Base, TypedPermit, TypeInv, TypeOK
<1>3. ASSUME NEW c, NEW P, NEW r, Withdraw(c, P, r) PROVE OutcomeInv'
  BY <1>3, OutcomeFrame DEF Withdraw, Serving
<1>4. ASSUME NEW kind, NEW c, NEW t, AdminBegin(kind, c, t) PROVE OutcomeInv'
  BY <1>4, OutcomeFrame DEF AdminBegin, Serving
<1> QED
  BY <1>1, <1>2, <1>3, <1>4
  DEF Request, RemoveProfile, RevokeConsent, ClearConsents, RegisterBegin, RevokeBegin,
      StopBegin

LEMMA OutcomeAdmin ==
  ASSUME OutcomeInv, AdminStep
  PROVE  OutcomeInv'
  BY OutcomeFrame
  DEF AdminStep, AdminAnswer, RegisterCommit, RevokeCommit, StopCommit, AdminRefused, AdminEnd,
      Serving

LEMMA OutcomeService ==
  ASSUME Base, OutcomeInv, Signal \/ Service \/ Crash \/ Restart
  PROVE  OutcomeInv'
<1>1. CASE Signal \/ StopAccepting \/ StopAll \/ QuiesceAcquire
  BY <1>1, OutcomeFrame DEF Signal, StopAccepting, StopAll, QuiesceAcquire, Serving
<1>2. CASE Drained
  BY <1>2 DEF Drained, Ends, OutcomeInv, Outcome, Serving
<1>3. CASE Exit \/ Crash
  BY <1>3
  DEF Exit, Crash, MemoryLost, AllIdle, NoJobs, NoJob, OutcomeInv, Outcome, Serving
<1>4. CASE Restart
  <2>1. \A o \in Op : job[o].state = "none"
    BY <1>4 DEF Restart, Base, OnceInv, Once, StatusInv, Retained, Up
  <2> QED
    BY <1>4, <2>1 DEF Restart, OutcomeInv, Outcome
<1> QED
  BY <1>1, <1>2, <1>3, <1>4 DEF Service

LEMMA OutcomeAlways == Spec => []OutcomeInv
<1>1. Init => OutcomeInv
  BY DEF Init, AllIdle, NoJobs, NoJob, OutcomeInv, Outcome
<1>2. Base /\ OutcomeInv /\ [Next]_vars => OutcomeInv'
  <2> SUFFICES ASSUME Base, OutcomeInv, [Next]_vars PROVE OutcomeInv'
    OBVIOUS
  <2>1. CASE UNCHANGED vars
    BY <2>1, OutcomeFrame DEF vars, Serving
  <2> QED
    BY <2>1, OutcomeTask, OutcomeRequest, OutcomeAdmin, OutcomeService DEF Next
<1> QED
  BY <1>1, <1>2, BaseAlways, PTL DEF Spec
-----------------------------------------------------------------------------
(* The history variable. *)

GivenInv ==
  /\ given \in [Op -> [1..MaxEpoch -> Nat]]
  /\ \A o \in Op : Up => given[o][epoch] = runs[o]
  /\ \A o \in Op, e \in 1..MaxEpoch : e > epoch => given[o][e] = 0

\* Only a dispatch counts.
LEMMA GivenKept ==
  ASSUME GivenInv, Given, \A o \in Op : ~(runs'[o] > runs[o])
  PROVE  given' = given
<1>1. \A o \in Op : given[o] \in [1..MaxEpoch -> Nat]
  BY DEF GivenInv
<1>2. ASSUME NEW o \in Op
      PROVE  [e \in 1..MaxEpoch |->
                given[o][e] + IF e = epoch /\ runs'[o] > runs[o] THEN 1 ELSE 0] = given[o]
  <2>1. ASSUME NEW e \in 1..MaxEpoch
        PROVE  given[o][e] + (IF e = epoch /\ runs'[o] > runs[o] THEN 1 ELSE 0) = given[o][e]
    <3>1. given[o][e] \in Nat /\ ~(runs'[o] > runs[o])
      BY <1>1
    <3> QED
      BY <3>1
  <2> QED
    BY <1>1, <2>1
<1>3. given' = [o \in Op |-> given[o]]
  BY <1>2 DEF Given
<1> QED
  BY <1>3 DEF GivenInv

LEMMA GivenCounts ==
  ASSUME Base, GivenInv, Given, NEW o \in Op, Dispatch(o)
  PROVE  /\ given[o][epoch] = 0 /\ epoch \in 1..MaxEpoch
         /\ given' = [given EXCEPT ![o][epoch] = 1]
<1>1. /\ runs[o] = 0 /\ runs'[o] = 1 /\ epoch \in 1..MaxEpoch
      /\ \A x \in Op \ {o} : runs'[x] = runs[x]
      /\ runs \in [Op -> Nat] /\ Up
  BY DEF Dispatch, Base, TypedPermit, TypeInv, TypeOK, OnceInv, Once, Undispatched
<1>2. \A x \in Op : given[x] \in [1..MaxEpoch -> Nat]
  BY DEF GivenInv
<1>3. given[o][epoch] = 0
  BY <1>1 DEF GivenInv
<1>4. ASSUME NEW x \in Op
      PROVE  [e \in 1..MaxEpoch |->
                given[x][e] + IF e = epoch /\ runs'[x] > runs[x] THEN 1 ELSE 0]
               = IF x = o THEN [given[o] EXCEPT ![epoch] = 1] ELSE given[x]
  <2>1. CASE x = o
    <3>1. ASSUME NEW e \in 1..MaxEpoch
          PROVE  given[o][e] + (IF e = epoch /\ runs'[o] > runs[o] THEN 1 ELSE 0)
                   = IF e = epoch THEN 1 ELSE given[o][e]
      <4>1. given[o][e] \in Nat
        BY <1>2
      <4>2. runs'[o] > runs[o]
        BY <1>1
      <4> QED
        BY <1>3, <4>1, <4>2
    <3> QED
      BY <1>1, <1>2, <2>1, <3>1
  <2>2. CASE x # o
    <3>1. ASSUME NEW e \in 1..MaxEpoch
          PROVE  given[x][e] + (IF e = epoch /\ runs'[x] > runs[x] THEN 1 ELSE 0) = given[x][e]
      <4>1. given[x][e] \in Nat /\ runs[x] \in Nat /\ runs'[x] = runs[x]
        BY <1>1, <1>2, <2>2
      <4> QED
        BY <4>1
    <3> QED
      BY <1>2, <2>2, <3>1
  <2> QED
    BY <2>1, <2>2
<1>5. given' = [x \in Op |-> IF x = o THEN [given[o] EXCEPT ![epoch] = 1] ELSE given[x]]
  BY <1>4 DEF Given
<1> QED
  BY <1>1, <1>3, <1>5 DEF GivenInv

\* Steps after which this incarnation is the same, and has given what it had.
Quiet == UNCHANGED <<runs, epoch>> /\ Up' = Up

LEMMA QuietRequests ==
  ASSUME Request \/ AdminStep
  PROVE  Quiet
<1>1. ASSUME NEW o \in Op, NEW c \in Client, NEW p \in Profile, Reserve(o, c, p) PROVE Quiet
  BY <1>1 DEF Reserve, Quiet, Up
<1>2. CASE Request
  BY <1>1, <1>2
  DEF Request, Issue, Cancel, RemoveProfile, RevokeConsent, ClearConsents, Withdraw,
      RegisterBegin, RevokeBegin, StopBegin, AdminBegin, Quiet, Up
<1>3. CASE AdminStep
  BY <1>3
  DEF AdminStep, AdminAnswer, RegisterCommit, RevokeCommit, StopCommit, AdminRefused, AdminEnd,
      Quiet, Up
<1> QED
  BY <1>2, <1>3

LEMMA QuietSteps ==
  ASSUME Request \/ AdminStep \/ Signal \/ Service
  PROVE  Quiet \/ MemoryLost
<1>1. CASE Signal \/ Service
  BY <1>1 DEF Signal, Service, StopAccepting, Drained, StopAll, QuiesceAcquire, Exit, Quiet, Up
<1> QED
  BY <1>1, QuietRequests

LEMMA QuietTask ==
  ASSUME NEW o \in Op, Machine(o) \/ Decide(o) \/ Reap(o), ~Dispatch(o)
  PROVE  Quiet
  BY DEF Machine, Spawn, DeadlinePasses, PromptExpires, PromptCancelled, Decide, AuthorizeRefused,
         Authorize, AuthorizeFaults, Release, ReleaseRefused, EffectCancelled, EffectStarts,
         NotDispatched, Settled, Complete, Reap, Quiet, Up

\* Without a daemon nothing is counted.
LEMMA DownCountsNothing ==
  ASSUME Base, ~Up
  PROVE  \A o \in Op : runs[o] = 0 /\ o \notin spent /\ job[o].state = "none"
  BY DEF Base, OnceInv, Once, StatusInv, Retained, TypedPermit, TypeInv, TypeOK

LEMMA GivenStep ==
  ASSUME Base, GivenInv, [RNext]_<<vars, given>>
  PROVE  GivenInv'
<1>0. epoch \in 1..MaxEpoch /\ runs \in [Op -> Nat] /\ MaxEpoch \in Nat
  BY ConstantsAssumption DEF Base, TypedPermit, TypeInv, TypeOK
<1>1. CASE UNCHANGED <<vars, given>>
  BY <1>1 DEF vars, GivenInv, Up
<1>2. CASE Given /\ Quiet
  <2>1. given' = given
    BY <1>0, <1>2, GivenKept DEF Quiet
  <2> QED
    BY <1>2, <2>1 DEF GivenInv, Quiet
<1>3. CASE Given /\ MemoryLost
  <2>1. \A o \in Op : ~(runs'[o] > runs[o])
    BY <1>0, <1>3 DEF MemoryLost, NoRuns
  <2>2. given' = given /\ epoch' = epoch /\ ~Up'
    BY <1>3, <2>1, GivenKept DEF MemoryLost, Up
  <2> QED
    BY <2>2 DEF GivenInv
<1>4. CASE Given /\ Restart
  <2>1. runs' = runs /\ epoch' = epoch + 1 /\ epoch < MaxEpoch /\ ~Up
    BY <1>4 DEF Restart, Up
  <2>2. given' = given
    BY <1>0, <1>4, <2>1, GivenKept
  <2>3. \A o \in Op : given[o][epoch + 1] = 0 /\ runs[o] = 0
    BY <1>0, <2>1, DownCountsNothing DEF GivenInv
  <2> QED
    BY <1>0, <2>1, <2>2, <2>3 DEF GivenInv
<1>5. ASSUME NEW o \in Op, Given, Dispatch(o) PROVE GivenInv'
  <2>1. /\ runs[o] = 0 /\ runs'[o] = 1 /\ epoch' = epoch /\ Up' = Up
        /\ \A x \in Op \ {o} : runs'[x] = runs[x]
    BY <1>5 DEF Dispatch, Base, TypedPermit, TypeInv, TypeOK, OnceInv, Once, Undispatched, Up
  <2>2. given' = [given EXCEPT ![o][epoch] = 1]
    BY <1>5, GivenCounts
  <2>3. /\ given' \in [Op -> [1..MaxEpoch -> Nat]]
        /\ \A x \in Op \ {o} : given'[x] = given[x]
        /\ \A e \in 1..MaxEpoch : given'[o][e] = IF e = epoch THEN 1 ELSE given[o][e]
    BY <1>0, <2>2 DEF GivenInv
  <2>4. \A x \in Op : Up => given'[x][epoch] = runs'[x]
    BY <1>0, <2>1, <2>3 DEF GivenInv
  <2>5. ASSUME NEW x \in Op, NEW e \in 1..MaxEpoch, e > epoch PROVE given'[x][e] = 0
    <3>1. given[x][e] = 0 /\ e # epoch
      BY <1>0, <2>5 DEF GivenInv
    <3>2. CASE x = o
      BY <2>3, <3>1, <3>2
    <3>3. CASE x # o
      BY <2>3, <3>1, <3>3
    <3> QED
      BY <3>2, <3>3
  <2> QED
    BY <2>1, <2>3, <2>4, <2>5 DEF GivenInv
<1> QED
  BY <1>1, <1>2, <1>3, <1>4, <1>5, QuietSteps, QuietTask DEF RNext, Next, Crash

-----------------------------------------------------------------------------
(* The mapping. *)

LEMMA Stutters ==
  ASSUME UNCHANGED <<job, spent, issued, epoch, given>>, Up' = Up
  PROVE  UNCHANGED Abstract!ovars
  BY DEF Abstract!ovars

LEMMA AdmitMaps ==
  ASSUME Base, OutcomeInv, NEW o \in Op, NEW c \in Client, NEW p \in Profile,
         Reserve(o, c, p), given' = given
  PROVE  [Abstract!ONext]_Abstract!ovars
<1>0. UNCHANGED <<phase, epoch, issued>>
  BY DEF Reserve
<1>1. CASE UNCHANGED <<job, spent>>
  BY <1>0, <1>1, Stutters DEF Up
<1>2. CASE ~UNCHANGED <<job, spent>>
  <2>1. /\ spent' = spent \cup {o} /\ o \notin spent
        /\ job' = [job EXCEPT ![o] = [state |-> "pending", mayHaveRun |-> FALSE,
                                      owner |-> c, profile |-> p]]
        /\ epoch \in issued[o] /\ Serving /\ gate = None
    BY <1>2 DEF Reserve, ThisIncarnation, PermitFree
  <2>2. Up /\ Up'
    BY <1>0, <2>1 DEF Serving, Up
  <2>3. \A x \in Op : job[x].state \notin {"pending", "running"}
    BY <2>1, ConstantsAssumption DEF OutcomeInv, Outcome, Base, TypedPermit, PermitInv, OneWorkflow
  <2>4. /\ job'[o].state = "pending" /\ job'[o].mayHaveRun = FALSE
        /\ \A x \in Op \ {o} : job'[x] = job[x]
    BY <2>1 DEF Base, TypedPermit, TypeInv, TypeOK
  <2>5. Abstract!Admit(o)
    BY <1>0, <2>1, <2>2, <2>3, <2>4 DEF Abstract!Admit, Abstract!Becomes, Abstract!Unfinished
  <2> QED
    BY <2>5 DEF Abstract!ONext
<1> QED
  BY <1>1, <1>2

LEMMA TaskMaps ==
  ASSUME Base, OutcomeInv, GivenInv, NEW o \in Op, Machine(o) \/ Decide(o) \/ Reap(o), Given
  PROVE  [Abstract!ONext]_Abstract!ovars
<1>0. /\ pc \in [Op -> PC] /\ job \in [Op -> Job] /\ runs \in [Op -> Nat]
      /\ UNCHANGED <<issued, spent, epoch>> /\ Up' = Up /\ Up
  BY DEF Base, TypedPermit, TypeInv, TypeOK, Machine, Spawn, DeadlinePasses, PromptExpires,
         PromptCancelled, Decide, AuthorizeRefused, Authorize, Authorizable, AuthorizeFaults, Release,
         ReleaseRefused, EffectCancelled, EffectStarts, Dispatch, NotDispatched, Settled,
         Complete, Reap, Up
<1>99. ~Dispatch(o) => given' = given
  BY <1>0, QuietTask, GivenKept DEF Quiet
<1>1. CASE Release(o)
  <2>1. /\ job'[o].state = "running" /\ job'[o].mayHaveRun = TRUE /\ given' = given
        /\ job[o].state = "pending"
        /\ \A x \in Op \ {o} : job'[x] = job[x]
    BY <1>0, <1>1, <1>99 DEF Release, Dispatch, Starts, Job
  <2>2. Abstract!Start(o)
    BY <1>0, <2>1 DEF Abstract!Start, Abstract!Becomes
  <2> QED
    BY <2>2 DEF Abstract!ONext
<1>2. CASE Dispatch(o)
  <2>1. job[o].state = "running" /\ job' = job
    BY <1>2 DEF Dispatch, Base, StatusInv, TaskJob, Effecting
  <2>2. Abstract!Give(o)
    BY <1>0, <1>2, <2>1, GivenCounts DEF Abstract!Give
  <2> QED
    BY <2>2 DEF Abstract!ONext
<1>3. CASE Complete(o)
  <2> DEFINE r == result[o]
  <2>1. pc[o] = "settled" /\ r \in Result /\ given' = given
    BY <1>0, <1>3, <1>99 DEF Complete, Dispatch, Base, TypedPermit, TypeInv, Captured
  <2>0. given[o][epoch] = runs[o]
    BY <1>0 DEF GivenInv
  <2>2. PICK audited \in BOOLEAN :
          job' = [job EXCEPT ![o].state = Published(r, audited).state,
                             ![o].mayHaveRun = Published(r, audited).mayHaveRun]
    BY <1>3 DEF Complete
  <2>3. PICK s \in {r.state, "uncertain"} :
          job'[o].state = s /\ job'[o].mayHaveRun = r.mayHaveRun
    BY <1>0, <2>1, <2>2 DEF Published, Job, Result
  <2>4. \A x \in Op \ {o} : job'[x] = job[x]
    BY <1>0, <2>2
  <2>5. /\ runs[o] = 1 => r.mayHaveRun
        /\ r.state = "completed" => runs[o] = 1
        /\ job[o].state = "pending" => ~r.mayHaveRun
        /\ job[o].state \in {"pending", "running"}
    BY <2>1 DEF Base, OnceInv, Honest, StatusInv, TaskJob, OutcomeInv, Outcome
  <2>6. PICK ran \in BOOLEAN : ran = r.mayHaveRun
    BY <2>1 DEF Result
  <2>7. s \in Abstract!Final /\ Abstract!Becomes(o, s, ran)
    BY <2>1, <2>3, <2>4, <2>6
    DEF Abstract!Becomes, Abstract!Final, Abstract!Refusals, Result
  <2>8. /\ runs[o] = 1 => ran
        /\ job[o].state = "pending" => ~ran
        /\ s = "completed" => runs[o] = 1
        /\ job[o].state \in Abstract!Unfinished
    BY <2>3, <2>5, <2>6 DEF Abstract!Unfinished
  <2>9. \E x \in Abstract!Final, y \in BOOLEAN :
          /\ given[o][epoch] = 1 => y
          /\ x = "completed" => given[o][epoch] = 1
          /\ job[o].state = "pending" => ~y
          /\ Abstract!Becomes(o, x, y)
    BY <2>0, <2>7, <2>8
  <2>10. Abstract!Finish(o)
    BY <1>0, <2>1, <2>8, <2>9 DEF Abstract!Finish
  <2> QED
    BY <2>10 DEF Abstract!ONext
<1>4. CASE Reap(o)
  <2>1. given' = given
    BY <1>0, <1>4, <1>99 DEF Reap, Dispatch, Terminal, Base, StatusInv, TaskJob, Effecting
  <2>2. Abstract!Forget(o)
    BY <1>0, <1>4, <2>1
    DEF Reap, NoJob, Abstract!Forget, Abstract!Final, Abstract!Refusals, Abstract!NoStatus
  <2> QED
    BY <2>2 DEF Abstract!ONext
<1>5. CASE ~(Release(o) \/ Dispatch(o) \/ Complete(o) \/ Reap(o))
  <2>1. job' = job
    BY <1>5
    DEF Machine, Spawn, DeadlinePasses, PromptExpires, PromptCancelled, Decide, AuthorizeRefused,
        Authorize, AuthorizeFaults, ReleaseRefused, EffectCancelled, EffectStarts, NotDispatched,
        Settled
  <2> QED
    BY <1>0, <1>5, <1>99, <2>1, Stutters
<1> QED
  BY <1>1, <1>2, <1>3, <1>4, <1>5

LEMMA LoseMaps ==
  ASSUME Base, GivenInv, Exit \/ Crash, Given
  PROVE  [Abstract!ONext]_Abstract!ovars
<1>1. /\ job' = NoJobs /\ runs' = NoRuns /\ spent' = {} /\ Up /\ ~Up'
      /\ UNCHANGED <<epoch, issued>>
  BY DEF Exit, Crash, MemoryLost, Up
<1>2. given' = given
  BY <1>1, GivenKept DEF NoRuns, Base, TypedPermit, TypeInv, TypeOK
<1>3. Abstract!Lose
  BY <1>1, <1>2 DEF NoJobs, NoJob, Abstract!Lose, Abstract!NoStatus
<1> QED
  BY <1>3 DEF Abstract!ONext

LEMMA OthersMap ==
  ASSUME Base, OutcomeInv, GivenInv, Request \/ AdminStep \/ Signal \/ Service \/ Restart,
         ~Exit, Given
  PROVE  [Abstract!ONext]_Abstract!ovars
<1>0. given' = given
  <2>1. runs' = runs
    <3>1. CASE Request \/ AdminStep
      BY <3>1, QuietRequests DEF Quiet
    <3>2. CASE Signal \/ Restart \/ (Service /\ ~Exit)
      BY <3>2 DEF Signal, Service, StopAccepting, Drained, StopAll, QuiesceAcquire, Restart
    <3> QED
      BY <3>1, <3>2
  <2> QED
    BY <2>1, GivenKept DEF Base, TypedPermit, TypeInv, TypeOK
<1>1. CASE Restart
  <2>1. Abstract!Renew
    BY <1>0, <1>1 DEF Restart, Up, Abstract!Renew
  <2> QED
    BY <2>1 DEF Abstract!ONext
<1>2. CASE Signal \/ StopAccepting \/ Drained \/ StopAll \/ QuiesceAcquire
  BY <1>0, <1>2, Stutters DEF Signal, StopAccepting, Drained, StopAll, QuiesceAcquire, Up
<1>3. CASE AdminStep
  BY <1>0, <1>3, Stutters
  DEF AdminStep, AdminAnswer, RegisterCommit, RevokeCommit, StopCommit, AdminRefused, AdminEnd, Up
<1>4. ASSUME NEW o \in Op, Issue(o) PROVE [Abstract!ONext]_Abstract!ovars
  <2>1. Abstract!Ask(o)
    BY <1>0, <1>4 DEF Issue, Serving, Up, Abstract!Ask
  <2> QED
    BY <2>1 DEF Abstract!ONext
<1>5. ASSUME NEW o \in Op, NEW c \in Client, NEW p \in Profile, Reserve(o, c, p)
      PROVE  [Abstract!ONext]_Abstract!ovars
  BY <1>0, <1>5, AdmitMaps
<1>6. CASE Request
  BY <1>0, <1>4, <1>5, <1>6, Stutters
  DEF Request, Cancel, RemoveProfile, RevokeConsent, ClearConsents, Withdraw, RegisterBegin,
      RevokeBegin, StopBegin, AdminBegin, Up
<1> QED
  BY <1>1, <1>2, <1>3, <1>6 DEF Service

\* The broker implements OneUse: whatever is interleaved, cancelled, withdrawn,
\* faulted, crashed or restarted, its clients and recipients see an operation that
\* in each life of the daemon is admitted once and alone, only when it was addressed
\* to that life, reaches its recipient at most once and is answered truly.
THEOREM ImplementsOneUseHolds == RSpec => ImplementsOneUse
<1>1. RInit => Init
  BY DEF RInit
<1>2. [RNext]_<<vars, given>> => [Next]_vars
  BY DEF RNext
<1>3. RSpec => Spec
  BY <1>1, <1>2, PTL DEF RSpec, Spec
<1>4. RInit => GivenInv
  BY ConstantsAssumption DEF RInit, Init, NoRuns, GivenInv
<1>5. RInit => Abstract!OInit
  BY DEF RInit, Init, NoJobs, NoJob, Up, Abstract!OInit, Abstract!NoStatus
<1>6. Base /\ OutcomeInv /\ GivenInv /\ [RNext]_<<vars, given>>
        => [Abstract!ONext]_Abstract!ovars
  <2> SUFFICES ASSUME Base, OutcomeInv, GivenInv, [RNext]_<<vars, given>>
               PROVE  [Abstract!ONext]_Abstract!ovars
    OBVIOUS
  <2>1. CASE UNCHANGED <<vars, given>>
    BY <2>1, Stutters DEF vars, Up
  <2>2. CASE Exit \/ Crash
    <3>1. Given \/ UNCHANGED <<vars, given>>
      BY DEF RNext
    <3> QED
      BY <2>1, <2>2, <3>1, LoseMaps
  <2>3. CASE RNext /\ ~Exit /\ ~Crash
    BY <2>3, TaskMaps, OthersMap DEF RNext, Next
  <2> QED
    BY <2>1, <2>2, <2>3
<1> QED
  BY <1>3, <1>4, <1>5, <1>6, GivenStep, BaseAlways, OutcomeAlways, PTL
  DEF RSpec, ImplementsOneUse, Abstract!OSpec
=============================================================================
