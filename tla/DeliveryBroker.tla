--------------------------- MODULE DeliveryBroker ---------------------------
(***************************************************************************)
(* The broker's one-use deliveries: a paired client asks the daemon to run *)
(* a registered process or HTTP destination with credentials it never      *)
(* sees.  The module follows magicvault-service/src/broker.rs and its      *)
(* delivery.rs and consent.rs: the single human permit, the native         *)
(* decision, remembered consents, the authorization transaction, the       *)
(* effect, the completion receipt, cancellation, revocation, faults of the *)
(* registry and the audit log, cooperative shutdown, crash and restart.    *)
(*                                                                         *)
(* Every transaction of the code runs under one mutex, so it is one action *)
(* here, except the authorization, which looks at the clock and at the     *)
(* shutdown token again after its disk writes: it keeps the mutex (lock)   *)
(* between its two actions.                                                *)
(***************************************************************************)
EXTENDS Naturals, FiniteSets

CONSTANTS
  Client,        \* pairing identities, each issued once
  Profile,       \* identifiers a client may register a destination under
  Op,            \* operation identifiers
  Usable,        \* <<c, p>>: the credentials p selects are among c's references
  None,          \* absence of a value
  MaxProfiles,   \* MAX_DELIVERY_PROFILES
  MaxGrants,     \* MAX_GRANTS
  MaxJobs,       \* MAX_DELIVERY_JOBS
  MaxSpent,      \* capacity of the set of spent operation identifiers
  MaxContent,    \* bound of the model: registrations
  MaxGrantId,    \* bound of the model: remembered consents ever created
  MaxReset,      \* bound of the model: consent epochs of a client
  MaxEpoch       \* bound of the model: incarnations of the daemon

ASSUME ConstantsAssumption ==
  /\ None \notin Op /\ None \notin Client /\ None \notin Profile
  /\ None # "admin" /\ "admin" \notin Op /\ "quiesce" \notin Op
  /\ Usable \subseteq Client \X Profile
  /\ {MaxProfiles, MaxGrants, MaxJobs, MaxSpent} \subseteq Nat
  /\ {MaxContent, MaxGrantId, MaxReset} \subseteq Nat
  /\ MaxEpoch \in Nat \ {0}

VARIABLES
  reg,           \* the registry in memory: paired clients, profiles, consents
  disk,          \* the registry clients.json holds
  epochs,        \* consent epoch of each client, 0 when it has none
  faulted,       \* a durable write failed in this incarnation
  job,           \* retained delivery jobs, what delivery_status reports
  spent,         \* operations this incarnation has admitted
  cancel,        \* operations whose own cancellation token has fired
  late,          \* operations whose decision deadline has passed
  pc,            \* where the background task of an operation is
  ticket,        \* what that task captured at admission
  result,        \* the outcome that task is about to publish
  gate,          \* holder of the human permit
  lock,          \* operation whose authorization holds the state mutex
  admin,         \* the administrative request that holds the permit
  phase,         \* where ipc::serve is
  shutdown,      \* the shutdown token
  epoch,         \* incarnation of the daemon
  issued,        \* incarnations an operation's requests are addressed to
  log,           \* what this incarnation appended to the audit log
  runs,          \* how often this incarnation gave the recipient an operation's material
  nextContent,   \* identity of the next registered destination
  nextGrant,     \* identity of the next remembered consent
  revoked,       \* consents a client was told are revoked
  void           \* operations cancelled, or their consent reset, while this incarnation
                 \* had them pending

registryVars == <<reg, disk, epochs, faulted>>
jobVars      == <<job, spent, cancel, late>>
workVars     == <<pc, ticket, result>>
permitVars   == <<gate, lock, admin>>
serviceVars  == <<phase, shutdown, epoch, issued>>
ghostVars    == <<log, runs, nextContent, nextGrant, revoked, void>>
vars == <<registryVars, jobVars, workVars, permitVars, serviceVars, ghostVars>>

-----------------------------------------------------------------------------
(* State. *)

Terminal == {"completed", "denied", "cancelled", "expired", "failed", "uncertain"}
JobState == {"none", "pending", "running"} \cup Terminal

Entry == [id : Profile, owner : Client, content : 1..MaxContent]
Grant == [id : 1..MaxGrantId, owner : Client, profile : Profile,
          content : 1..MaxContent]
Registry == [peers : SUBSET Client, profiles : SUBSET Entry,
             consents : SUBSET Grant]

Job    == [state : JobState, mayHaveRun : BOOLEAN,
           owner : Client \cup {None}, profile : Profile \cup {None}]
NoJob  == [state |-> "none", mayHaveRun |-> FALSE, owner |-> None, profile |-> None]

\* existing = 0: no remembered consent covered the use at admission
Ticket == [owner : Client, profile : Profile, content : 1..MaxContent,
           existing : 0..MaxGrantId, epoch : 0..MaxReset]
Result == [state : Terminal, mayHaveRun : BOOLEAN]

PC == {"idle", "reserved", "prompt", "once", "always", "authorizing",
       "effect", "sending", "sent", "settled"}
Phase == {"serving", "draining", "stopping", "acquiring", "waiting", "down"}

AdminKind == {"register", "revoke", "stop"}
Admin == [kind : AdminKind, client : Client, target : Profile \cup Client \cup {None},
          step : {"prompt", "allowed", "finished"}]

Receipt == [op : Op, event : {"authorized"} \cup Terminal]

Blank     == [peers |-> {}, profiles |-> {}, consents |-> {}]
NoEpochs  == [c \in Client |-> 0]
NoJobs    == [o \in Op |-> NoJob]
AllIdle   == [o \in Op |-> "idle"]
NoTickets == [o \in Op |-> None]
NoRuns    == [o \in Op |-> 0]

\* Every client is already paired: pairing creates a fresh identity.
Init ==
  /\ disk = [peers |-> Client, profiles |-> {}, consents |-> {}]
  /\ reg = disk
  /\ epochs = NoEpochs /\ faulted = FALSE
  /\ job = NoJobs /\ spent = {} /\ cancel = {} /\ late = {}
  /\ pc = AllIdle /\ ticket = NoTickets /\ result = NoTickets
  /\ gate = None /\ lock = None /\ admin = None
  /\ phase = "serving" /\ shutdown = FALSE
  /\ epoch = 1
  /\ issued = [o \in Op |-> {}]
  /\ log = {}
  /\ runs = NoRuns
  /\ nextContent = 1 /\ nextGrant = 1
  /\ revoked = {} /\ void = {}

-----------------------------------------------------------------------------
(* Helpers. *)

Up      == phase # "down"
Serving == phase \in {"serving", "draining"}
\* Faulty variant: a broker that goes on after a failed durable write.
IgnoresFaults == ~shutdown
Ready   == ~faulted /\ ~shutdown
Paired(c) == Ready /\ c \in reg.peers
\* Faulty variant: only the shutdown token is consulted.
IgnoresCancel(o) == shutdown
Cancelled(o) == o \in cancel \/ shutdown

Owned(r, c, p) == {e \in r.profiles : e.owner = c /\ e.id = p}
Covering(r, c, p) == {g \in r.consents : g.owner = c /\ g.profile = p}
Live == {o \in Op : job[o].state # "none"}

Line(o, event) == [op |-> o, event |-> event]

\* A durable audit append that fails leaves the broker faulted.
AuditFails == faulted' = TRUE

\* Faulty variant: success is reported before the file is durable.
PersistLater(r) == reg' = r /\ disk' \in {disk, r} /\ UNCHANGED faulted

\* The registry in memory becomes r and is written.  A failed write faults the
\* broker and leaves either file; a crash or a failed audit right after the
\* write has the same effect on what the next incarnation reads.
Persist(r) ==
  /\ reg' = r
  /\ \/ disk' = r /\ UNCHANGED faulted
     \/ disk' \in {disk, r} /\ faulted' = TRUE

\* The task of o has its outcome and still holds the permit.
Settle(o, s, ran) ==
  /\ pc' = [pc EXCEPT ![o] = "settled"]
  /\ result' = [result EXCEPT ![o] = [state |-> s, mayHaveRun |-> ran]]

\* The tasks of the operations S are over: what they captured is gone and their
\* tokens have no observer left.
Ends(S) ==
  /\ pc' = [o \in Op |-> IF o \in S THEN "idle" ELSE pc[o]]
  /\ ticket' = [o \in Op |-> IF o \in S THEN None ELSE ticket[o]]
  /\ result' = [o \in Op |-> IF o \in S THEN None ELSE result[o]]
  /\ late' = late \ S
  /\ cancel' = cancel \ S

\* Jobs whose decision is pending, and all that are unfinished: the token of a
\* finished job has no observer.
Pending == {o \in Op : job[o].state = "pending"}
Open    == {o \in Op : job[o].state \in {"pending", "running"}}
Uses(c, P) == {o \in Open : job[o].owner = c /\ job[o].profile \in P}

-----------------------------------------------------------------------------
(* Admission. *)

\* Client::call reads the incarnation and addresses its request to that one.  A caller
\* that names an operation again after a restart addresses it to the new one too.
Issue(o) ==
  /\ Serving /\ lock = None
  /\ Ready
  /\ epoch \notin issued[o]
  /\ issued' = [issued EXCEPT ![o] = @ \cup {epoch}]
  /\ UNCHANGED <<registryVars, jobVars, workVars, permitVars, phase, shutdown,
                 epoch, ghostVars>>

\* Of the requests on their way only those for this incarnation are served.  Faulty
\* variant: the incarnation of a request is not looked at.
AnyIncarnation(o) == issued[o] # {}
ThisIncarnation(o) == epoch \in issued[o]

\* Faulty variant: a request is admitted while another workflow is open.
PermitIgnored == TRUE
PermitFree == gate = None

\* secure_delivery.  Requests for o may arrive any number of times, from any
\* client and with any profile, late ones too: a retained or spent operation and
\* a request of another incarnation change nothing and are not steps.
Reserve(o, c, p) ==
  /\ Serving /\ lock = None
  /\ ThisIncarnation(o)
  /\ Paired(c)
  /\ job[o].state = "none" /\ o \notin spent
  /\ Cardinality(spent) < MaxSpent /\ Cardinality(Live) < MaxJobs
  /\ <<c, p>> \in Usable
  /\ PermitFree
  /\ \E e \in Owned(reg, c, p) :
       \/ /\ AuditFails
          /\ UNCHANGED <<reg, disk, epochs, jobVars, workVars, permitVars,
                         serviceVars, ghostVars>>
       \/ /\ gate' = o
          /\ spent' = spent \cup {o}
          /\ job' = [job EXCEPT ![o] = [state |-> "pending", mayHaveRun |-> FALSE,
                                        owner |-> c, profile |-> p]]
          /\ \E g \in IF Covering(reg, c, p) = {} THEN {0}
                      ELSE {x.id : x \in Covering(reg, c, p)} :
               ticket' = [ticket EXCEPT ![o] =
                            [owner |-> c, profile |-> p, content |-> e.content,
                             existing |-> g, epoch |-> epochs[c]]]
          /\ pc' = [pc EXCEPT ![o] = "reserved"]
          /\ UNCHANGED <<registryVars, cancel, late, result, lock, admin,
                         serviceVars, ghostVars>>

\* The request hands the permit to a background task and answers its client.
Spawn(o) ==
  /\ Up /\ pc[o] = "reserved"
  /\ pc' = [pc EXCEPT ![o] = "prompt"]
  /\ UNCHANGED <<registryVars, jobVars, ticket, result, permitVars, serviceVars,
                 ghostVars>>

\* cancel_delivery, by the client the job belongs to.
Cancel(o) ==
  /\ Serving /\ lock = None
  /\ o \in Open \ cancel
  /\ Paired(job[o].owner)
  /\ cancel' = cancel \cup {o}
  /\ void' = void \cup ({o} \cap Pending)
  /\ UNCHANGED <<registryVars, job, spent, late, workVars, permitVars, serviceVars,
                 log, runs, nextContent, nextGrant, revoked>>

\* A finished job leaves the table ten minutes after its admission.  Every
\* transaction reaps first, so nobody sees it later than that.
Reap(o) ==
  /\ Up /\ lock = None
  /\ job[o].state \in Terminal
  /\ job' = [job EXCEPT ![o] = NoJob]
  /\ UNCHANGED <<registryVars, spent, cancel, late, workVars, permitVars,
                 serviceVars, ghostVars>>

-----------------------------------------------------------------------------
(* The decision. *)

DeadlinePasses(o) ==
  /\ Up
  /\ pc[o] \in {"prompt", "once", "always", "authorizing"}
  /\ o \notin late
  /\ late' = late \cup {o}
  /\ UNCHANGED <<registryVars, job, spent, cancel, workVars, permitVars,
                 serviceVars, ghostVars>>

\* Faulty variant: no timer is armed beside the prompt.
PromptWaits(o) == FALSE /\ UNCHANGED vars

\* The select of run_delivery times out: the prompt is torn down first.
PromptExpires(o) ==
  /\ Up
  /\ pc[o] = "prompt" /\ o \in late
  /\ cancel' = cancel \cup {o}
  /\ Settle(o, "expired", FALSE)
  /\ UNCHANGED <<registryVars, job, spent, late, ticket, permitVars,
                 serviceVars, ghostVars>>

\* Cancellation wins over any answer the prompt may still return.
PromptCancelled(o) ==
  /\ Up
  /\ pc[o] = "prompt" /\ Cancelled(o)
  /\ Settle(o, "cancelled", FALSE)
  /\ UNCHANGED <<registryVars, jobVars, ticket, permitVars, serviceVars, ghostVars>>

\* ConsentTicket::decide: a remembered consent needs no prompt, otherwise the
\* human allows this use, allows it always, denies it, or the helper fails.
Decide(o) ==
  /\ Up
  /\ pc[o] = "prompt" /\ ~Cancelled(o)
  /\ \/ /\ pc' = [pc EXCEPT ![o] = "once"]
        /\ UNCHANGED result
     \/ /\ ticket[o].existing = 0 /\ nextGrant <= MaxGrantId
        /\ pc' = [pc EXCEPT ![o] = "always"]
        /\ UNCHANGED result
     \/ /\ ticket[o].existing = 0
        /\ \E s \in {"denied", "failed"} : Settle(o, s, FALSE)
  /\ UNCHANGED <<registryVars, jobVars, ticket, permitVars, serviceVars, ghostVars>>

-----------------------------------------------------------------------------
(* The authorization transaction. *)

\* authorize_use: the consent the ticket stands for still exists, or no reset of
\* the client's consents has happened since admission.
ConsentStands(t) ==
  IF t.existing # 0
  THEN \E g \in Covering(reg, t.owner, t.profile) : g.id = t.existing
  ELSE epochs[t.owner] = t.epoch


\* What the transaction checks about a registered destination and its use.
Permitted(t) ==
  /\ Owned(reg, t.owner, t.profile) # {}
  /\ <<t.owner, t.profile>> \in Usable
  /\ ConsentStands(t)

CanRemember(t) ==
  /\ Cardinality(reg.consents) < MaxGrants
  /\ Covering(reg, t.owner, t.profile) = {}

\* The checks fail with s.  Cancellation is also looked at before the
\* transaction, so that shutdown may answer "cancelled" or "failed".
RefusedWith(o, s) ==
  LET t == ticket[o] IN
  \/ Cancelled(o) /\ s = "cancelled"
  \/ ~Ready /\ s = "failed"
  \/ Ready /\ t.owner \notin reg.peers /\ s = "denied"
  \/ /\ Paired(t.owner) /\ ~Cancelled(o)
     /\ \/ o \in late /\ s = "expired"
        \/ o \notin late /\ ~Permitted(t) /\ s = "denied"
        \/ /\ o \notin late /\ Permitted(t)
           /\ pc[o] = "always" /\ ~CanRemember(t)
           /\ s = "failed"

AuthorizeRefused(o) ==
  /\ Up /\ lock = None
  /\ pc[o] \in {"once", "always"}
  /\ \E s \in Terminal : RefusedWith(o, s) /\ Settle(o, s, FALSE)
  /\ UNCHANGED <<registryVars, jobVars, ticket, permitVars, serviceVars, ghostVars>>

Authorizable(o) ==
  LET t == ticket[o] IN
  /\ Up /\ lock = None
  /\ pc[o] \in {"once", "always"}
  /\ Paired(t.owner) /\ ~Cancelled(o) /\ o \notin late
  /\ Permitted(t)
  /\ pc[o] = "always" => CanRemember(t)

\* The registry with the consent an "always" decision creates.
Remembering(o) ==
  IF pc[o] = "always"
  THEN [reg EXCEPT !.consents = @ \cup
          {[id |-> nextGrant, owner |-> ticket[o].owner,
            profile |-> ticket[o].profile, content |-> ticket[o].content]}]
  ELSE reg

\* All the durable writes succeed; the mutex stays held for the last checks.
Authorize(o) ==
  /\ Authorizable(o)
  /\ reg' = Remembering(o)
  /\ disk' = IF pc[o] = "always" THEN Remembering(o) ELSE disk
  /\ nextGrant' = IF pc[o] = "always" THEN nextGrant + 1 ELSE nextGrant
  /\ log' = log \cup {Line(o, "authorized")}
  /\ lock' = o
  /\ pc' = [pc EXCEPT ![o] = "authorizing"]
  /\ UNCHANGED <<epochs, faulted, jobVars, ticket, result, gate, admin,
                 serviceVars, runs, nextContent, revoked, void>>

\* A durable write of the transaction fails: the first audit record, then the
\* save of a new consent or its record, then the authorization record.
AuthorizeFaults(o) ==
  /\ Authorizable(o)
  /\ faulted' = TRUE
  /\ Settle(o, "failed", FALSE)
  /\ \/ UNCHANGED <<reg, disk, nextGrant, log>>
     \/ /\ pc[o] = "always"
        /\ reg' = Remembering(o) /\ disk' \in {disk, Remembering(o)}
        /\ nextGrant' = nextGrant + 1
        /\ UNCHANGED log
     \/ /\ reg' = Remembering(o)
        /\ disk' = IF pc[o] = "always" THEN Remembering(o) ELSE disk
        /\ nextGrant' = IF pc[o] = "always" THEN nextGrant + 1 ELSE nextGrant
        /\ log' = log \cup {Line(o, "authorized")}
  /\ UNCHANGED <<epochs, jobVars, ticket, permitVars, serviceVars, runs,
                 nextContent, revoked, void>>

\* The job as its material leaves custody.  Faulty variant: may_have_run is left
\* to the effect to report.
StartsSilently(j) == [j EXCEPT !.state = "running"]
Starts(j) == [j EXCEPT !.state = "running", !.mayHaveRun = TRUE]

\* Faulty variant: the answer of the prompt is acted on without a second look.
ReleaseUnchecked(o) ==
  /\ Up /\ lock = None
  /\ pc[o] \in {"once", "always"}
  /\ job' = [job EXCEPT ![o] = Starts(@)]
  /\ pc' = [pc EXCEPT ![o] = "effect"]
  /\ UNCHANGED <<registryVars, spent, cancel, late, ticket, result, permitVars,
                 serviceVars, ghostVars>>

\* The token and the clock are read once more, the material is resolved, and
\* the job is Running: from here on the recipient may have received it.
Release(o) ==
  /\ Up /\ lock = o
  /\ pc[o] = "authorizing"
  /\ ~Cancelled(o) /\ o \notin late
  /\ job[o].state = "pending"
  /\ job' = [job EXCEPT ![o] = Starts(@)]
  /\ pc' = [pc EXCEPT ![o] = "effect"]
  /\ lock' = None
  /\ UNCHANGED <<registryVars, spent, cancel, late, ticket, result, gate, admin,
                 serviceVars, ghostVars>>

\* A late cancellation or expiry, or material the effect cannot carry.
ReleaseRefused(o) ==
  /\ Up /\ lock = o
  /\ pc[o] = "authorizing"
  /\ \E s \in {"failed"} \cup (IF Cancelled(o) THEN {"cancelled"} ELSE {})
                         \cup (IF o \in late THEN {"expired"} ELSE {}) :
       Settle(o, s, FALSE)
  /\ lock' = None
  /\ UNCHANGED <<registryVars, jobVars, ticket, gate, admin, serviceVars, ghostVars>>

-----------------------------------------------------------------------------
(* The effect: effect/src/http.rs and process.rs, outside the mutex. *)

EffectCancelled(o) ==
  /\ Up /\ pc[o] = "effect" /\ Cancelled(o)
  /\ Settle(o, "cancelled", FALSE)
  /\ UNCHANGED <<registryVars, jobVars, ticket, permitVars, serviceVars, ghostVars>>

EffectStarts(o) ==
  /\ Up /\ pc[o] = "effect" /\ ~Cancelled(o)
  /\ pc' = [pc EXCEPT ![o] = "sending"]
  /\ UNCHANGED <<registryVars, jobVars, ticket, result, permitVars, serviceVars,
                 ghostVars>>

\* The recipient is given the material; the token may have fired just before.
Dispatch(o) ==
  /\ Up /\ pc[o] = "sending"
  /\ pc' = [pc EXCEPT ![o] = "sent"]
  /\ runs' = [runs EXCEPT ![o] = @ + 1]
  /\ UNCHANGED <<registryVars, jobVars, ticket, result, permitVars, serviceVars,
                 log, nextContent, nextGrant, revoked, void>>

\* Nothing was dispatched.  The process runtime may still call this uncertain.
NotDispatched(o) ==
  /\ Up /\ pc[o] = "sending"
  /\ \/ \E s \in {"failed", "expired"} \cup (IF Cancelled(o) THEN {"cancelled"} ELSE {}) :
          Settle(o, s, FALSE)
     \/ Settle(o, "uncertain", TRUE)
  /\ UNCHANGED <<registryVars, jobVars, ticket, permitVars, serviceVars, ghostVars>>

\* The recipient answered, or cancellation or a timeout cut the wait short.
Settled(o) ==
  /\ Up /\ pc[o] = "sent"
  /\ \E s \in {"completed", "failed", "uncertain"} : Settle(o, s, TRUE)
  /\ UNCHANGED <<registryVars, jobVars, ticket, permitVars, serviceVars, ghostVars>>

\* The receipt a client reads once the outcome r is recorded durably, or is not.
\* Faulty variant: a failed completion record is ignored.
PublishedAnyway(r, audited) == r
Published(r, audited) == IF audited THEN r ELSE [r EXCEPT !.state = "uncertain"]

\* Faulty variant: the receipt is published and the permit kept.
KeepsPermit(o) == UNCHANGED gate
ReleasesPermit(o) == gate' = None

\* The completion transaction: audit record, receipt and permit together.
Complete(o) ==
  /\ Up /\ lock = None
  /\ pc[o] = "settled"
  /\ \E audited \in BOOLEAN :
       LET done == Line(o, result[o].state)
           seen == Published(result[o], audited)
       IN /\ log' \in IF audited THEN {log \cup {done}} ELSE {log, log \cup {done}}
          /\ job' = [job EXCEPT ![o].state = seen.state,
                                ![o].mayHaveRun = seen.mayHaveRun]
          /\ faulted' = (faulted \/ ~audited)
  /\ ReleasesPermit(o)
  /\ Ends({o})
  /\ UNCHANGED <<reg, disk, epochs, spent, lock, admin, serviceVars, runs,
                 nextContent, nextGrant, revoked, void>>

-----------------------------------------------------------------------------
(* Withdrawing authority: no permit and no native decision is needed. *)

\* Client c withdraws the uses of the profiles P; r is the registry left.
Withdraw(c, P, r) ==
  /\ Serving /\ lock = None
  /\ Paired(c)
  /\ epochs[c] < MaxReset
  /\ \/ /\ AuditFails
        /\ UNCHANGED <<reg, disk, epochs, cancel, revoked, void>>
     \/ /\ epochs' = [epochs EXCEPT ![c] = @ + 1]
        /\ cancel' = cancel \cup Uses(c, P)
        /\ Persist(r)
        /\ revoked' = IF faulted' THEN revoked
                      ELSE revoked \cup {g.id : g \in reg.consents \ r.consents}
        /\ void' = void \cup (Pending \cap
             (Uses(c, P) \cup {o \in Uses(c, Profile) : ticket[o].existing = 0}))
  /\ UNCHANGED <<job, spent, late, workVars, permitVars, serviceVars, log, runs,
                 nextContent, nextGrant>>

Without(c, P) == {g \in reg.consents : g.owner # c \/ g.profile \notin P}

\* The registry without profile p of c.  Faulty variant: its consents stay.
ProfileOnlyRemoved(c, p) == [reg EXCEPT !.profiles = @ \ Owned(reg, c, p)]
ProfileRemoved(c, p) ==
  [reg EXCEPT !.profiles = @ \ Owned(reg, c, p), !.consents = Without(c, {p})]

RemoveProfile(c, p) ==
  /\ Owned(reg, c, p) # {}
  /\ Withdraw(c, {p}, ProfileRemoved(c, p))

RevokeConsent(c, p) ==
  /\ Covering(reg, c, p) # {}
  /\ Withdraw(c, {p}, [reg EXCEPT !.consents = Without(c, {p})])

ClearConsents(c) == Withdraw(c, Profile, [reg EXCEPT !.consents = Without(c, Profile)])

-----------------------------------------------------------------------------
(* Administrative requests hold the permit until their future ends. *)

AdminBegin(kind, c, target) ==
  /\ Serving /\ lock = None
  /\ Paired(c)
  /\ PermitFree
  /\ gate' = "admin"
  /\ admin' = [kind |-> kind, client |-> c, target |-> target, step |-> "prompt"]
  /\ UNCHANGED <<registryVars, jobVars, workVars, lock, serviceVars, ghostVars>>

\* The checks register_delivery makes before the prompt and again after it.
Registrable(c, p) ==
  /\ Paired(c) /\ <<c, p>> \in Usable
  /\ Cardinality(reg.profiles) < MaxProfiles
  /\ \A e \in reg.profiles : e.id # p

RegisterBegin(c, p) == Registrable(c, p) /\ AdminBegin("register", c, p)
RevokeBegin(c, t)   == t \in reg.peers /\ AdminBegin("revoke", c, t)
StopBegin(c)        == AdminBegin("stop", c, None)

AdminGoesTo(step) == admin' = [admin EXCEPT !.step = step]

\* The human allows the request, or it ends: denied, timed out or cancelled.
AdminAnswer ==
  /\ Up /\ admin # None
  /\ admin.step = "prompt"
  /\ \/ ~shutdown /\ AdminGoesTo("allowed")
     \/ AdminGoesTo("finished")
  /\ UNCHANGED <<registryVars, jobVars, workVars, gate, lock, serviceVars, ghostVars>>

AdminCommits(kind) ==
  /\ Up /\ lock = None
  /\ admin # None
  /\ admin.kind = kind /\ admin.step = "allowed"
  /\ Paired(admin.client)
  /\ AdminGoesTo("finished")

RegisterCommit ==
  /\ AdminCommits("register")
  /\ Registrable(admin.client, admin.target)
  /\ nextContent <= MaxContent
  /\ \/ /\ AuditFails
        /\ UNCHANGED <<reg, disk, nextContent>>
     \/ /\ Persist([reg EXCEPT !.profiles = @ \cup
                      {[id |-> admin.target, owner |-> admin.client,
                        content |-> nextContent]}])
        /\ nextContent' = nextContent + 1
  /\ UNCHANGED <<epochs, jobVars, workVars, gate, lock, serviceVars, log, runs,
                 nextGrant, revoked, void>>

\* The registry without client t.  Faulty variant: its destinations stay.
PeerOnlyUnpaired(t) == [reg EXCEPT !.peers = @ \ {t}, !.consents = Without(t, Profile)]
Unpaired(t) ==
  [peers    |-> reg.peers \ {t},
   profiles |-> {e \in reg.profiles : e.owner # t},
   consents |-> Without(t, Profile)]

RevokeCommit ==
  /\ AdminCommits("revoke")
  /\ LET t == admin.target IN
     \/ /\ AuditFails
        /\ UNCHANGED <<reg, disk, epochs, cancel, revoked, void>>
     \/ /\ Persist(Unpaired(t))
        /\ epochs' = [epochs EXCEPT ![t] = 0]
        /\ cancel' = cancel \cup Uses(t, Profile)
        /\ revoked' = IF faulted' THEN revoked
                      ELSE revoked \cup {g.id : g \in reg.consents \ Unpaired(t).consents}
        /\ void' = void \cup (Pending \cap Uses(t, Profile))
  /\ UNCHANGED <<job, spent, late, workVars, gate, lock, serviceVars, log, runs,
                 nextContent, nextGrant>>

StopCommit ==
  /\ AdminCommits("stop")
  /\ \/ AuditFails /\ UNCHANGED shutdown
     \/ shutdown' = TRUE /\ UNCHANGED faulted
  /\ UNCHANGED <<reg, disk, epochs, jobVars, workVars, gate, lock, phase, epoch,
                 issued, ghostVars>>

\* The committing transaction finds its checks no longer hold, or is too late.
AdminRefused ==
  /\ Up /\ lock = None
  /\ admin # None
  /\ admin.step = "allowed"
  /\ \/ ~Paired(admin.client)
     \/ admin.kind = "register"
  /\ AdminGoesTo("finished")
  /\ UNCHANGED <<registryVars, jobVars, workVars, gate, lock, serviceVars, ghostVars>>

AdminEnd ==
  /\ Up /\ admin # None
  /\ admin.step = "finished"
  /\ admin' = None
  /\ gate' = None
  /\ UNCHANGED <<registryVars, jobVars, workVars, lock, serviceVars, ghostVars>>

-----------------------------------------------------------------------------
(* Shutdown, crash and restart. *)

\* SIGTERM, or the listener failing.
Signal ==
  /\ Serving /\ ~shutdown
  /\ shutdown' = TRUE
  /\ UNCHANGED <<registryVars, jobVars, workVars, permitVars, phase, epoch, issued,
                 ghostVars>>

\* ipc::serve leaves its accept loop; the open connections are drained.
StopAccepting ==
  /\ phase = "serving" /\ shutdown
  /\ phase' = "draining"
  /\ UNCHANGED <<registryVars, jobVars, workVars, permitVars, shutdown, epoch, issued,
                 ghostVars>>

\* Whose permit an aborted connection drops: the administrative request's, or
\* that of an admitted operation not handed to its task yet.
Unspawned == {o \in Op : pc[o] = "reserved"}
DropsAnyPermit == None
DropsAdminPermit == IF gate = "admin" THEN None ELSE gate
DropsPermit == IF gate \in Unspawned \cup {"admin"} THEN None ELSE gate

\* Ten seconds after the accept loop ended the connections left are aborted.
Drained ==
  /\ phase = "draining" /\ lock = None
  /\ phase' = "stopping"
  /\ admin' = None
  /\ gate' = DropsPermit
  /\ Ends(Unspawned)
  /\ UNCHANGED <<registryVars, job, spent, lock, shutdown, epoch, issued, ghostVars>>

\* quiesce: cancel every job, take the permit, wait for the background tasks.
StopAll ==
  /\ phase = "stopping" /\ lock = None
  /\ phase' = "acquiring"
  /\ cancel' = cancel \cup Live
  /\ UNCHANGED <<registryVars, job, spent, late, workVars, permitVars, shutdown, epoch,
                 issued, ghostVars>>

QuiesceAcquire ==
  /\ phase = "acquiring"
  /\ gate = None
  /\ gate' = "quiesce"
  /\ phase' = "waiting"
  /\ UNCHANGED <<registryVars, jobVars, workVars, lock, admin, shutdown, epoch, issued,
                 ghostVars>>

\* The process is gone, and with it everything that is not on disk.
MemoryLost ==
  /\ reg' = Blank
  /\ epochs' = NoEpochs /\ faulted' = FALSE
  /\ job' = NoJobs /\ spent' = {} /\ cancel' = {} /\ late' = {}
  /\ pc' = AllIdle /\ ticket' = NoTickets /\ result' = NoTickets
  /\ gate' = None /\ lock' = None /\ admin' = None
  /\ phase' = "down" /\ shutdown' = FALSE
  /\ log' = {} /\ runs' = NoRuns /\ void' = {}
  /\ UNCHANGED <<disk, epoch, issued, nextContent, nextGrant, revoked>>

Exit ==
  /\ phase = "waiting"
  /\ \A o \in Op : pc[o] = "idle"
  /\ MemoryLost

Crash == Up /\ MemoryLost

\* Broker::with_components refuses a registry that contradicts itself.
ValidRegistry(r) ==
  /\ Cardinality(r.profiles) <= MaxProfiles
  /\ \A e \in r.profiles : e.owner \in r.peers /\ <<e.owner, e.id>> \in Usable
  /\ \A e, f \in r.profiles : e.id = f.id => e = f
  /\ Cardinality(r.consents) <= MaxGrants
  /\ \A g \in r.consents : g.owner \in r.peers /\ Owned(r, g.owner, g.profile) # {}
  /\ \A g, h \in r.consents :
       g.id = h.id \/ (g.owner = h.owner /\ g.profile = h.profile) => g = h

Restart ==
  /\ phase = "down"
  /\ epoch < MaxEpoch
  /\ ValidRegistry(disk)
  /\ reg' = disk
  /\ phase' = "serving"
  /\ epoch' = epoch + 1
  /\ UNCHANGED <<disk, epochs, faulted, jobVars, workVars, permitVars, shutdown,
                 issued, ghostVars>>

-----------------------------------------------------------------------------

\* What the operation's task does on its own, without the human.
Machine(o) ==
  \/ Spawn(o) \/ DeadlinePasses(o) \/ PromptExpires(o) \/ PromptCancelled(o)
  \/ AuthorizeRefused(o) \/ Authorize(o) \/ AuthorizeFaults(o)
  \/ Release(o) \/ ReleaseRefused(o)
  \/ EffectCancelled(o) \/ EffectStarts(o) \/ Dispatch(o) \/ NotDispatched(o)
  \/ Settled(o) \/ Complete(o)

Request ==
  \/ \E o \in Op : Issue(o) \/ Cancel(o)
  \/ \E o \in Op, c \in Client, p \in Profile : Reserve(o, c, p)
  \/ \E c \in Client, p \in Profile :
       RemoveProfile(c, p) \/ RevokeConsent(c, p) \/ RegisterBegin(c, p)
  \/ \E c \in Client : ClearConsents(c) \/ StopBegin(c)
  \/ \E c, t \in Client : RevokeBegin(c, t)

AdminStep == AdminAnswer \/ RegisterCommit \/ RevokeCommit \/ StopCommit
             \/ AdminRefused \/ AdminEnd

Service == StopAccepting \/ Drained \/ StopAll \/ QuiesceAcquire \/ Exit

Next ==
  \/ Request
  \/ \E o \in Op : Machine(o) \/ Decide(o) \/ Reap(o)
  \/ AdminStep
  \/ Signal \/ Service \/ Crash \/ Restart

Spec == Init /\ [][Next]_vars

\* Tokio runs every task that can run, timers fire, prompts and effects end at
\* their own deadline or at cancellation.  Nothing is assumed of the human, whose
\* silence ends an administrative prompt too, of clients' requests or of crashes.
Fairness ==
  /\ \A o \in Op : WF_vars(Machine(o))
  /\ WF_vars(AdminStep)
  /\ WF_vars(Service)

FairSpec == Spec /\ Fairness

-----------------------------------------------------------------------------
(* Invariants. *)

TypeOK ==
  /\ reg \in Registry /\ disk \in Registry
  /\ epochs \in [Client -> 0..MaxReset]
  /\ faulted \in BOOLEAN
  /\ job \in [Op -> Job]
  /\ spent \subseteq Op /\ cancel \subseteq Op /\ late \subseteq Op
  /\ pc \in [Op -> PC]
  /\ ticket \in [Op -> Ticket \cup {None}]
  /\ result \in [Op -> Result \cup {None}]
  /\ gate \in Op \cup {None, "admin", "quiesce"}
  /\ lock \in Op \cup {None}
  /\ admin \in Admin \cup {None}
  /\ phase \in Phase /\ shutdown \in BOOLEAN
  /\ epoch \in 1..MaxEpoch
  /\ issued \in [Op -> SUBSET (1..MaxEpoch)]
  /\ log \subseteq Receipt
  /\ runs \in [Op -> Nat]
  /\ nextContent \in 1..(MaxContent + 1) /\ nextGrant \in 1..(MaxGrantId + 1)
  /\ revoked \subseteq 1..MaxGrantId
  /\ void \subseteq Op

\* One workflow at a time, through prompt, effect and cleanup, whoever ends it
\* and however: an operation whose task is alive holds the only permit.  The
\* permit is handed from the request to its task and may be dropped by shutdown.
OneWorkflow ==
  /\ \A o \in Op : pc[o] # "idle" => gate = o
  /\ admin # None => gate = "admin"

\* A client that reads a finished receipt does not find its own job still busy:
\* receipt and permit change hands in the same transaction.
FinishedIsReleased == \A o \in Op : job[o].state \in Terminal => gate # o

\* Requests may be repeated, and arrive late or after the result was dropped: an
\* incarnation gives the recipient an operation's material once, and only if its
\* client addressed the operation to that very incarnation.  A request that was on
\* its way when the daemon restarted reaches nobody (broker.rs, dispatch); a call
\* made anew after the restart is a new use, and protocol.md promises no more.
AtMostOnce == \A o \in Op : runs[o] <= 1 /\ (runs[o] = 1 => epoch \in issued[o])

\* "may_have_run = false is explicit evidence": no retained job says so once the
\* recipient was reached, in any state of the job, faulted or not.
HonestReceipt ==
  \A o \in Op : job[o].state # "none" /\ runs[o] > 0 => job[o].mayHaveRun

\* Nothing is dispatched before this incarnation's record says it was authorized, and a
\* receipt other than uncertain is on disk before a client can read it.
AuditedFirst ==
  \A o \in Op :
    /\ runs[o] > 0 => Line(o, "authorized") \in log
    /\ job[o].state \in Terminal \ {"uncertain"} => Line(o, job[o].state) \in log

\* A remembered consent stands for the very destination the human read: its
\* profile, with that content, is registered, in memory and on disk.
ConsentBindsContent ==
  \A r \in {reg, disk} : \A g \in r.consents :
    [id |-> g.profile, owner |-> g.owner, content |-> g.content] \in r.profiles

\* A consent whose revocation was acknowledged exists nowhere, not after a crash
\* either: a late decision or an older file cannot bring it back.
RevokedStaysRevoked ==
  \A r \in {reg, disk} : \A g \in r.consents : g.id \notin revoked

\* A decision that was pending when its operation was cancelled or its client's
\* authority withdrawn is void, whatever the human answers later.
VoidNeverRuns ==
  \A o \in void : runs[o] = 0 /\ job[o].state # "running"

\* Whatever was written last, and whichever write failed, the next incarnation
\* accepts the registry it finds.
DiskReopens == ValidRegistry(disk)

-----------------------------------------------------------------------------
(* Action properties. *)

\* Material leaves custody only for the destination the human was shown, still
\* registered for the client that asked, and for no consent that has gone.
ReleaseAsApproved ==
  [][\A o \in Op :
       job[o].state = "pending" /\ job'[o].state = "running" =>
         LET t == ticket[o] IN
         /\ [id |-> job[o].profile, owner |-> job[o].owner,
             content |-> t.content] \in reg.profiles
         /\ t.existing # 0 =>
              \E g \in reg.consents : g.id = t.existing /\ g.content = t.content]_vars

\* After a failed durable write the registry is frozen and nothing new is
\* admitted or released, until the daemon restarts.
FaultFreezes ==
  [][faulted /\ faulted' =>
       /\ reg' = reg /\ disk' = disk
       /\ spent' = spent
       /\ \A o \in Op : job[o].state = "pending" => job'[o].state # "running"]_vars

-----------------------------------------------------------------------------
(* Liveness, under FairSpec. *)

\* Every operation whose task was started gets a final receipt, unless the
\* daemon goes down: the permit cannot be held for ever.
EveryTaskEnds ==
  \A o \in Op : pc[o] # "idle" ~> pc[o] = "idle"

\* Cooperative shutdown ends, whatever it interrupts.
ShutdownEnds == shutdown ~> phase = "down"
=============================================================================
