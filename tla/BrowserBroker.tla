---------------------------- MODULE BrowserBroker ----------------------------
(***************************************************************************)
(* The broker's browser half: browser connections (an automation endpoint, *)
(* or the extension of a profile the human approved), target handles,      *)
(* permissions, and fills of saved or freshly entered credentials.  It     *)
(* follows magicvault-service/src/broker/browser.rs and browser/prompt.rs  *)
(* with what they share with broker.rs and consent.rs, and the adapters of *)
(* magicvault-effect (bridge.rs, cdp.rs) up to the wire.  The page and the *)
(* extension behind the wire are external.                                 *)
(*                                                                         *)
(* A transaction is one action.  Time and the shutdown token may move      *)
(* inside the authorization of a fill, between its durable writes and its  *)
(* last checks: Authorize has those outcomes too.                          *)
(***************************************************************************)
EXTENDS Naturals, FiniteSets

CONSTANTS
  Client,        \* paired clients, each with the credentials Cred
  Cred,          \* credential references
  Profile,       \* browser profiles with the extension
  Conn,          \* native connections that may be in progress at once
  Op,            \* operation identifiers
  Origin,        \* origins
  Place,         \* document -> the origins of its page and frame
  None,          \* absence of a value
  MaxBrowsers,   \* MAX_BROWSERS
  MaxGrants,     \* MAX_GRANTS, remembered consents
  MaxNative,     \* MAX_NATIVE_GRANTS
  MaxPermissions,\* MAX_BROWSER_PERMISSIONS
  MaxJobs,       \* MAX_FILL_JOBS
  MaxSpent,      \* capacity of used_operations
  MaxHandle,     \* bound of the model: browsers ever registered
  MaxTarget,     \* bound of the model: target handles ever issued
  MaxGrantId,    \* bound of the model: remembered consents ever created
  MaxEpoch       \* bound of the model: incarnations of the daemon

Doc    == DOMAIN Place
Handle == 1..MaxHandle
Target == 1..MaxTarget

ASSUME BrowserAssumption ==
  /\ None \notin Op \cup Conn \cup Client \cup Profile \cup {"admin"}
  /\ Op \cap Conn = {} /\ "admin" \notin Op \cup Conn
  /\ Profile \cap Handle = {}
  /\ Doc \subseteq Nat /\ \A d \in Doc : Place[d] \subseteq Origin
  /\ IsFiniteSet(Op)
  /\ {MaxBrowsers, MaxGrants, MaxNative, MaxPermissions, MaxJobs, MaxSpent} \subseteq Nat
  /\ {MaxHandle, MaxTarget, MaxGrantId} \subseteq Nat /\ MaxEpoch \in Nat \ {0}

VARIABLES
  reg,       \* the registry in memory: peers, permissions, native grants, consents
  disk,      \* the registry clients.json holds
  epochs,    \* consent epoch of each client
  faulted,   \* a durable write failed in this incarnation
  inst,      \* BrowserState.instances
  bound,     \* BrowserState.targets
  job,       \* BrowserState.fills, what fill_status reports
  spent,     \* BrowserState.used_operations
  cancel,    \* operations whose cancellation token has fired
  pc,        \* where the background task of a fill is
  ticket,    \* what that task captured at admission
  result,    \* the outcome it is about to publish
  gate,      \* holder of the human permit
  admin,     \* the administrative request that holds the permit
  conn,      \* native connections between their greeting and registration
  probe,     \* the target discovery in progress
  link,      \* the adapter of each handle
  wire,      \* who uses the connection of an adapter
  page,      \* the document each browser shows
  flight,    \* fills on the wire that the page has not acted on
  up,        \* the daemon runs
  shutdown,  \* the shutdown token
  epoch,     \* incarnation of the daemon
  ids,       \* next browser handle, target handle and consent
  ghost      \* history, see GhostInit

registryVars == <<reg, disk, epochs, faulted>>
tableVars    == <<inst, bound, job, spent>>
workVars     == <<cancel, pc, ticket, result>>
permitVars   == <<gate, admin, conn, probe>>
wireVars     == <<link, wire, page, flight>>
serviceVars  == <<up, shutdown, epoch>>
vars == <<registryVars, tableVars, workVars, permitVars, wireVars, serviceVars, ids, ghost>>

-----------------------------------------------------------------------------
(* State. *)

Permission == [owner : Client, cred : Cred, origins : (SUBSET Origin) \ {{}}]
Native     == [owner : Client, profile : Profile, allowed : BOOLEAN]
\* The browser a consent names: an approved profile, or one live connection.
Scope == [who : Profile \cup Handle, place : SUBSET Origin, creds : SUBSET Cred]
Grant == [id : 1..MaxGrantId, owner : Client, scope : Scope]
Registry == [peers : SUBSET Client, perms : SUBSET Permission,
             natives : SUBSET Native, consents : SUBSET Grant]

Instance == [owner : Client, profile : Profile \cup {None}]
Bound    == [owner : Client, browser : Handle, doc : Doc]

\* "unfilled" stands for denied, expired, cancelled and failed: no field was written.
Finished == {"filled", "partial", "unfilled", "uncertain"}
Job   == [state : {"none", "pending", "filling"} \cup Finished,
          owner : Client \cup {None}, browser : Handle \cup {None},
          target : Target \cup {None}]
NoJob == [state |-> "none", owner |-> None, browser |-> None, target |-> None]

\* A prompted fill has no creds and no consent; existing = 0 when no remembered
\* consent covered the fill at admission.
Epochs == 0..Cardinality(Op)
Ticket == [owner : Client, browser : Handle, doc : Doc,
           prompted : BOOLEAN, scope : Scope, existing : 0..MaxGrantId,
           epoch : Epochs]

PC == {"idle", "reserved", "prompt", "once", "always", "effect",
       "sending", "sent", "settled"}
Admin == [kind : {"cdp", "configure", "revoke"}, client : Client, target : Client,
          cred : Cred, origins : SUBSET Origin,
          step : {"prompt", "allowed", "connected"}]
Hello == [client : Client, profile : Profile, manual : BOOLEAN, fresh : BOOLEAN,
          step : {"asking", "prompt", "approved", "trusted"}]
Probe == [client : Client, browser : Handle, step : {"waiting", "found"}, doc : Doc]
Link  == {"none", "open", "ready", "stopped", "lost"}

\* None stands for no record.
ASSUME NoneAssumption ==
  None \notin Instance \cup Bound \cup Ticket \cup Admin \cup Hello \cup Probe \cup Handle \cup Finished

Blank == [peers |-> {}, perms |-> {}, natives |-> {}, consents |-> {}]

\* gave: how often material was put on the wire for a target handle, and wrote what
\* the page did with it; asked: profiles a human was asked about; cut: profiles
\* disconnected by their client since an approval of theirs was last committed, which
\* the human may have given before; revoked: consents a client was told are revoked; void: fills in progress that were
\* withdrawn while their decision was pending.
GhostInit ==
  [gave |-> [t \in Target |-> 0], wrote |-> [t \in Target |-> "none"],
   asked |-> {}, cut |-> {}, revoked |-> {}, void |-> {}]

Init ==
  /\ disk = [Blank EXCEPT !.peers = Client] /\ reg = disk
  /\ epochs = [c \in Client |-> 0] /\ faulted = FALSE
  /\ inst = [h \in Handle |-> None] /\ bound = [t \in Target |-> None]
  /\ job = [o \in Op |-> NoJob] /\ spent = {}
  /\ cancel = {}
  /\ pc = [o \in Op |-> "idle"]
  /\ ticket = [o \in Op |-> None] /\ result = [o \in Op |-> None]
  /\ gate = None /\ admin = None /\ probe = None
  /\ conn = [k \in Conn |-> None]
  /\ link = [h \in Handle |-> "none"] /\ wire = [h \in Handle |-> None]
  /\ \E d \in Doc : (\A e \in Doc : d <= e) /\ page = [h \in Handle |-> d]
  /\ flight = {}
  /\ up = TRUE /\ shutdown = FALSE /\ epoch = 1
  /\ ids = [handle |-> 1, target |-> 1, grant |-> 1]
  /\ ghost = GhostInit

-----------------------------------------------------------------------------
(* Helpers. *)

Live == {h \in Handle : inst[h] # None}
\* BrowserAdapter::connected: the end of an extension's socket is noticed at once,
\* that of an automation endpoint only by the next exchange.
Connected(h) ==
  \/ link[h] \in {"open", "ready"}
  \/ link[h] = "lost" /\ inst[h].profile = None
\* Every transaction starts by dropping connections that are gone; Reap is that
\* transaction on its own, the others wait until nothing is left to drop.
Dead == {h \in Live : ~Connected(h)}
Ready == up /\ ~faulted /\ ~shutdown /\ Dead = {}
Paired(c) == Ready /\ c \in reg.peers
PermitFree == gate = None
Cancelled(o) == o \in cancel \/ shutdown

Jobs(S)   == {o \in Op : job[o].state \in S}
Open      == Jobs({"pending", "filling"})
OwnOpen(c) == {o \in Open : job[o].owner = c}

\* Faulty variant: the file is written after the client has its answer.
PersistLater(r) == reg' = r /\ disk' \in {disk, r} /\ UNCHANGED faulted

\* The registry in memory becomes r and is written, or faults the broker.
Persist(r) ==
  /\ reg' = r
  /\ \/ disk' = r /\ UNCHANGED faulted
     \/ disk' \in {disk, r} /\ faulted' = TRUE

\* An audit record cannot be made durable: nothing else happens.
AuditFails == faulted' = TRUE /\ UNCHANGED <<reg, disk>>

Allowed(r, c, place, creds) ==
  \A k \in creds : \E p \in r.perms : p.owner = c /\ p.cred = k /\ place \subseteq p.origins

Approved(r, c, p) == [owner |-> c, profile |-> p, allowed |-> TRUE] \in r.natives
Covering(c, s) == {g \in reg.consents : g.owner = c /\ g.scope = s}

\* What a remembered consent rests on: an approved profile if it names one, and
\* a permission for every credential at the place.
ValidScope(r, c, s) ==
  /\ s.who \in Profile => Approved(r, c, s.who)
  /\ s.creds # {} /\ Allowed(r, c, s.place, s.creds)

Settle(o, s) ==
  /\ pc' = [pc EXCEPT ![o] = "settled"]
  /\ result' = [result EXCEPT ![o] = s]

\* Fills that are void from now on: their decision is pending and they are
\* cancelled, or their owner's consent epoch changes under them.
Voids(S) == ghost.void \cup (S \cap Jobs({"pending"}))
Prompting(c) ==
  {o \in OwnOpen(c) : ticket[o] # None /\ ~ticket[o].prompted /\ ticket[o].existing = 0}

-----------------------------------------------------------------------------
(* Reaping, and time. *)

SessionGone(r, hs) ==
  [r EXCEPT !.consents = {g \in @ : g.scope.who \in Profile \/ g.scope.who \notin hs}]

\* Faulty variant: a fill outlives the connection it was admitted for.
ReapedKeepsFills == {}
ReapedFills == {o \in Open : job[o].browser \notin Live \ Dead}

Reap ==
  /\ up /\ Dead # {}
  /\ inst' = [h \in Handle |-> IF h \in Dead THEN None ELSE inst[h]]
  /\ bound' = [t \in Target |-> IF bound[t] # None /\ bound[t].browser \in Dead
                                THEN None ELSE bound[t]]
  /\ cancel' = cancel \cup ReapedFills
  /\ reg' = SessionGone(reg, Handle \ (Live \ Dead))
  /\ ghost' = [ghost EXCEPT !.void = Voids(ReapedFills)]
  /\ UNCHANGED <<disk, epochs, faulted, job, spent, pc, ticket, result,
                 permitVars, wireVars, serviceVars, ids>>

\* A target handle or a finished fill is no longer retained.
Forget ==
  /\ up
  /\ \/ \E t \in Target :
          /\ bound[t] # None
          /\ bound' = [bound EXCEPT ![t] = None]
          /\ UNCHANGED job
     \/ \E o \in Jobs(Finished) :
          /\ job' = [job EXCEPT ![o] = NoJob]
          /\ UNCHANGED bound
  /\ UNCHANGED <<registryVars, inst, spent, workVars, permitVars, wireVars,
                 serviceVars, ids, ghost>>

-----------------------------------------------------------------------------
(* Registering a browser. *)

NewHandle(c, p, l) ==
  /\ ids.handle <= MaxHandle
  /\ inst' = [inst EXCEPT ![ids.handle] = [owner |-> c, profile |-> p]]
  /\ link' = [link EXCEPT ![ids.handle] = l]
  /\ ids' = [ids EXCEPT !.handle = @ + 1]

\* Never evict a live profile, even a copied one.
Attached(c, p) == \E h \in Live : inst[h] = [owner |-> c, profile |-> p]

Known(r, c, p) == {n \in r.natives : n.owner = c /\ n.profile = p}

\* Faulty variant: a refusal on record is only looked at for live profiles.
Forgiving(c, p, manual) == TRUE
Welcome(c, p, manual) ==
  \A n \in Known(reg, c, p) : n.allowed \/ manual

\* accept_native, authorize_native: the first transaction.
NativeHello(k, c, p, manual) ==
  /\ conn[k] = None
  /\ Paired(c)
  /\ ~Attached(c, p) /\ Cardinality(Live) < MaxBrowsers
  /\ Welcome(c, p, manual)
  /\ conn' = [conn EXCEPT ![k] =
       [client |-> c, profile |-> p, manual |-> manual,
        fresh |-> <<c, p>> \notin ghost.asked,
        step |-> IF Approved(reg, c, p) THEN "trusted" ELSE "asking"]]
  /\ UNCHANGED <<registryVars, tableVars, workVars, gate, admin, probe, wireVars,
                 serviceVars, ids, ghost>>

ConnEnds(k) == conn' = [conn EXCEPT ![k] = None]
ConnGoes(k, s) == conn' = [conn EXCEPT ![k].step = s]

\* Faulty variant: the refusal is put on record once the human has answered.
RefusedLater(c, p) == reg
RefusedFirst(c, p) ==
  IF Known(reg, c, p) = {}
  THEN [reg EXCEPT !.natives = @ \cup {[owner |-> c, profile |-> p, allowed |-> FALSE]}]
  ELSE reg

\* The permit, a durable refusal, then the dialog: a crash or a denial does not
\* ask again on its own.
NativeAsk(k) ==
  LET n == conn[k]
      r == RefusedFirst(n.client, n.profile) IN
  /\ n # None /\ n.step = "asking"
  /\ PermitFree
  /\ Paired(n.client)
  /\ r # reg => Cardinality(reg.natives) < MaxNative
  /\ \/ r = reg /\ UNCHANGED <<reg, disk, faulted>>
     \/ r # reg /\ (AuditFails \/ Persist(r))
  /\ IF faulted' THEN ConnEnds(k) /\ UNCHANGED <<gate, ghost>>
     ELSE /\ gate' = k /\ ConnGoes(k, "prompt")
          /\ ghost' = [ghost EXCEPT !.asked = @ \cup {<<n.client, n.profile>>}]
  /\ UNCHANGED <<epochs, tableVars, workVars, admin, probe, wireVars, serviceVars, ids>>

NativeAllowed(k) ==
  /\ up /\ conn[k] # None /\ conn[k].step = "prompt"
  /\ ~shutdown
  /\ ConnGoes(k, "approved")
  /\ UNCHANGED <<registryVars, tableVars, workVars, gate, admin, probe, wireVars,
                 serviceVars, ids, ghost>>

\* The host goes away, the permit is busy, the human denies, a transaction
\* refuses: the connection ends and gives the permit back.
NativeEnds(k) ==
  /\ up /\ conn[k] # None
  /\ ConnEnds(k)
  /\ gate' = IF gate = k THEN None ELSE gate
  /\ UNCHANGED <<registryVars, tableVars, workVars, admin, probe, wireVars,
                 serviceVars, ids, ghost>>

WithApproval(c, p) ==
  [reg EXCEPT !.natives = (@ \ Known(reg, c, p)) \cup
                          {[owner |-> c, profile |-> p, allowed |-> TRUE]}]

NativeApprove(k) ==
  LET n == conn[k] IN
  /\ n # None /\ n.step = "approved"
  /\ Paired(n.client)
  /\ Known(reg, n.client, n.profile) # {}
  /\ Persist(WithApproval(n.client, n.profile))
  /\ gate' = None
  /\ IF faulted' THEN ConnEnds(k) ELSE ConnGoes(k, "trusted")
  /\ ghost' = [ghost EXCEPT !.cut = @ \ {<<n.client, n.profile>>}]
  /\ UNCHANGED <<epochs, tableVars, workVars, admin, probe, wireVars, serviceVars, ids>>

\* Faulty variant: what the greeting found is trusted at registration.
StillTrustedAnyway(c, p) == TRUE
StillTrusted(c, p) == Approved(reg, c, p) /\ ~Attached(c, p)

\* register_adapter for a profile.
NativeRegister(k) ==
  LET n == conn[k] IN
  /\ n # None /\ n.step = "trusted"
  /\ Paired(n.client)
  /\ StillTrusted(n.client, n.profile)
  /\ Cardinality(Live) < MaxBrowsers
  /\ ConnEnds(k)
  /\ \/ AuditFails /\ UNCHANGED <<inst, link, ids>>
     \/ UNCHANGED <<reg, disk, faulted>> /\ NewHandle(n.client, n.profile, "open")
  /\ UNCHANGED <<epochs, bound, job, spent, workVars, gate, admin, probe, wire, page,
                 flight, serviceVars, ghost>>

\* The greeting reaches the extension, or the connection is given up.
Greeted(h) ==
  /\ link[h] = "open"
  /\ link' = [link EXCEPT ![h] = IF up THEN "ready" ELSE "stopped"]
  /\ UNCHANGED <<registryVars, tableVars, workVars, permitVars, wire, page, flight,
                 serviceVars, ids, ghost>>

\* The browser quits, its host is killed or its endpoint closes.
BrowserLost(h) ==
  /\ link[h] \in {"open", "ready"}
  /\ link' = [link EXCEPT ![h] = "lost"]
  /\ UNCHANGED <<registryVars, tableVars, workVars, permitVars, wire, page, flight,
                 serviceVars, ids, ghost>>

\* The page in a browser is replaced by another document.
Navigate(h) ==
  /\ link[h] # "none"
  /\ \E d \in Doc : d > page[h] /\ page' = [page EXCEPT ![h] = d]
  /\ UNCHANGED <<registryVars, tableVars, workVars, permitVars, link, wire, flight,
                 serviceVars, ids, ghost>>

-----------------------------------------------------------------------------
(* Administrative requests hold the permit until their future ends, which is  *)
(* right after they commit.                                                    *)

AdminBegin(kind, c, t, k, origins) ==
  /\ Paired(c) /\ PermitFree
  /\ gate' = "admin"
  /\ admin' = [kind |-> kind, client |-> c, target |-> t, cred |-> k,
               origins |-> origins, step |-> "prompt"]
  /\ UNCHANGED <<registryVars, tableVars, workVars, conn, probe, wireVars, serviceVars,
                 ids, ghost>>

\* Only the fields of its kind matter in an administrative request.
RegisterCdpBegin(c) ==
  /\ Cardinality(Live) < MaxBrowsers
  /\ \E k \in Cred : AdminBegin("cdp", c, c, k, {})
ConfigureBegin(c, k, origins) == AdminBegin("configure", c, c, k, origins)
RevokeBegin(c, t) == t \in reg.peers /\ \E k \in Cred : AdminBegin("revoke", c, t, k, {})

AdminGoes(s) == admin' = [admin EXCEPT !.step = s]

AdminAllowed ==
  /\ up /\ admin # None /\ admin.step = "prompt" /\ ~shutdown
  /\ AdminGoes("allowed")
  /\ UNCHANGED <<registryVars, tableVars, workVars, gate, conn, probe, wireVars,
                 serviceVars, ids, ghost>>

\* CdpBrowser::connect succeeds.
CdpConnected ==
  /\ up /\ admin # None /\ admin.kind = "cdp" /\ admin.step = "allowed"
  /\ AdminGoes("connected")
  /\ UNCHANGED <<registryVars, tableVars, workVars, gate, conn, probe, wireVars,
                 serviceVars, ids, ghost>>

\* Denied, timed out, unreachable, or refused by the committing transaction.
AdminEnds ==
  /\ up /\ admin # None
  /\ admin' = None /\ gate' = None
  /\ UNCHANGED <<registryVars, tableVars, workVars, conn, probe, wireVars, serviceVars,
                 ids, ghost>>

AdminCommits(kind, step) ==
  /\ admin # None /\ admin.kind = kind /\ admin.step = step
  /\ Paired(admin.client)
  /\ admin' = None /\ gate' = None

RegisterCdpCommit ==
  /\ AdminCommits("cdp", "connected")
  /\ Cardinality(Live) < MaxBrowsers
  /\ \/ AuditFails /\ UNCHANGED <<inst, link, ids>>
     \/ UNCHANGED <<reg, disk, faulted>> /\ NewHandle(admin.client, None, "ready")
  /\ UNCHANGED <<epochs, bound, job, spent, workVars, conn, probe, wire, page,
                 flight, serviceVars, ghost>>

\* The registry with a permission replaced and the consents that rested on it
\* dropped.  Faulty variant: the consents stay.
OnlyConfigured(c, k, origins) ==
  [reg EXCEPT !.perms = {p \in @ : p.owner # c \/ p.cred # k} \cup
     (IF origins = {} THEN {} ELSE {[owner |-> c, cred |-> k, origins |-> origins]})]
Configured(c, k, origins) ==
  [OnlyConfigured(c, k, origins) EXCEPT
     !.consents = {g \in @ : g.owner # c \/ k \notin g.scope.creds}]

\* A fresh identifier: one that no fill in progress has captured.
NewEpoch(c) ==
  \E e \in Epochs :
    /\ \A o \in Op : ticket[o] # None => ticket[o].epoch # e
    /\ \A d \in Epochs : d < e => \E o \in Op : ticket[o] # None /\ ticket[o].epoch = d
    /\ epochs' = [epochs EXCEPT ![c] = e]

ConfigureCommit ==
  LET c == admin.client
      r == Configured(c, admin.cred, admin.origins) IN
  /\ AdminCommits("configure", "allowed")
  /\ Cardinality(r.perms) <= MaxPermissions
  /\ \/ AuditFails /\ UNCHANGED <<epochs, cancel, ghost>>
     \/ /\ NewEpoch(c)
        /\ cancel' = cancel \cup OwnOpen(c)
        /\ Persist(r)
        /\ ghost' = [ghost EXCEPT !.void = Voids(OwnOpen(c))]
  /\ UNCHANGED <<tableVars, pc, ticket, result, conn, probe, wireVars,
                 serviceVars, ids>>

Stopped(hs) == [h \in Handle |-> IF h \in hs THEN "stopped" ELSE link[h]]
Unbound(hs) == [t \in Target |-> IF bound[t] # None /\ bound[t].browser \in hs
                                 THEN None ELSE bound[t]]
Removed(hs) == [h \in Handle |-> IF h \in hs THEN None ELSE inst[h]]
Owned(c) == {h \in Live : inst[h].owner = c}

Unpaired(t) ==
  [peers |-> reg.peers \ {t}, perms |-> {p \in reg.perms : p.owner # t},
   natives |-> {n \in reg.natives : n.owner # t},
   consents |-> {g \in reg.consents : g.owner # t}]

\* What a client was told is gone, when the write and its record succeeded.
Acknowledged(r) ==
  IF faulted' THEN ghost.revoked
  ELSE ghost.revoked \cup {g.id : g \in reg.consents \ r.consents}

RevokeCommit ==
  LET t == admin.target IN
  /\ AdminCommits("revoke", "allowed")
  /\ \/ AuditFails /\ UNCHANGED <<epochs, inst, bound, link, cancel, ghost>>
     \/ /\ epochs' = [epochs EXCEPT ![t] = 0]
        /\ inst' = Removed(Owned(t)) /\ link' = Stopped(Owned(t))
        /\ bound' = [x \in Target |-> IF bound[x] # None /\ bound[x].owner = t
                                      THEN None ELSE bound[x]]
        /\ cancel' = cancel \cup OwnOpen(t)
        /\ Persist(Unpaired(t))
        /\ ghost' = [ghost EXCEPT !.void = Voids(OwnOpen(t)), !.revoked = Acknowledged(Unpaired(t))]
  /\ UNCHANGED <<job, spent, pc, ticket, result, conn, probe, wire, page,
                 flight, serviceVars, ids>>

-----------------------------------------------------------------------------
(* Withdrawing authority needs no permit. *)

\* A browser's own consents: its live connection's, and its profile's.
Names(h) == {h} \cup ({inst[h].profile} \ {None})

\* Faulty variant: the profile may reconnect on the approval it had.
StaysApproved(c, h) ==
  [reg EXCEPT !.consents = {g \in @ : g.owner # c \/ g.scope.who \notin Names(h)}]
Disconnected(c, h) ==
  [StaysApproved(c, h) EXCEPT
     !.natives = {[n EXCEPT !.allowed = n.allowed /\ ~(n.owner = c /\ n.profile = inst[h].profile)]
                    : n \in @}]

\* disconnect_browser: a failed save leaves the table as it was, with an adapter
\* that has stopped.
DisconnectBrowser(c, h) ==
  LET mine == {o \in Open : job[o].browser = h} IN
  /\ Paired(c) /\ inst[h] # None /\ inst[h].owner = c
  /\ link' = Stopped({h})
  /\ NewEpoch(c)
  /\ Persist(Disconnected(c, h))
  /\ \/ /\ faulted'
        /\ UNCHANGED <<inst, bound, cancel>>
        /\ ghost' = [ghost EXCEPT !.void = Voids(Prompting(c))]
     \/ /\ disk' = Disconnected(c, h)
        /\ inst' = Removed({h}) /\ bound' = Unbound({h})
        /\ cancel' = cancel \cup mine
        /\ ghost' = [ghost EXCEPT
             !.void = Voids(mine \cup Prompting(c)),
             !.revoked = Acknowledged(Disconnected(c, h)),
             !.cut = IF faulted' \/ inst[h].profile = None THEN @
                     ELSE @ \cup {<<c, inst[h].profile>>}]
  /\ UNCHANGED <<job, spent, pc, ticket, result, permitVars, wire, page, flight,
                 serviceVars, ids>>

\* revoke_consent, with the scope of one grant or for all: cancel_consents.
Without(c, ss) == [reg EXCEPT !.consents = {g \in @ : g.owner # c \/ g.scope \notin ss}]

Withdraw(c, ss, uses) ==
  /\ Paired(c)
  /\ \/ AuditFails /\ UNCHANGED <<epochs, cancel, ghost>>
     \/ /\ NewEpoch(c)
        /\ cancel' = cancel \cup uses
        /\ Persist(Without(c, ss))
        /\ ghost' = [ghost EXCEPT !.void = Voids(uses \cup Prompting(c)),
                                  !.revoked = Acknowledged(Without(c, ss))]
  /\ UNCHANGED <<tableVars, pc, ticket, result, permitVars, wireVars, serviceVars, ids>>

Uses(c, s) ==
  {o \in OwnOpen(c) : ticket[o] # None /\ ~ticket[o].prompted /\ ticket[o].scope = s}

RevokeConsent(c, g) ==
  /\ g \in reg.consents /\ g.owner = c
  /\ Withdraw(c, {g.scope}, Uses(c, g.scope))

ClearConsents(c) == Withdraw(c, {g.scope : g \in reg.consents}, OwnOpen(c))

-----------------------------------------------------------------------------
(* Target discovery: the adapter answers between two transactions. *)

BrowserTargets(c, h) ==
  /\ Paired(c) /\ probe = None
  /\ inst[h] # None /\ inst[h].owner = c
  /\ link[h] \in {"ready", "lost"} /\ wire[h] = None
  /\ wire' = [wire EXCEPT ![h] = "probe"]
  /\ probe' = [client |-> c, browser |-> h, step |-> "waiting", doc |-> page[h]]
  /\ UNCHANGED <<registryVars, tableVars, workVars, gate, admin, conn, link, page, flight,
                 serviceVars, ids, ghost>>

TargetsFound ==
  /\ up /\ probe # None /\ probe.step = "waiting"
  /\ link[probe.browser] = "ready"
  /\ wire' = [wire EXCEPT ![probe.browser] = None]
  /\ probe' = [probe EXCEPT !.step = "found", !.doc = page[probe.browser]]
  /\ UNCHANGED <<registryVars, tableVars, workVars, gate, admin, conn, link, page, flight,
                 serviceVars, ids, ghost>>

\* Cancelled, timed out, an answer that cannot be used: the adapter stops.  A
\* clean refusal, or a second transaction that refuses, leaves it alone.
TargetsFail ==
  /\ up /\ probe # None
  /\ probe' = None
  /\ IF probe.step = "waiting"
     THEN /\ wire' = [wire EXCEPT ![probe.browser] = None]
          /\ link' \in {link, Stopped({probe.browser})}
          /\ link[probe.browser] = "lost" => link' # link
     ELSE UNCHANGED <<wire, link>>
  /\ UNCHANGED <<registryVars, tableVars, workVars, gate, admin, conn, page, flight,
                 serviceVars, ids, ghost>>

\* Rediscovery invalidates the unused handles of the browser.  Faulty variant: a
\* handle of the same document is issued again.
BindsAgain(h) == bound
Rebound(h) == Unbound({h})

BindTargets ==
  /\ probe # None /\ probe.step = "found"
  /\ Paired(probe.client) /\ inst[probe.browser] # None
  /\ ids.target <= MaxTarget
  /\ bound' = [Rebound(probe.browser) EXCEPT ![ids.target] =
       [owner |-> probe.client, browser |-> probe.browser, doc |-> probe.doc]]
  /\ ids' = [ids EXCEPT !.target = @ + 1]
  /\ probe' = None
  /\ UNCHANGED <<registryVars, inst, job, spent, workVars, gate, admin, conn, wireVars,
                 serviceVars, ghost>>

-----------------------------------------------------------------------------
(* Fills: admission. *)

ScopeOf(h, d, creds) ==
  [who |-> IF inst[h].profile = None THEN h ELSE inst[h].profile,
   place |-> Place[d], creds |-> creds]

\* Faulty variant: the target handle stays in the table.
KeepsHandle(t) == bound
ConsumesHandle(t) == [bound EXCEPT ![t] = None]

\* What both kinds of fill ask at admission.  A retained or spent operation answers
\* its status or Conflict, which is not a step.
Fresh(o) ==
  /\ job[o].state = "none" /\ o \notin spent
  /\ Cardinality(spent) < MaxSpent
  /\ Cardinality(Op \ Jobs({"none"})) < MaxJobs

Reserve(o, c, t, prompted, creds) ==
  LET b == bound[t]
      s == ScopeOf(b.browser, b.doc, creds) IN
  /\ Paired(c) /\ Fresh(o)
  /\ PermitFree
  /\ \/ /\ AuditFails
        /\ UNCHANGED <<bound, job, spent, pc, ticket, gate>>
     \/ /\ gate' = o
        /\ bound' = ConsumesHandle(t)
        /\ spent' = spent \cup {o}
        /\ job' = [job EXCEPT ![o] = [state |-> "pending", owner |-> c,
                                  browser |-> b.browser, target |-> t]]
        /\ \E g \in IF Covering(c, s) = {} THEN {0} ELSE {x.id : x \in Covering(c, s)} :
             ticket' = [ticket EXCEPT ![o] =
               [owner |-> c, browser |-> b.browser, doc |-> b.doc,
                prompted |-> prompted, scope |-> s, existing |-> g, epoch |-> epochs[c]]]
        /\ pc' = [pc EXCEPT ![o] = "reserved"]
        /\ UNCHANGED <<reg, disk, faulted>>
  /\ UNCHANGED <<epochs, inst, cancel, result, admin, conn, probe, wireVars,
                 serviceVars, ids, ghost>>

Found(c, t) == bound[t] # None /\ bound[t].owner = c /\ inst[bound[t].browser] # None

SecureFill(o, c, t, creds) ==
  /\ Found(c, t)
  /\ creds # {} /\ Allowed(reg, c, Place[bound[t].doc], creds)
  /\ Reserve(o, c, t, FALSE, creds)

\* No credential policy and no remembered consent.
SecurePromptFill(o, c, t) ==
  /\ Found(c, t) /\ inst[bound[t].browser].owner = c
  /\ Reserve(o, c, t, TRUE, {})

\* Nothing outside the operation's task and job changes.
OnlyWork == UNCHANGED <<registryVars, tableVars, permitVars, wireVars, serviceVars, ids, ghost>>

\* The request hands the permit to a background task.
Spawn(o) ==
  /\ up /\ pc[o] = "reserved"
  /\ pc' = [pc EXCEPT ![o] = "prompt"]
  /\ UNCHANGED <<cancel, ticket, result>> /\ OnlyWork

\* A connection still open when the daemon stops serving is aborted.
Aborted(o) ==
  /\ up /\ shutdown /\ pc[o] = "reserved"
  /\ pc' = [pc EXCEPT ![o] = "idle"] /\ ticket' = [ticket EXCEPT ![o] = None]
  /\ gate' = None
  /\ UNCHANGED <<registryVars, tableVars, cancel, result, admin, conn, probe,
                 wireVars, serviceVars, ids, ghost>>

CancelFill(o) ==
  /\ o \in Open \ cancel /\ Paired(job[o].owner)
  /\ cancel' = cancel \cup {o}
  /\ ghost' = [ghost EXCEPT !.void = Voids({o})]
  /\ UNCHANGED <<registryVars, tableVars, pc, ticket, result, permitVars,
                 wireVars, serviceVars, ids>>

-----------------------------------------------------------------------------
(* The decision. *)

Asking(o) == up /\ pc[o] = "prompt"

PromptExpires(o) ==
  /\ Asking(o)
  /\ cancel' = cancel \cup {o}
  /\ Settle(o, "unfilled")
  /\ UNCHANGED ticket /\ OnlyWork

\* Cancellation wins over any answer the prompt may still return.
PromptCancelled(o) ==
  /\ Asking(o) /\ Cancelled(o)
  /\ Settle(o, "unfilled")
  /\ UNCHANGED <<cancel, ticket>> /\ OnlyWork

\* ConsentTicket::decide: a remembered consent needs no prompt.
DecideStored(o) ==
  LET t == ticket[o] IN
  /\ ~t.prompted
  /\ \/ pc' = [pc EXCEPT ![o] = "once"] /\ UNCHANGED result
     \/ /\ t.existing = 0 /\ ids.grant <= MaxGrantId
        /\ pc' = [pc EXCEPT ![o] = "always"] /\ UNCHANGED result
     \/ t.existing = 0 /\ Settle(o, "unfilled")

\* collect_once: every value, then the confirmation.  prompt_until looks at the token
\* and the clock after each, so that together they are one answer.
DecidePrompted(o) ==
  /\ ticket[o].prompted
  /\ \/ pc' = [pc EXCEPT ![o] = "once"] /\ UNCHANGED result
     \/ Settle(o, "unfilled")

Decide(o) ==
  /\ Asking(o) /\ ~Cancelled(o)
  /\ DecideStored(o) \/ DecidePrompted(o)
  /\ UNCHANGED <<cancel, ticket>> /\ OnlyWork

-----------------------------------------------------------------------------
(* The authorization transaction. *)

ConsentStands(t) ==
  IF t.existing # 0 THEN \E g \in Covering(t.owner, t.scope) : g.id = t.existing
                    ELSE epochs[t.owner] = t.epoch

Permitted(t) == t.prompted \/ Allowed(reg, t.owner, Place[t.doc], t.scope.creds)

\* A prompted fill rests on its connection alone.
PromptStands(t) == inst[t.browser] # None /\ inst[t.browser].owner = t.owner

\* What an "always" decision needs beyond this use.
CanRemember(t) ==
  /\ Cardinality(reg.consents) < MaxGrants /\ Covering(t.owner, t.scope) = {}
  /\ ValidScope(reg, t.owner, t.scope)

\* Faulty variant: the answer is acted on without a second look.
AnythingGoes(o) == up /\ Dead = {} /\ pc[o] \in {"once", "always"}
Authorizable(o) ==
  LET t == ticket[o] IN
  /\ pc[o] \in {"once", "always"}
  /\ Paired(t.owner) /\ ~Cancelled(o)
  /\ IF t.prompted THEN PromptStands(t)
     ELSE inst[t.browser] # None /\ Permitted(t) /\ ConsentStands(t)
  /\ pc[o] = "always" => CanRemember(t)

\* What Authorizable asks no longer holds, or the target has expired: a target may
\* expire at any time.
AuthorizeRefused(o) ==
  /\ up /\ pc[o] \in {"once", "always"}
  /\ Settle(o, "unfilled")
  /\ UNCHANGED <<cancel, ticket>> /\ OnlyWork

\* The consent an "always" decision creates is saved before the last checks.
Remembers(o) ==
  IF pc[o] # "always"
  THEN UNCHANGED <<reg, disk, ids>> /\ faulted' \in BOOLEAN
  ELSE /\ Persist([reg EXCEPT !.consents = @ \cup
            {[id |-> ids.grant, owner |-> ticket[o].owner, scope |-> ticket[o].scope]}])
       /\ ids' = [ids EXCEPT !.grant = @ + 1]

\* Released, refused by a failed write, or by the clock or the shutdown token
\* after the writes; custody may lack a field.
Authorize(o) ==
  /\ Authorizable(o)
  /\ \/ AuditFails /\ Settle(o, "unfilled") /\ UNCHANGED <<job, ids, shutdown>>
     \/ /\ Remembers(o)
        /\ \/ /\ Settle(o, "unfilled") /\ UNCHANGED job
              /\ shutdown' \in BOOLEAN /\ (faulted' => UNCHANGED shutdown)
           \/ /\ ~faulted' /\ job[o].state = "pending"
              /\ job' = [job EXCEPT ![o].state = "filling"]
              /\ pc' = [pc EXCEPT ![o] = "effect"]
              /\ UNCHANGED <<result, shutdown>>
  /\ UNCHANGED <<epochs, inst, bound, spent, cancel, ticket, permitVars, wireVars, up, epoch,
                 ghost>>

-----------------------------------------------------------------------------
(* The adapter's fill, outside the mutex. *)

At(o) == ticket[o].browser
WireOnly == UNCHANGED <<registryVars, tableVars, permitVars, serviceVars, ids>>

\* Nothing has been sent: the adapter stopped, the token fired, the connection is
\* in use or not yet greeted.
EffectRefused(o) ==
  /\ up /\ pc[o] = "effect"
  /\ \/ (link[At(o)] = "stopped" \/ Cancelled(o)) /\ Settle(o, "unfilled")
     \/ (link[At(o)] = "open" \/ wire[At(o)] # None) /\ Settle(o, "unfilled")
  /\ UNCHANGED <<cancel, ticket, wireVars, ghost>> /\ WireOnly

\* Faulty variant: only the state of the connection is looked at.
IgnoresCancel(o) == link[At(o)] \in {"ready", "lost"}
Sendable(o) == link[At(o)] \in {"ready", "lost"} /\ ~Cancelled(o)

EffectStarts(o) ==
  /\ up /\ pc[o] = "effect"
  /\ Sendable(o) /\ wire[At(o)] = None
  /\ wire' = [wire EXCEPT ![At(o)] = o]
  /\ pc' = [pc EXCEPT ![o] = "sending"]
  /\ UNCHANGED <<cancel, ticket, result, link, page, flight, ghost>> /\ WireOnly

\* perform_fill finds another document and gives the connection up.
StaleFound(o) ==
  /\ up /\ pc[o] = "sending" /\ ticket[o].scope.who \in Handle
  /\ link[At(o)] = "ready" /\ page[At(o)] # ticket[o].doc
  /\ Settle(o, "unfilled")
  /\ wire' = [wire EXCEPT ![At(o)] = None] /\ link' = Stopped({At(o)})
  /\ UNCHANGED <<cancel, ticket, page, flight, ghost>> /\ WireOnly

Dispatch(o) ==
  /\ up /\ pc[o] = "sending" /\ link[At(o)] = "ready"
  /\ pc' = [pc EXCEPT ![o] = "sent"]
  /\ flight' = flight \cup {job[o].target}
  /\ ghost' = [ghost EXCEPT !.gave[job[o].target] = @ + 1]
  /\ UNCHANGED <<cancel, ticket, result, link, wire, page>> /\ WireOnly

\* The page or its extension acts on a fill, perhaps long after the daemon gave
\* up on it: it writes in the document it was meant for, all, some or nothing.
Acts(t) ==
  /\ t \in flight
  /\ flight' = flight \ {t}
  /\ \E w \in {"all", "some", "none"} : ghost' = [ghost EXCEPT !.wrote[t] = w]
  /\ UNCHANGED <<registryVars, tableVars, workVars, permitVars, link, wire, page,
                 serviceVars, ids>>

\* What complete_fill makes of a structured reply.
Outcome(w) ==
  CASE w = "all"  -> {"filled", "partial"}
    [] w = "some" -> {"partial", "uncertain"}
    [] OTHER      -> {"unfilled", "uncertain"}

Replied(o) ==
  /\ up /\ pc[o] = "sent" /\ job[o].target \notin flight /\ link[At(o)] = "ready"
  /\ \E s \in Outcome(ghost.wrote[job[o].target]) : Settle(o, s)
  /\ wire' = [wire EXCEPT ![At(o)] = None]
  /\ UNCHANGED <<cancel, ticket, link, page, flight, ghost>> /\ WireOnly

\* Cancelled, stopped, timed out or answered with anything else: the remote field
\* may have been written.  Faulty variant: a timeout counts as a
\* failure.
CutFails == "unfilled"
CutIs == "uncertain"
Cut(o) ==
  /\ up /\ pc[o] \in {"sending", "sent"}
  /\ Settle(o, CutIs)
  /\ wire' = [wire EXCEPT ![At(o)] = None] /\ link' = Stopped({At(o)})
  /\ UNCHANGED <<cancel, ticket, page, flight, ghost>> /\ WireOnly

\* complete_fill: audit record, receipt and permit together.
Complete(o) ==
  /\ up /\ Dead = {} /\ pc[o] = "settled"
  /\ \E audited \in BOOLEAN :
       /\ job' = [job EXCEPT ![o].state = IF audited THEN result[o] ELSE "uncertain"]
       /\ faulted' = (faulted \/ ~audited)
  /\ gate' = None
  /\ pc' = [pc EXCEPT ![o] = "idle"]
  /\ ticket' = [ticket EXCEPT ![o] = None] /\ result' = [result EXCEPT ![o] = None]
  /\ cancel' = cancel \ {o}
  /\ ghost' = [ghost EXCEPT !.void = @ \ {o}]
  /\ UNCHANGED <<reg, disk, epochs, inst, bound, spent, admin, conn, probe, wireVars,
                 serviceVars, ids>>

-----------------------------------------------------------------------------
(* Shutdown, crash and restart. *)

Signal ==
  /\ up /\ ~shutdown /\ shutdown' = TRUE
  /\ UNCHANGED <<registryVars, tableVars, workVars, permitVars, wireVars, up, epoch, ids, ghost>>

\* quiesce: every adapter stops, every job is cancelled.
StopAll ==
  /\ up /\ shutdown /\ Live # {}
  /\ inst' = Removed(Live) /\ link' = Stopped(Live)
  /\ bound' = [t \in Target |-> None]
  /\ cancel' = cancel \cup Open
  /\ UNCHANGED <<registryVars, job, spent, pc, ticket, result, permitVars, wire, page,
                 flight, serviceVars, ids, ghost>>

\* Quiesced or crashed, the process is gone, and what is not on disk with it.
Crash ==
  /\ up /\ up' = FALSE /\ shutdown' = FALSE
  /\ reg' = Blank /\ epochs' = [c \in Client |-> 0] /\ faulted' = FALSE
  /\ inst' = [h \in Handle |-> None] /\ bound' = [t \in Target |-> None]
  /\ job' = [o \in Op |-> NoJob] /\ spent' = {} /\ cancel' = {}
  /\ pc' = [o \in Op |-> "idle"]
  /\ ticket' = [o \in Op |-> None] /\ result' = [o \in Op |-> None]
  /\ gate' = None /\ admin' = None /\ probe' = None
  /\ conn' = [k \in Conn |-> None]
  /\ link' = [h \in Handle |-> IF link[h] = "none" THEN "none" ELSE "stopped"]
  /\ wire' = [h \in Handle |-> None]
  /\ ghost' = [ghost EXCEPT !.void = {}]
  /\ UNCHANGED <<disk, page, flight, epoch, ids>>

\* What Broker::with_components accepts.  That a permission's credential is among its
\* owner's references, and still has its fields, holds here of all of Cred: nothing
\* takes a reference from a client that stays paired.
ValidRegistry(r) ==
  /\ Cardinality(r.perms) <= MaxPermissions
  /\ \A p \in r.perms : p.owner \in r.peers
  /\ \A p, q \in r.perms : p.owner = q.owner /\ p.cred = q.cred => p = q
  /\ Cardinality(r.natives) <= MaxNative
  /\ \A n \in r.natives : n.owner \in r.peers
  /\ \A n, m \in r.natives : n.owner = m.owner /\ n.profile = m.profile => n = m
  /\ Cardinality(r.consents) <= MaxGrants
  /\ \A g \in r.consents : g.owner \in r.peers /\ ValidScope(r, g.owner, g.scope)
  /\ \A g, f \in r.consents :
       g.id = f.id \/ (g.owner = f.owner /\ g.scope = f.scope) => g = f

Restart ==
  /\ ~up /\ epoch < MaxEpoch
  /\ ValidRegistry(disk)
  /\ reg' = SessionGone(disk, Handle)
  /\ up' = TRUE /\ epoch' = epoch + 1
  /\ UNCHANGED <<disk, epochs, faulted, tableVars, workVars, permitVars, wireVars,
                 shutdown, ids, ghost>>

-----------------------------------------------------------------------------

Native_ ==
  \/ \E k \in Conn, c \in Client, p \in Profile, m \in BOOLEAN : NativeHello(k, c, p, m)
  \/ \E k \in Conn : NativeAsk(k) \/ NativeAllowed(k) \/ NativeEnds(k) \/ NativeApprove(k)
                     \/ NativeRegister(k)
  \/ \E h \in Handle : Greeted(h) \/ BrowserLost(h) \/ Navigate(h)

Administration ==
  \/ \E c \in Client : RegisterCdpBegin(c) \/ ClearConsents(c)
  \/ \E c, t \in Client : RevokeBegin(c, t)
  \/ \E c \in Client, k \in Cred, origins \in SUBSET Origin : ConfigureBegin(c, k, origins)
  \/ AdminAllowed \/ CdpConnected \/ RegisterCdpCommit \/ ConfigureCommit \/ RevokeCommit
  \/ AdminEnds
  \/ \E c \in Client, h \in Handle : DisconnectBrowser(c, h) \/ BrowserTargets(c, h)
  \/ \E c \in Client, g \in reg.consents : RevokeConsent(c, g)
  \/ TargetsFound \/ TargetsFail \/ BindTargets

Fill(o) ==
  \/ \E c \in Client, t \in Target :
       SecurePromptFill(o, c, t) \/ \E creds \in SUBSET Cred : SecureFill(o, c, t, creds)
  \/ Spawn(o) \/ Aborted(o) \/ CancelFill(o)
  \/ PromptExpires(o) \/ PromptCancelled(o) \/ Decide(o)
  \/ AuthorizeRefused(o) \/ Authorize(o)
  \/ EffectRefused(o) \/ EffectStarts(o) \/ StaleFound(o) \/ Dispatch(o) \/ Replied(o)
  \/ Cut(o) \/ Complete(o)

Next ==
  \/ Reap \/ Forget \/ Native_ \/ Administration
  \/ \E o \in Op : Fill(o)
  \/ \E t \in Target : Acts(t)
  \/ Signal \/ StopAll \/ Crash \/ Restart

Spec == Init /\ [][Next]_vars

-----------------------------------------------------------------------------
(* Properties. *)

\* A discovered handle is spent by the fill it admits, whatever rediscovery,
\* replays, the other kind of fill and restarts do: material is put on the wire for
\* it at most once.
HandleUsedOnce == \A t \in Target : ghost.gave[t] <= 1

\* A receipt that says nothing was filled is true, now and later: no write
\* happened and none is under way; "filled" and "partial" had a writer.
HonestFill ==
  \A o \in Op :
    LET t == job[o].target IN
    /\ job[o].state = "unfilled" => ghost.wrote[t] = "none" /\ t \notin flight
    /\ job[o].state = "filled" => ghost.wrote[t] = "all"
    /\ job[o].state = "partial" => ghost.wrote[t] \in {"all", "some"}

\* A fill withdrawn while its decision was pending never gets its material:
\* cancelled, its connection gone, its policy changed, its consents reset.
VoidNeverFills ==
  \A o \in ghost.void : job[o].state = "pending" /\ ghost.gave[job[o].target] = 0

\* Connections greeted after a profile's first dialog, in this incarnation or a
\* later one, ask again only if a human pressed Retry.
NoUnattendedLoop ==
  \A k \in Conn : conn[k] # None /\ conn[k].step = "prompt" => conn[k].manual \/ conn[k].fresh

\* After its client disconnected a profile, nothing attaches it again before an
\* approval is committed: no live connection, and no approval in memory or on disk,
\* although a greeting found the profile approved before (register_adapter).
DisconnectForgets ==
  \A c \in Client, p \in Profile :
    <<c, p>> \in ghost.cut =>
      ~Attached(c, p) /\ ~Approved(reg, c, p) /\ ~Approved(disk, c, p)

\* Whatever was written last, the next incarnation accepts the file: permissions
\* and consents never outlive the peer, profile or permission they rest on.
BrowserReopens == ValidRegistry(disk)

\* A consent whose revocation was acknowledged exists nowhere.
ConsentStaysRevoked ==
  \A r \in {reg, disk} : \A g \in r.consents : g.id \notin ghost.revoked

\* When an adapter takes up a saved fill, the pairing, the permission for the
\* document and the consent that released it still stand, although all of them
\* may have been withdrawn since the release: withdrawal cancels the fill.
TakenUnderAuthority ==
  [][\A o \in Op :
       pc[o] = "effect" /\ pc'[o] = "sending" =>
         LET t == ticket[o] IN
         /\ t.owner \in reg.peers
         /\ Permitted(t)
         /\ t.existing # 0 => \E g \in Covering(t.owner, t.scope) : g.id = t.existing]_vars
=============================================================================
