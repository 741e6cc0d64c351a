------------------------------- MODULE Access -------------------------------
(***************************************************************************)
(* Pairing, enrolment and access to metadata: how clients come to the      *)
(* references the other requests name (magicvault-service/src/broker.rs).  *)
(* Every transaction runs under the broker's mutex and starts with a reap; *)
(* whoever asks the human holds the permit from its first transaction to   *)
(* its last.  An access request answers at once and its decision is made   *)
(* in the background.                                                      *)
(***************************************************************************)
EXTENDS Integers, FiniteSets

CONSTANTS
  Client,      \* identities a pairing may create
  LabelOf,     \* the label each asks for
  Ref,         \* references of credentials
  Id,          \* identifiers of access requests
  Absent,
  MaxClients, MaxCredentials, MaxPending,
  ConsentTtl,  \* CONSENT_TTL_SECS
  Retention,   \* how long a decided job is kept
  MaxClock,     \* bound of the model: the clock
  MaxEpoch     \* bound of the model: incarnations

ASSUME AccessAssumption ==
  /\ {MaxClients, MaxCredentials, MaxPending, ConsentTtl, Retention, MaxClock, MaxEpoch} \subseteq Nat
  /\ IsFiniteSet(Client) /\ IsFiniteSet(Ref)

VARIABLES
  peers,       \* references of each client, Absent when it is not paired
  clients,     \* the same in clients.json
  vault,       \* references the store holds
  vaultFile,   \* and those in its file
  jobs,        \* access requests, Absent when there is none
  dialog,      \* the holder of the permit, or Absent
  issued,      \* clients that were ever paired
  faulted, shutdown, up, epoch,
  clock

accessVars == <<peers, clients, vault, vaultFile, jobs, dialog, issued, faulted, shutdown, up,
          epoch, clock>>
diskVars    == <<clients, vaultFile>>
serviceVars == <<shutdown, up, epoch, clock>>

Decision == {"pending", "allowed", "denied", "expired", "uncertain"}
Job == [owner : Client, ref : Ref, decision : Decision, expires : Nat, retain : Nat]

\* Absent is neither a set of references nor a job.
ASSUME AbsentAssumption == (\A S \in SUBSET Ref : Absent # S) /\ Absent \notin Job

Nobody == [c \in Client |-> Absent]

\* What Broker::with_components accepts of the two files; clients.json is missing
\* only before the first pairing, when no credential is stored.
Acceptable(p, v) ==
  /\ Cardinality(v) <= MaxCredentials
  /\ Cardinality({c \in Client : p[c] # Absent}) <= MaxClients
  /\ \A c \in Client : p[c] # Absent => p[c] \subseteq v
  /\ \A c, d \in Client : p[c] # Absent /\ p[d] # Absent /\ LabelOf[c] = LabelOf[d] => c = d

\* The daemon starts on whatever files an earlier one left that it accepts.
AccessInit ==
  /\ vaultFile \in SUBSET Ref /\ clients \in [Client -> {Absent} \cup SUBSET Ref]
  /\ Acceptable(clients, vaultFile)
  /\ peers = clients /\ vault = vaultFile
  /\ jobs = [i \in Id |-> Absent]
  /\ dialog = Absent /\ issued = {c \in Client : clients[c] # Absent}
  /\ faulted = FALSE /\ shutdown = FALSE /\ up = TRUE /\ epoch = 1
  /\ clock = 0

-----------------------------------------------------------------------------

Paired == {c \in Client : peers[c] # Absent}
Ready == up /\ ~faulted /\ ~shutdown
Present(table) == {i \in Id : table[i] # Absent}

\* Faulty variant: whatever is past its time has expired.
ExpiresAll(j) == j.expires <= clock
Expires(j) == j.decision = "pending" /\ j.expires <= clock

\* State::reap
ReapedJobs ==
  [i \in Id |->
     IF jobs[i] = Absent \/ jobs[i].retain <= clock THEN Absent
     ELSE IF Expires(jobs[i]) THEN [jobs[i] EXCEPT !.decision = "expired"]
     ELSE jobs[i]]

\* audit: a record that cannot be written stops everything that follows.
AuditFails == faulted' = TRUE

\* save: a failure leaves the old file or the new one.
Save(p) ==
  \/ clients' = p /\ UNCHANGED faulted
  \/ clients' \in {clients, p} /\ faulted' = TRUE

Ask(d) == dialog' = d
DialogAt(kind, step) == dialog # Absent /\ dialog.kind = kind /\ dialog.step = step

\* A query, or any transaction that finds nothing to do.
Look ==
  /\ up /\ jobs' = ReapedJobs
  /\ UNCHANGED <<peers, diskVars, vault, dialog, issued, faulted, serviceVars>>

\* The human said yes to a pairing, an enrolment, a revocation or a stop.
Confirmed ==
  /\ dialog # Absent /\ dialog.kind # "access" /\ dialog.step = "prompt"
  /\ ~shutdown
  /\ dialog' = [dialog EXCEPT !.step = "confirmed"]
  /\ UNCHANGED <<peers, diskVars, vault, jobs, issued, faulted, serviceVars>>

\* No, or a timeout, or a transaction that refuses: the permit is given back.
DialogEnds ==
  /\ dialog # Absent /\ dialog.kind # "access"
  /\ dialog' = Absent
  /\ UNCHANGED <<peers, diskVars, vault, jobs, issued, faulted, serviceVars>>

-----------------------------------------------------------------------------
(* pair *)

Pairable(c) ==
  /\ Cardinality(Paired) < MaxClients
  /\ \A d \in Paired : LabelOf[d] # LabelOf[c]

PairBegin(c) ==
  /\ Ready /\ dialog = Absent /\ c \notin issued
  /\ Pairable(c)
  /\ jobs' = ReapedJobs
  /\ Ask([kind |-> "pair", client |-> c, step |-> "prompt"])
  /\ UNCHANGED <<peers, diskVars, vault, issued, faulted, serviceVars>>

PairCommit ==
  LET c == dialog.client
      p == [peers EXCEPT ![c] = {}] IN
  /\ DialogAt("pair", "confirmed")
  /\ Ready /\ Pairable(c)
  /\ jobs' = ReapedJobs /\ dialog' = Absent
  /\ \/ AuditFails /\ UNCHANGED <<peers, clients, issued>>
     \/ peers' = p /\ issued' = issued \cup {c} /\ Save(p)
  /\ UNCHANGED <<vault, vaultFile, serviceVars>>

-----------------------------------------------------------------------------
(* enroll *)

EnrollBegin(c, r) ==
  /\ Ready /\ dialog = Absent
  /\ c \in Paired /\ r \notin vault /\ Cardinality(vault) < MaxCredentials
  /\ jobs' = ReapedJobs
  /\ Ask([kind |-> "enroll", client |-> c, ref |-> r, deadline |-> clock + ConsentTtl,
          step |-> "prompt"])
  /\ UNCHANGED <<peers, diskVars, vault, issued, faulted, serviceVars>>

With(c, r) == [peers EXCEPT ![c] = @ \cup {r}]

\* Faulty variant: the reference is saved before the credential is stored.
SavesFirst(c, r) ==
  /\ peers' = With(c, r)
  /\ vault' = vault \cup {r}
  /\ \/ vaultFile' = vault' /\ clients' = With(c, r) /\ UNCHANGED faulted
     \/ vaultFile' = vaultFile /\ clients' \in {clients, With(c, r)} /\ faulted' = TRUE

\* The credential is stored, then the reference is saved: each may fail.
StoresFirst(c, r) ==
  /\ vault' = vault \cup {r}
  /\ \/ vaultFile' = vault' /\ peers' = With(c, r) /\ Save(With(c, r))
     \/ /\ vaultFile' \in {vaultFile, vault'} /\ faulted' = TRUE
        /\ UNCHANGED <<peers, clients>>

EnrollCommit ==
  /\ DialogAt("enroll", "confirmed")
  /\ Ready /\ dialog.client \in Paired /\ dialog.ref \notin vault
  /\ clock < dialog.deadline
  /\ jobs' = ReapedJobs /\ dialog' = Absent
  /\ \/ AuditFails /\ UNCHANGED <<peers, diskVars, vault>>
     \/ StoresFirst(dialog.client, dialog.ref)
  /\ UNCHANGED <<issued, serviceVars>>

-----------------------------------------------------------------------------
(* request_access *)

\* Lookup, admission and reservation in one transaction; a known request is only
\* looked up.
RequestAccess(c, i, r) ==
  /\ Ready /\ c \in Paired
  /\ ReapedJobs[i] = Absent
  /\ dialog = Absent
  /\ r \in vault
  /\ Cardinality(Present(ReapedJobs)) < MaxPending
  /\ \/ AuditFails /\ jobs' = ReapedJobs /\ UNCHANGED dialog
     \/ /\ jobs' = [ReapedJobs EXCEPT ![i] =
             [owner |-> c, ref |-> r, decision |-> "pending",
              expires |-> clock + ConsentTtl, retain |-> clock + Retention]]
        /\ Ask([kind |-> "access", client |-> c, id |-> i, ref |-> r, step |-> "prompt"])
        /\ UNCHANGED faulted
  /\ UNCHANGED <<peers, diskVars, vault, issued, serviceVars>>

\* The dialog ends, with a timeout of its own.
Answered(d) ==
  /\ DialogAt("access", "prompt")
  /\ d = "allowed" => ~shutdown
  /\ dialog' = [dialog EXCEPT !.step = d]
  /\ UNCHANGED <<peers, diskVars, vault, jobs, issued, faulted, serviceVars>>

Decided(d) == [ReapedJobs EXCEPT ![dialog.id].decision = d]

\* Faulty variant: what the human said stands whether or not it was saved.
AnsweredAnyway(ok, d) == Decided(d)
Recorded(ok, d) == Decided(IF ok THEN d ELSE "uncertain")

\* The decision, in one transaction that gives the permit back when it ends.
Decide ==
  LET i == dialog.id
      j == ReapedJobs[i]
      waiting == /\ j # Absent /\ j.owner = dialog.client /\ j.ref = dialog.ref
                 /\ j.decision = "pending"
      standing == dialog.client \in Paired /\ dialog.ref \in vault
      d == IF ~standing THEN "denied"
           ELSE IF j.expires <= clock THEN "expired" ELSE dialog.step
      p == With(dialog.client, dialog.ref) IN
  /\ up /\ dialog # Absent /\ dialog.kind = "access" /\ dialog.step # "prompt"
  /\ dialog' = Absent
  /\ \/ /\ ~Ready
        /\ jobs' = IF j = Absent THEN ReapedJobs ELSE Decided("denied")
        /\ UNCHANGED <<peers, clients, faulted>>
     \/ /\ Ready /\ ~waiting
        /\ jobs' = ReapedJobs
        /\ UNCHANGED <<peers, clients, faulted>>
     \/ /\ Ready /\ waiting
        /\ IF d = "allowed"
           THEN /\ peers' = p
                /\ \/ Save(p) /\ jobs' = Recorded(~faulted', d)
                   \/ clients' = p /\ AuditFails /\ jobs' = Recorded(FALSE, d)
           ELSE /\ UNCHANGED <<peers, clients>>
                /\ \/ UNCHANGED faulted /\ jobs' = Decided(d)
                   \/ AuditFails /\ jobs' = Recorded(FALSE, d)
  /\ UNCHANGED <<vault, vaultFile, issued, serviceVars>>

-----------------------------------------------------------------------------
(* revoke, and stopping the service. *)

RevokeBegin(c, t) ==
  /\ Ready /\ dialog = Absent
  /\ {c, t} \subseteq Paired
  /\ jobs' = ReapedJobs
  /\ Ask([kind |-> "revoke", client |-> c, target |-> t, step |-> "prompt"])
  /\ UNCHANGED <<peers, diskVars, vault, issued, faulted, serviceVars>>

RevokeCommit ==
  LET p == [peers EXCEPT ![dialog.target] = Absent] IN
  /\ DialogAt("revoke", "confirmed")
  /\ Ready /\ dialog.client \in Paired
  /\ dialog' = Absent
  /\ \/ AuditFails /\ jobs' = ReapedJobs /\ UNCHANGED <<peers, clients>>
     \/ /\ peers' = p /\ Save(p)
        /\ jobs' = [i \in Id |->
             IF i \in Present(ReapedJobs) /\ ReapedJobs[i].owner = dialog.target
             THEN [ReapedJobs[i] EXCEPT !.decision = "denied"] ELSE ReapedJobs[i]]
  /\ UNCHANGED <<vault, vaultFile, issued, serviceVars>>

StopBegin(c) ==
  /\ Ready /\ dialog = Absent /\ c \in Paired
  /\ jobs' = ReapedJobs
  /\ Ask([kind |-> "stop", client |-> c, step |-> "prompt"])
  /\ UNCHANGED <<peers, diskVars, vault, issued, faulted, serviceVars>>

StopCommit ==
  /\ DialogAt("stop", "confirmed")
  /\ Ready /\ dialog.client \in Paired
  /\ jobs' = ReapedJobs /\ dialog' = Absent
  /\ \/ AuditFails /\ UNCHANGED shutdown
     \/ shutdown' = TRUE /\ UNCHANGED faulted
  /\ UNCHANGED <<peers, diskVars, vault, issued, up, epoch, clock>>

\* The process ends: jobs and dialogs are in memory only.
Crash ==
  /\ up /\ up' = FALSE
  /\ peers' = Nobody /\ vault' = {} /\ jobs' = [i \in Id |-> Absent] /\ dialog' = Absent
  /\ faulted' = FALSE /\ shutdown' = FALSE
  /\ UNCHANGED <<diskVars, issued, epoch, clock>>

Restart ==
  /\ ~up /\ epoch < MaxEpoch
  /\ Acceptable(clients, vaultFile)
  /\ up' = TRUE /\ epoch' = epoch + 1
  /\ peers' = clients /\ vault' = vaultFile
  /\ UNCHANGED <<diskVars, jobs, dialog, issued, faulted, shutdown, clock>>

AccessTick ==
  /\ clock < MaxClock /\ clock' = clock + 1
  /\ UNCHANGED <<peers, diskVars, vault, jobs, dialog, issued, faulted, shutdown, up, epoch>>

AccessNext ==
  \/ \E c \in Client : PairBegin(c) \/ StopBegin(c)
  \/ \E c \in Client, r \in Ref : EnrollBegin(c, r) \/ \E i \in Id : RequestAccess(c, i, r)
  \/ \E c, t \in Client : RevokeBegin(c, t)
  \/ \E d \in {"allowed", "denied", "expired"} : Answered(d)
  \/ Confirmed \/ DialogEnds \/ Look
  \/ PairCommit \/ EnrollCommit \/ Decide \/ RevokeCommit \/ StopCommit
  \/ Crash \/ Restart \/ AccessTick

AccessSpec == AccessInit /\ [][AccessNext]_accessVars

-----------------------------------------------------------------------------
(* Properties. *)

\* Whatever fails or crashes between storing a credential and saving who may name
\* it, the next incarnation accepts the two files: no reference without a credential.
AccessReopens == Acceptable(clients, vaultFile)

\* A client that was told its access is allowed has the reference, now and after a
\* crash, until it is revoked.
AllowedIsKept ==
  \A i \in Present(jobs) :
    jobs[i].decision = "allowed" =>
      LET c == jobs[i].owner IN
      /\ c \in Paired /\ clients[c] # Absent
      /\ jobs[i].ref \in peers[c] \cap clients[c]

\* A decision that may have been read stays while it is kept: late answers and
\* expiry change nothing, and only a revocation, a stop or a fault turns it into a
\* refusal.
AnswerStands ==
  [][\A i \in Present(jobs) :
       (jobs[i].decision # "pending" /\ jobs[i].retain > clock /\ jobs'[i] # Absent)
       => \/ jobs'[i].decision = jobs[i].decision
          \/ /\ jobs'[i].decision = "denied"
             /\ peers'[jobs[i].owner] = Absent \/ faulted' \/ shutdown']_accessVars
=============================================================================
