---------------------------- MODULE Access_proofs ----------------------------
(***************************************************************************)
(* Proofs about Access, for any clients, labels, references, requests and  *)
(* bounds.                                                                 *)
(***************************************************************************)
EXTENDS Access, FiniteSetTheorems, TLAPS

USE DEF diskVars, serviceVars

Table == [Client -> {Absent} \cup SUBSET Ref]
Slot == Job \cup {Absent}

Plain == {"prompt", "confirmed"}
Pairing   == [kind : {"pair"}, client : Client, step : Plain]
Enrolling == [kind : {"enroll"}, client : Client, ref : Ref, deadline : Nat, step : Plain]
Asking    == [kind : {"access"}, client : Client, id : Id, ref : Ref,
              step : {"prompt", "allowed", "denied", "expired"}]
Revoking  == [kind : {"revoke"}, client : Client, target : Client, step : Plain]
Stopping  == [kind : {"stop"}, client : Client, step : Plain]
Dialog == Pairing \cup Enrolling \cup Asking \cup Revoking \cup Stopping

TypeOK ==
  /\ peers \in Table /\ clients \in Table
  /\ vault \in SUBSET Ref /\ vaultFile \in SUBSET Ref
  /\ jobs \in [Id -> Slot]
  /\ dialog \in Dialog \cup {Absent}
  /\ issued \in SUBSET Client
  /\ faulted \in BOOLEAN /\ shutdown \in BOOLEAN /\ up \in BOOLEAN
  /\ epoch \in Nat /\ clock \in Nat

LEMMA Bounds ==
  /\ MaxClients \in Nat /\ MaxCredentials \in Nat /\ ConsentTtl \in Nat /\ Retention \in Nat
  /\ IsFiniteSet(Client) /\ IsFiniteSet(Ref)
  BY AccessAssumption

\* What a reap leaves of a job: a decision made stays, and what is pending may expire.
LEMMA Reaps ==
  ASSUME TypeOK
  PROVE  /\ ReapedJobs \in [Id -> Slot]
         /\ \A i \in Id : ReapedJobs[i] # Absent =>
              /\ jobs[i] # Absent /\ ReapedJobs[i] \in Job
              /\ ReapedJobs[i].owner = jobs[i].owner /\ ReapedJobs[i].ref = jobs[i].ref
              /\ \/ ReapedJobs[i].decision = jobs[i].decision
                 \/ jobs[i].decision = "pending" /\ ReapedJobs[i].decision = "expired"
         /\ \A i \in Id : jobs[i] # Absent /\ jobs[i].retain > clock => ReapedJobs[i] # Absent
<1>1. ASSUME NEW i \in Id
      PROVE  /\ ReapedJobs[i] \in Slot
             /\ ReapedJobs[i] # Absent =>
                  /\ jobs[i] # Absent /\ ReapedJobs[i] \in Job
                  /\ ReapedJobs[i].owner = jobs[i].owner /\ ReapedJobs[i].ref = jobs[i].ref
                  /\ \/ ReapedJobs[i].decision = jobs[i].decision
                     \/ jobs[i].decision = "pending" /\ ReapedJobs[i].decision = "expired"
             /\ jobs[i] # Absent /\ jobs[i].retain > clock => ReapedJobs[i] # Absent
  <2>1. jobs[i] \in Job \cup {Absent}
    BY DEF TypeOK, Slot
  <2>2. ReapedJobs[i] = IF jobs[i] = Absent \/ jobs[i].retain <= clock THEN Absent
                        ELSE IF Expires(jobs[i]) THEN [jobs[i] EXCEPT !.decision = "expired"]
                        ELSE jobs[i]
    BY DEF ReapedJobs
  <2>3. CASE jobs[i] = Absent \/ jobs[i].retain <= clock
    <3>1. ReapedJobs[i] = Absent
      BY <2>2, <2>3
    <3>2. jobs[i] # Absent => jobs[i].retain \in Nat /\ clock \in Nat
      BY <2>1 DEF Job, TypeOK
    <3> QED
      BY <2>3, <3>1, <3>2 DEF Slot
  <2>4. CASE jobs[i] # Absent /\ ~(jobs[i].retain <= clock)
    <3>1. jobs[i] \in Job
      BY <2>1, <2>4
    <3>2. CASE Expires(jobs[i])
      <4>1. ReapedJobs[i] = [jobs[i] EXCEPT !.decision = "expired"]
        BY <2>2, <2>4, <3>2
      <4>2. ReapedJobs[i] \in Job
        BY <3>1, <4>1 DEF Job, Decision
      <4>3. /\ ReapedJobs[i].owner = jobs[i].owner /\ ReapedJobs[i].ref = jobs[i].ref
            /\ ReapedJobs[i].decision = "expired"
        BY <3>1, <4>1 DEF Job
      <4>4. jobs[i].decision = "pending"
        BY <3>2 DEF Expires
      <4> QED
        BY <2>4, <4>2, <4>3, <4>4, AbsentAssumption DEF Slot
    <3>3. CASE ~Expires(jobs[i])
      <4>1. ReapedJobs[i] = jobs[i]
        BY <2>2, <2>4, <3>3
      <4> QED
        BY <2>4, <3>1, <4>1 DEF Slot
    <3> QED
      BY <3>2, <3>3
  <2> QED
    BY <2>3, <2>4
<1>2. ReapedJobs \in [Id -> Slot]
  BY <1>1 DEF ReapedJobs
<1> QED
  BY <1>1, <1>2

\* A job of the table with another decision.
LEMMA DecisionType ==
  ASSUME NEW table \in [Id -> Slot], NEW i \in Id, table[i] # Absent, NEW d \in Decision
  PROVE  /\ [table EXCEPT ![i].decision = d] \in [Id -> Slot]
         /\ [table EXCEPT ![i].decision = d][i].decision = d
         /\ [table EXCEPT ![i].decision = d][i].owner = table[i].owner
         /\ [table EXCEPT ![i].decision = d][i].ref = table[i].ref
         /\ \A k \in Id \ {i} : [table EXCEPT ![i].decision = d][k] = table[k]
<1>1. table[i] \in Job
  BY DEF Slot
<1>2. [table[i] EXCEPT !.decision = d] \in Job
  BY <1>1 DEF Job
<1>3. /\ [table[i] EXCEPT !.decision = d].decision = d
      /\ [table[i] EXCEPT !.decision = d].owner = table[i].owner
      /\ [table[i] EXCEPT !.decision = d].ref = table[i].ref
  BY <1>1 DEF Job
<1> QED
  BY <1>2, <1>3 DEF Slot

\* Another reference of a paired client.
LEMMA WithType ==
  ASSUME TypeOK, NEW c \in Paired, NEW r \in Ref
  PROVE  /\ With(c, r) \in Table /\ With(c, r)[c] = peers[c] \cup {r}
         /\ peers[c] \in SUBSET Ref /\ With(c, r)[c] # Absent
         /\ \A d \in Client \ {c} : With(c, r)[d] = peers[d]
<1>1. c \in Client /\ peers[c] \in SUBSET Ref
  BY DEF Paired, TypeOK, Table
<1>2. peers[c] \cup {r} \in SUBSET Ref
  BY <1>1
<1>3. peers[c] \cup {r} # Absent
  BY <1>2, AbsentAssumption
<1> QED
  BY <1>1, <1>2, <1>3 DEF With, TypeOK, Table

-----------------------------------------------------------------------------
(* Type correctness *)

Enrolls == dialog # Absent /\ dialog.kind = "enroll"

LEMMA TypeInit == AccessInit => TypeOK
<1> SUFFICES ASSUME AccessInit PROVE TypeOK
  OBVIOUS
<1>1. clients \in Table /\ vaultFile \in SUBSET Ref /\ peers = clients /\ vault = vaultFile
  BY DEF AccessInit, Table
<1>2. jobs \in [Id -> Slot] /\ dialog = Absent /\ issued \in SUBSET Client
  BY DEF AccessInit, Slot
<1>3. faulted = FALSE /\ shutdown = FALSE /\ up = TRUE /\ epoch = 1 /\ clock = 0
  BY DEF AccessInit
<1> QED
  BY <1>1, <1>2, <1>3 DEF TypeOK

\* A save leaves one of the two files, and a fault when it may be the old one.
LEMMA SaveIs ==
  ASSUME TypeOK, NEW p \in Table, Save(p)
  PROVE  /\ clients' \in Table /\ faulted' \in BOOLEAN
         /\ clients' = p \/ (clients' = clients /\ faulted')
         /\ ~faulted' => clients' = p
  BY DEF Save, TypeOK

\* What begins a dialog: the table is reaped and the human is asked.
LEMMA AskTypes ==
  ASSUME TypeOK, NEW c \in Client,
         \/ PairBegin(c) \/ StopBegin(c)
         \/ \E r \in Ref : EnrollBegin(c, r)
         \/ \E t \in Client : RevokeBegin(c, t)
  PROVE  /\ UNCHANGED <<peers, clients, vault, vaultFile, issued, faulted, shutdown, up, epoch, clock>>
         /\ jobs' = ReapedJobs /\ dialog' \in Dialog /\ Ready
         /\ Enrolls' => Cardinality(vault) < MaxCredentials
         /\ TypeOK'
<1>1. /\ UNCHANGED <<peers, clients, vault, vaultFile, issued, faulted, shutdown, up, epoch, clock>>
      /\ jobs' = ReapedJobs /\ Ready
  BY DEF PairBegin, StopBegin, EnrollBegin, RevokeBegin
<1>2. dialog' \in Dialog /\ (Enrolls' => Cardinality(vault) < MaxCredentials)
  <2>1. CASE PairBegin(c)
    <3>1. dialog' = [kind |-> "pair", client |-> c, step |-> "prompt"]
      BY <2>1 DEF PairBegin, Ask
    <3>2. dialog' \in Pairing
      BY <3>1 DEF Pairing, Plain
    <3> QED
      BY <3>1, <3>2 DEF Dialog, Enrolls
  <2>2. CASE StopBegin(c)
    <3>1. dialog' = [kind |-> "stop", client |-> c, step |-> "prompt"]
      BY <2>2 DEF StopBegin, Ask
    <3>2. dialog' \in Stopping
      BY <3>1 DEF Stopping, Plain
    <3> QED
      BY <3>1, <3>2 DEF Dialog, Enrolls
  <2>3. ASSUME NEW r \in Ref, EnrollBegin(c, r)
        PROVE  dialog' \in Dialog /\ Cardinality(vault) < MaxCredentials
    <3>1. /\ dialog' = [kind |-> "enroll", client |-> c, ref |-> r, deadline |-> clock + ConsentTtl,
                        step |-> "prompt"]
          /\ Cardinality(vault) < MaxCredentials
      BY <2>3 DEF EnrollBegin, Ask
    <3>2. clock + ConsentTtl \in Nat
      BY Bounds DEF TypeOK
    <3>3. dialog' \in Enrolling
      BY <3>1, <3>2 DEF Enrolling, Plain
    <3> QED
      BY <3>1, <3>3 DEF Dialog
  <2>4. ASSUME NEW t \in Client, RevokeBegin(c, t)
        PROVE  dialog' \in Dialog /\ ~Enrolls'
    <3>1. dialog' = [kind |-> "revoke", client |-> c, target |-> t, step |-> "prompt"]
      BY <2>4 DEF RevokeBegin, Ask
    <3>2. dialog' \in Revoking
      BY <3>1 DEF Revoking, Plain
    <3> QED
      BY <3>1, <3>2 DEF Dialog, Enrolls
  <2> QED
    BY <2>1, <2>2, <2>3, <2>4
<1>3. TypeOK'
  BY <1>1, <1>2, Reaps DEF TypeOK
<1> QED
  BY <1>1, <1>2, <1>3

\* The dialog that is answered, confirmed or given up; nothing else moves.
LEMMA DialogTypes ==
  ASSUME TypeOK, Confirmed \/ DialogEnds \/ \E d \in {"allowed", "denied", "expired"} : Answered(d)
  PROVE  /\ UNCHANGED <<peers, clients, vault, vaultFile, jobs, issued, faulted, shutdown, up, epoch, clock>>
         /\ dialog # Absent /\ (Enrolls' => Enrolls)
         /\ TypeOK'
<1>1. /\ UNCHANGED <<peers, clients, vault, vaultFile, jobs, issued, faulted, shutdown, up, epoch, clock>>
      /\ dialog # Absent
  BY DEF Confirmed, DialogEnds, Answered, DialogAt
<1>2. dialog' \in Dialog \cup {Absent} /\ (Enrolls' => Enrolls)
  <2>1. dialog \in Dialog
    BY <1>1 DEF TypeOK
  <2>2. CASE DialogEnds
    <3>1. dialog' = Absent
      BY <2>2 DEF DialogEnds
    <3> QED
      BY <3>1 DEF Enrolls
  <2>3. CASE Confirmed
    <3>1. dialog' = [dialog EXCEPT !.step = "confirmed"] /\ dialog.kind # "access"
      BY <2>3 DEF Confirmed
    <3>2. dialog \in Pairing => dialog' \in Pairing /\ dialog'.kind = "pair"
      BY <3>1 DEF Pairing, Plain
    <3>3. dialog \in Enrolling => dialog' \in Enrolling /\ dialog.kind = "enroll"
      BY <3>1 DEF Enrolling, Plain
    <3>4. dialog \in Revoking => dialog' \in Revoking /\ dialog'.kind = "revoke"
      BY <3>1 DEF Revoking, Plain
    <3>5. dialog \in Stopping => dialog' \in Stopping /\ dialog'.kind = "stop"
      BY <3>1 DEF Stopping, Plain
    <3>6. dialog \notin Asking
      BY <3>1 DEF Asking
    <3> QED
      BY <1>1, <2>1, <3>2, <3>3, <3>4, <3>5, <3>6 DEF Dialog, Enrolls
  <2>4. ASSUME NEW d \in {"allowed", "denied", "expired"}, Answered(d)
        PROVE  dialog' \in Dialog /\ ~Enrolls'
    <3>1. dialog' = [dialog EXCEPT !.step = d] /\ dialog.kind = "access"
      BY <2>4 DEF Answered, DialogAt
    <3> QED
      BY <2>1, <3>1 DEF Dialog, Pairing, Enrolling, Asking, Revoking, Stopping, Plain, Enrolls
  <2> QED
    BY <2>2, <2>3, <2>4
<1>3. TypeOK'
  BY <1>1, <1>2 DEF TypeOK
<1> QED
  BY <1>1, <1>2, <1>3

LEMMA PairTypes ==
  ASSUME TypeOK, PairCommit
  PROVE  /\ TypeOK' /\ dialog.client \in Client /\ Pairable(dialog.client)
         /\ jobs' = ReapedJobs /\ dialog' = Absent /\ Ready
         /\ UNCHANGED <<vault, vaultFile, shutdown, up, epoch, clock>>
         /\ \/ faulted' = TRUE /\ UNCHANGED <<peers, clients>>
            \/ peers' = [peers EXCEPT ![dialog.client] = {}] /\ Save(peers')
<1>1. /\ DialogAt("pair", "confirmed") /\ Ready /\ Pairable(dialog.client)
      /\ jobs' = ReapedJobs /\ dialog' = Absent
      /\ UNCHANGED <<vault, vaultFile, shutdown, up, epoch, clock>>
  BY DEF PairCommit
<1>2. dialog.client \in Client
  BY <1>1 DEF TypeOK, DialogAt, Dialog, Pairing, Enrolling, Asking, Revoking, Stopping
<1>3. CASE faulted' = TRUE /\ UNCHANGED <<peers, clients, issued>>
  BY <1>1, <1>2, <1>3, Reaps DEF TypeOK
<1>4. CASE /\ peers' = [peers EXCEPT ![dialog.client] = {}]
           /\ issued' = issued \cup {dialog.client} /\ Save([peers EXCEPT ![dialog.client] = {}])
  <2>1. [peers EXCEPT ![dialog.client] = {}] \in Table
    BY DEF TypeOK, Table
  <2>2. clients' \in Table /\ faulted' \in BOOLEAN
    BY <1>4, <2>1, SaveIs
  <2>3. issued' \in SUBSET Client
    BY <1>2, <1>4 DEF TypeOK
  <2>4. Save(peers')
    BY <1>4
  <2> QED
    BY <1>1, <1>2, <1>4, <2>1, <2>2, <2>3, <2>4, Reaps DEF TypeOK
<1> QED
  BY <1>3, <1>4 DEF PairCommit, AuditFails

LEMMA EnrollTypes ==
  ASSUME TypeOK, EnrollCommit
  PROVE  /\ TypeOK' /\ Enrolls /\ dialog.client \in Paired /\ dialog.ref \in Ref \ vault
         /\ jobs' = ReapedJobs /\ dialog' = Absent /\ Ready
         /\ UNCHANGED <<issued, shutdown, up, epoch, clock>>
         /\ \/ faulted' = TRUE /\ UNCHANGED <<peers, clients, vault, vaultFile>>
            \/ StoresFirst(dialog.client, dialog.ref)
<1>1. /\ DialogAt("enroll", "confirmed") /\ Ready /\ dialog.client \in Paired /\ dialog.ref \notin vault
      /\ jobs' = ReapedJobs /\ dialog' = Absent
      /\ UNCHANGED <<issued, shutdown, up, epoch, clock>>
  BY DEF EnrollCommit
<1>2. dialog.ref \in Ref /\ Enrolls
  BY <1>1 DEF TypeOK, DialogAt, Dialog, Pairing, Enrolling, Asking, Revoking, Stopping, Enrolls
<1>3. CASE faulted' = TRUE /\ UNCHANGED <<peers, clients, vault, vaultFile>>
  BY <1>1, <1>2, <1>3, Reaps DEF TypeOK
<1>4. CASE StoresFirst(dialog.client, dialog.ref)
  <2>1. With(dialog.client, dialog.ref) \in Table
    BY <1>1, <1>2, WithType
  <2>2. vault' \in SUBSET Ref /\ vaultFile' \in SUBSET Ref
    BY <1>2, <1>4 DEF StoresFirst, TypeOK
  <2>3. peers' \in Table /\ clients' \in Table /\ faulted' \in BOOLEAN
    BY <1>4, <2>1, SaveIs DEF StoresFirst, TypeOK
  <2> QED
    BY <1>1, <1>2, <1>4, <2>2, <2>3, Reaps DEF TypeOK
<1> QED
  BY <1>3, <1>4 DEF EnrollCommit, AuditFails

\* A request is reserved where there is none, and pending until it is decided.
LEMMA RequestTypes ==
  ASSUME TypeOK, NEW c \in Client, NEW i \in Id, NEW r \in Ref, RequestAccess(c, i, r)
  PROVE  /\ TypeOK' /\ ~Enrolls' /\ ReapedJobs[i] = Absent /\ up
         /\ UNCHANGED <<peers, clients, vault, vaultFile, issued, shutdown, up, epoch, clock>>
         /\ \A k \in Id \ {i} : jobs'[k] = ReapedJobs[k]
         /\ jobs'[i] = Absent \/ jobs'[i].decision = "pending"
         /\ faulted' = TRUE \/ UNCHANGED faulted
<1>1. /\ Ready /\ ReapedJobs[i] = Absent /\ dialog = Absent
      /\ UNCHANGED <<peers, clients, vault, vaultFile, issued, shutdown, up, epoch, clock>>
  BY DEF RequestAccess
<1>2. CASE faulted' = TRUE /\ jobs' = ReapedJobs /\ UNCHANGED dialog
  BY <1>1, <1>2, Reaps DEF TypeOK, Enrolls, Ready
<1>3. CASE /\ jobs' = [ReapedJobs EXCEPT ![i] =
                [owner |-> c, ref |-> r, decision |-> "pending",
                 expires |-> clock + ConsentTtl, retain |-> clock + Retention]]
           /\ dialog' = [kind |-> "access", client |-> c, id |-> i, ref |-> r, step |-> "prompt"]
           /\ UNCHANGED faulted
  <2> DEFINE j == [owner |-> c, ref |-> r, decision |-> "pending",
                   expires |-> clock + ConsentTtl, retain |-> clock + Retention]
  <2>1. clock + ConsentTtl \in Nat /\ clock + Retention \in Nat
    BY Bounds DEF TypeOK
  <2>2. j \in Job /\ j.decision = "pending"
    BY <2>1 DEF Job, Decision
  <2> HIDE DEF j
  <2>3. jobs' = [ReapedJobs EXCEPT ![i] = j]
    BY <1>3 DEF j
  <2>4. jobs' \in [Id -> Slot] /\ jobs'[i] = j /\ \A k \in Id \ {i} : jobs'[k] = ReapedJobs[k]
    BY <2>2, <2>3, Reaps DEF Slot
  <2>5. dialog' \in Asking
    BY <1>3 DEF Asking
  <2>6. ~Enrolls'
    BY <1>3 DEF Enrolls
  <2>7. TypeOK'
    BY <1>1, <1>3, <2>4, <2>5 DEF TypeOK, Dialog
  <2> QED
    BY <1>1, <1>3, <2>2, <2>4, <2>6, <2>7 DEF Ready
<1> QED
  BY <1>2, <1>3 DEF RequestAccess, AuditFails, Ask

\* A decision changes one job, if it is there, and may add its reference.
Decides(i, d) == jobs' = [ReapedJobs EXCEPT ![i].decision = d]

LEMMA DecidesType ==
  ASSUME TypeOK, NEW i \in Id, NEW d \in Decision, ReapedJobs[i] # Absent, Decides(i, d)
  PROVE  /\ jobs' \in [Id -> Slot]
         /\ jobs'[i].decision = d
         /\ jobs'[i].owner = ReapedJobs[i].owner /\ jobs'[i].ref = ReapedJobs[i].ref
         /\ \A k \in Id \ {i} : jobs'[k] = ReapedJobs[k]
<1>1. ReapedJobs \in [Id -> Slot]
  BY Reaps
<1>2. PICK table \in [Id -> Slot] : table = ReapedJobs
  BY <1>1
<1>3. jobs' = [table EXCEPT ![i].decision = d] /\ table[i] # Absent
  BY <1>2 DEF Decides
<1> QED
  BY <1>2, <1>3, DecisionType

LEMMA DecideTypes ==
  ASSUME TypeOK, Decide
  PROVE  /\ TypeOK' /\ dialog \in Asking /\ dialog' = Absent /\ up
         /\ UNCHANGED <<vault, vaultFile, issued, shutdown, up, epoch, clock>>
         /\ \/ UNCHANGED <<peers, clients, faulted>> /\ jobs' = ReapedJobs
            \/ /\ ~Ready /\ UNCHANGED <<peers, clients, faulted>>
               /\ ReapedJobs[dialog.id] # Absent /\ Decides(dialog.id, "denied")
            \/ /\ Ready /\ ReapedJobs[dialog.id] # Absent
               /\ ReapedJobs[dialog.id].decision = "pending"
               /\ \/ /\ UNCHANGED <<peers, clients>>
                     /\ faulted' = TRUE \/ UNCHANGED faulted
                     /\ \E d \in {"denied", "expired", "uncertain"} : Decides(dialog.id, d)
                  \/ /\ dialog.client \in Paired /\ dialog.ref \in vault
                     /\ ReapedJobs[dialog.id].owner = dialog.client
                     /\ ReapedJobs[dialog.id].ref = dialog.ref
                     /\ peers' = With(dialog.client, dialog.ref)
                     /\ \/ Save(peers') /\ ~faulted' /\ Decides(dialog.id, "allowed")
                        \/ /\ clients' \in {clients, peers'} /\ faulted' = TRUE
                           /\ Decides(dialog.id, "uncertain")
<1> DEFINE i == dialog.id
           j == ReapedJobs[i]
           waiting == /\ j # Absent /\ j.owner = dialog.client /\ j.ref = dialog.ref
                      /\ j.decision = "pending"
           standing == dialog.client \in Paired /\ dialog.ref \in vault
           d == IF ~standing THEN "denied"
                ELSE IF j.expires <= clock THEN "expired" ELSE dialog.step
           p == With(dialog.client, dialog.ref)
<1>1. /\ up /\ dialog # Absent /\ dialog.kind = "access" /\ dialog.step # "prompt"
      /\ dialog' = Absent
      /\ UNCHANGED <<vault, vaultFile, issued, shutdown, up, epoch, clock>>
  BY DEF Decide
<1>2. dialog \in Asking /\ i \in Id /\ dialog.ref \in Ref /\ dialog.step \in {"allowed", "denied", "expired"}
  BY <1>1 DEF TypeOK, Dialog, Pairing, Enrolling, Asking, Revoking, Stopping
<1>3. CASE UNCHANGED <<peers, clients, faulted>> /\ jobs' = ReapedJobs
  BY <1>1, <1>2, <1>3, Reaps DEF TypeOK
<1>4. CASE ~Ready /\ UNCHANGED <<peers, clients, faulted>> /\ j # Absent /\ Decides(i, "denied")
  <2>1. jobs' \in [Id -> Slot]
    BY <1>2, <1>4, DecidesType DEF Decision
  <2> QED
    BY <1>1, <1>2, <1>4, <2>1 DEF TypeOK
<1>5. CASE Ready /\ waiting /\ d # "allowed" /\ UNCHANGED <<peers, clients>>
           /\ ((UNCHANGED faulted /\ Decides(i, d)) \/ (faulted' = TRUE /\ Decides(i, "uncertain")))
  <2>1. d \in {"denied", "expired"}
    BY <1>2, <1>5
  <2> HIDE DEF d
  <2>2. PICK e \in {"denied", "expired", "uncertain"} : Decides(i, e)
    BY <1>5, <2>1
  <2>3. jobs' \in [Id -> Slot]
    BY <1>2, <1>5, <2>2, DecidesType DEF Decision
  <2>4. faulted' = TRUE \/ UNCHANGED faulted
    BY <1>5
  <2>5. TypeOK'
    BY <1>1, <1>5, <2>3, <2>4 DEF TypeOK
  <2> QED
    BY <1>1, <1>2, <1>5, <2>2, <2>4, <2>5
<1>6. CASE /\ Ready /\ waiting /\ d = "allowed" /\ peers' = p
           /\ \/ Save(p) /\ Decides(i, IF ~faulted' THEN "allowed" ELSE "uncertain")
              \/ clients' = p /\ faulted' = TRUE /\ Decides(i, "uncertain")
  <2>1. standing
    BY <1>6
  <2>2. p \in Table
    BY <1>2, <2>1, WithType
  <2>3. \/ Save(p) /\ ~faulted' /\ Decides(i, "allowed")
        \/ clients' \in {clients, p} /\ faulted' = TRUE /\ Decides(i, "uncertain")
    BY <1>6 DEF Save, Ready
  <2>4. clients' \in Table /\ faulted' \in BOOLEAN
    BY <2>2, <2>3, SaveIs DEF TypeOK
  <2>5. PICK e \in {"allowed", "uncertain"} : Decides(i, e)
    BY <2>3
  <2>6. jobs' \in [Id -> Slot]
    BY <1>2, <1>6, <2>5, DecidesType DEF Decision
  <2>7. TypeOK'
    BY <1>1, <1>6, <2>2, <2>4, <2>6 DEF TypeOK
  <2> QED
    BY <1>1, <1>2, <1>6, <2>1, <2>3, <2>7
<1>7. Decide => \/ UNCHANGED <<peers, clients, faulted>> /\ jobs' = ReapedJobs
                \/ ~Ready /\ UNCHANGED <<peers, clients, faulted>> /\ j # Absent /\ Decides(i, "denied")
                \/ Ready /\ waiting /\ d # "allowed" /\ UNCHANGED <<peers, clients>>
                     /\ ((UNCHANGED faulted /\ Decides(i, d)) \/ (faulted' = TRUE /\ Decides(i, "uncertain")))
                \/ /\ Ready /\ waiting /\ d = "allowed" /\ peers' = p
                   /\ \/ Save(p) /\ Decides(i, IF ~faulted' THEN "allowed" ELSE "uncertain")
                      \/ clients' = p /\ faulted' = TRUE /\ Decides(i, "uncertain")
  BY DEF Decide, Decided, Decides, Recorded, AuditFails
<1> QED
  BY <1>3, <1>4, <1>5, <1>6, <1>7

\* A revocation takes the client's references and turns its jobs into refusals.
LEMMA RevokeTypes ==
  ASSUME TypeOK, RevokeCommit
  PROVE  /\ TypeOK' /\ dialog' = Absent /\ Ready /\ dialog.target \in Client
         /\ UNCHANGED <<vault, vaultFile, issued, shutdown, up, epoch, clock>>
         /\ \/ faulted' = TRUE /\ jobs' = ReapedJobs /\ UNCHANGED <<peers, clients>>
            \/ /\ peers' = [peers EXCEPT ![dialog.target] = Absent] /\ Save(peers')
               /\ \A i \in Id : jobs'[i] # Absent =>
                    /\ ReapedJobs[i] # Absent /\ jobs'[i].owner = ReapedJobs[i].owner
                    /\ \/ jobs'[i] = ReapedJobs[i] /\ jobs'[i].owner # dialog.target
                       \/ jobs'[i].decision = "denied" /\ jobs'[i].owner = dialog.target
<1> DEFINE t == dialog.target
<1>1. /\ DialogAt("revoke", "confirmed") /\ Ready /\ dialog' = Absent
      /\ UNCHANGED <<vault, vaultFile, issued, shutdown, up, epoch, clock>>
  BY DEF RevokeCommit
<1>2. t \in Client
  BY <1>1 DEF TypeOK, DialogAt, Dialog, Pairing, Enrolling, Asking, Revoking, Stopping
<1>3. CASE faulted' = TRUE /\ jobs' = ReapedJobs /\ UNCHANGED <<peers, clients>>
  BY <1>1, <1>2, <1>3, Reaps DEF TypeOK
<1>4. CASE /\ peers' = [peers EXCEPT ![t] = Absent] /\ Save([peers EXCEPT ![t] = Absent])
           /\ jobs' = [i \in Id |->
                IF i \in Present(ReapedJobs) /\ ReapedJobs[i].owner = t
                THEN [ReapedJobs[i] EXCEPT !.decision = "denied"] ELSE ReapedJobs[i]]
  <2>1. [peers EXCEPT ![t] = Absent] \in Table
    BY DEF TypeOK, Table
  <2>2. clients' \in Table /\ faulted' \in BOOLEAN /\ Save(peers')
    BY <1>4, <2>1, SaveIs
  <2>3. ASSUME NEW i \in Id
        PROVE  /\ jobs'[i] \in Slot
               /\ jobs'[i] # Absent =>
                    /\ ReapedJobs[i] # Absent /\ jobs'[i].owner = ReapedJobs[i].owner
                    /\ \/ jobs'[i] = ReapedJobs[i] /\ jobs'[i].owner # t
                       \/ jobs'[i].decision = "denied" /\ jobs'[i].owner = t
    <3>1. CASE ReapedJobs[i] # Absent /\ ReapedJobs[i].owner = t
      <4>1. jobs'[i] = [ReapedJobs[i] EXCEPT !.decision = "denied"] /\ ReapedJobs[i] \in Job
        BY <1>4, <3>1, Reaps DEF Present
      <4>2. jobs'[i] \in Job /\ jobs'[i].owner = ReapedJobs[i].owner /\ jobs'[i].decision = "denied"
        BY <4>1 DEF Job, Decision
      <4> QED
        BY <3>1, <4>2 DEF Slot
    <3>2. CASE ~(ReapedJobs[i] # Absent /\ ReapedJobs[i].owner = t)
      <4>1. jobs'[i] = ReapedJobs[i]
        BY <1>4, <3>2 DEF Present
      <4> QED
        BY <3>2, <4>1, Reaps
    <3> QED
      BY <3>1, <3>2
  <2>4. jobs' \in [Id -> Slot]
    BY <1>4, <2>3
  <2>5. TypeOK'
    BY <1>1, <1>4, <2>1, <2>2, <2>4 DEF TypeOK
  <2> QED
    BY <1>1, <1>2, <1>4, <2>2, <2>3, <2>5
<1> QED
  BY <1>3, <1>4 DEF RevokeCommit, AuditFails

\* What leaves both files and the references alone.
LEMMA RestTypes ==
  ASSUME TypeOK, StopCommit \/ Look \/ AccessTick
  PROVE  /\ TypeOK' /\ (Enrolls' => Enrolls) /\ (dialog' # Absent => dialog # Absent)
         /\ UNCHANGED <<peers, clients, vault, vaultFile, issued, up>>
         /\ (jobs' = ReapedJobs /\ up) \/ jobs' = jobs
         /\ faulted' = TRUE \/ UNCHANGED faulted
<1>1. CASE StopCommit
  <2>1. /\ UNCHANGED <<peers, clients, vault, vaultFile, issued, up, epoch, clock>>
        /\ jobs' = ReapedJobs /\ dialog' = Absent /\ Ready
    BY <1>1 DEF StopCommit
  <2>2. (faulted' = TRUE /\ UNCHANGED shutdown) \/ (UNCHANGED faulted /\ shutdown' = TRUE)
    BY <1>1 DEF StopCommit, AuditFails
  <2>3. TypeOK'
    BY <2>1, <2>2, Reaps DEF TypeOK
  <2>4. up
    BY <2>1 DEF Ready
  <2> QED
    BY <2>1, <2>2, <2>3, <2>4 DEF Enrolls
<1>2. CASE Look
  <2>1. /\ UNCHANGED <<peers, clients, vault, vaultFile, dialog, issued, faulted, shutdown, up, epoch, clock>>
        /\ jobs' = ReapedJobs /\ up
    BY <1>2 DEF Look
  <2>2. TypeOK'
    BY <2>1, Reaps DEF TypeOK
  <2> QED
    BY <2>1, <2>2 DEF Enrolls
<1>3. CASE AccessTick
  <2>1. /\ UNCHANGED <<peers, clients, vault, vaultFile, jobs, dialog, issued, faulted, shutdown, up, epoch>>
        /\ clock' = clock + 1
    BY <1>3 DEF AccessTick
  <2>2. TypeOK'
    BY <2>1 DEF TypeOK
  <2> QED
    BY <2>1, <2>2 DEF Enrolls
<1> QED
  BY <1>1, <1>2, <1>3

LEMMA ProcessTypes ==
  ASSUME TypeOK, Crash \/ Restart
  PROVE  /\ TypeOK' /\ clients' = clients /\ vaultFile' = vaultFile
         /\ \/ up' = FALSE /\ dialog' = Absent /\ jobs' = [i \in Id |-> Absent]
            \/ /\ ~up /\ up' = TRUE /\ UNCHANGED <<jobs, dialog, faulted, shutdown>>
               /\ peers' = clients /\ vault' = vaultFile
<1>1. CASE Crash
  <2>1. /\ up' = FALSE /\ dialog' = Absent /\ jobs' = [i \in Id |-> Absent]
        /\ peers' = [c \in Client |-> Absent] /\ vault' = {} /\ faulted' = FALSE /\ shutdown' = FALSE
        /\ UNCHANGED <<clients, vaultFile, issued, epoch, clock>>
    BY <1>1 DEF Crash, Nobody
  <2>2. peers' \in Table /\ jobs' \in [Id -> Slot]
    BY <2>1 DEF Table, Slot
  <2> QED
    BY <2>1, <2>2 DEF TypeOK
<1>2. CASE Restart
  <2>1. /\ ~up /\ up' = TRUE /\ epoch' = epoch + 1 /\ peers' = clients /\ vault' = vaultFile
        /\ UNCHANGED <<clients, vaultFile, jobs, dialog, issued, faulted, shutdown, clock>>
    BY <1>2 DEF Restart
  <2> QED
    BY <2>1 DEF TypeOK
<1> QED
  BY <1>1, <1>2

\* The cases of AccessNext, named once.
Begins(c) ==
  \/ PairBegin(c) \/ StopBegin(c)
  \/ \E r \in Ref : EnrollBegin(c, r)
  \/ \E t \in Client : RevokeBegin(c, t)
Talks == Confirmed \/ DialogEnds \/ \E d \in {"allowed", "denied", "expired"} : Answered(d)
Rests == StopCommit \/ Look \/ AccessTick

LEMMA Cases ==
  ASSUME AccessNext
  PROVE  \/ \E c \in Client : Begins(c)
         \/ \E c \in Client, i \in Id, r \in Ref : RequestAccess(c, i, r)
         \/ Talks \/ Rests
         \/ PairCommit \/ EnrollCommit \/ Decide \/ RevokeCommit
         \/ Crash \/ Restart
  BY DEF AccessNext, Begins, Talks, Rests

LEMMA TypeNext == TypeOK /\ [AccessNext]_accessVars => TypeOK'
<1> SUFFICES ASSUME TypeOK, [AccessNext]_accessVars PROVE TypeOK'
  OBVIOUS
<1>1. ASSUME NEW c \in Client, Begins(c) PROVE TypeOK'
  BY <1>1, AskTypes DEF Begins
<1>2. ASSUME NEW c \in Client, NEW i \in Id, NEW r \in Ref, RequestAccess(c, i, r) PROVE TypeOK'
  BY <1>2, RequestTypes
<1>3. CASE Talks
  BY <1>3, DialogTypes DEF Talks
<1>4. CASE Rests
  BY <1>4, RestTypes DEF Rests
<1>5. CASE PairCommit \/ EnrollCommit \/ Decide \/ RevokeCommit
  BY <1>5, PairTypes, EnrollTypes, DecideTypes, RevokeTypes
<1>6. CASE Crash \/ Restart
  BY <1>6, ProcessTypes
<1>7. CASE UNCHANGED accessVars
  BY <1>7 DEF accessVars, TypeOK
<1> QED
  BY <1>1, <1>2, <1>3, <1>4, <1>5, <1>6, <1>7, Cases

\* The tables of clients, credentials and jobs, and the one dialog, hold what they
\* should (broker.rs, State and its transactions).
THEOREM TypeCorrect == AccessSpec => []TypeOK
  BY TypeInit, TypeNext, PTL DEF AccessSpec

-----------------------------------------------------------------------------
(* The next incarnation accepts both files *)

\* The parts of Acceptable, and what keeps them.
LEMMA Accepts ==
  ASSUME NEW p \in Table, NEW v \in SUBSET Ref, Acceptable(p, v)
  PROVE  /\ \A r \in Ref \ v : Cardinality(v) < MaxCredentials => Acceptable(p, v \cup {r})
         /\ \A c \in Client : Acceptable([p EXCEPT ![c] = Absent], v)
<1>1. ASSUME NEW r \in Ref \ v, Cardinality(v) < MaxCredentials PROVE Acceptable(p, v \cup {r})
  <2>1. IsFiniteSet(v)
    BY Bounds, FS_Subset
  <2>2. Cardinality(v \cup {r}) = Cardinality(v) + 1 /\ Cardinality(v) \in Nat
    BY <2>1, FS_AddElement, FS_CardinalityType
  <2>3. Cardinality(v \cup {r}) <= MaxCredentials
    BY <1>1, <2>2, Bounds
  <2> QED
    BY <2>3 DEF Acceptable
<1>2. ASSUME NEW c \in Client PROVE Acceptable([p EXCEPT ![c] = Absent], v)
  <2> DEFINE q == [p EXCEPT ![c] = Absent]
             Old == {d \in Client : p[d] # Absent}
             New == {d \in Client : q[d] # Absent}
  <2>1. \A d \in Client : q[d] # Absent => q[d] = p[d]
    BY DEF Table
  <2>2. New \subseteq Old /\ IsFiniteSet(Old)
    BY <2>1, Bounds, FS_Subset
  <2>3. Cardinality(New) <= Cardinality(Old) /\ Cardinality(Old) \in Nat /\ Cardinality(New) \in Nat
    BY <2>2, FS_Subset, FS_CardinalityType
  <2>4. Cardinality(Old) <= MaxClients
    BY DEF Acceptable
  <2>5. Cardinality(New) <= MaxClients
    BY <2>3, <2>4, Bounds
  <2> HIDE DEF q
  <2>6. Acceptable(q, v)
    BY <2>1, <2>5 DEF Acceptable
  <2> QED
    BY <2>6 DEF q
<1> QED
  BY <1>1, <1>2

LEMMA AcceptsWith ==
  ASSUME TypeOK, NEW v \in SUBSET Ref, Acceptable(peers, v), NEW c \in Paired, NEW r \in v
  PROVE  Acceptable(With(c, r), v)
<1> DEFINE p == With(c, r)
<1>1. /\ p[c] = peers[c] \cup {r} /\ p[c] # Absent /\ peers[c] # Absent /\ c \in Client
      /\ \A d \in Client \ {c} : p[d] = peers[d]
  BY WithType DEF Paired
<1> HIDE DEF p
<1>2. {d \in Client : p[d] # Absent} = {d \in Client : peers[d] # Absent}
  BY <1>1
<1>3. \A d \in Client : p[d] # Absent => p[d] \subseteq v
  BY <1>1 DEF Acceptable
<1>4. \A d, e \in Client : p[d] # Absent /\ p[e] # Absent /\ LabelOf[d] = LabelOf[e] => d = e
  BY <1>1 DEF Acceptable
<1> QED
  BY <1>2, <1>3, <1>4 DEF Acceptable, p

LEMMA AcceptsPaired ==
  ASSUME TypeOK, NEW v \in SUBSET Ref, Acceptable(peers, v), NEW c \in Client, Pairable(c)
  PROVE  Acceptable([peers EXCEPT ![c] = {}], v)
<1> DEFINE p == [peers EXCEPT ![c] = {}]
<1>1. p[c] = {} /\ (\A d \in Client \ {c} : p[d] = peers[d]) /\ {} # Absent
  BY AbsentAssumption DEF TypeOK, Table
<1> HIDE DEF p
<1>2. c \notin Paired
  BY DEF Pairable
<1>3. {d \in Client : p[d] # Absent} = Paired \cup {c}
  BY <1>1 DEF Paired
<1>4. IsFiniteSet(Paired)
  BY Bounds, FS_Subset DEF Paired
<1>5. Cardinality(Paired \cup {c}) = Cardinality(Paired) + 1 /\ Cardinality(Paired) \in Nat
  BY <1>2, <1>4, FS_AddElement, FS_CardinalityType
<1>6. Cardinality({d \in Client : p[d] # Absent}) <= MaxClients
  BY <1>3, <1>5, Bounds DEF Pairable
<1>7. \A d \in Client : p[d] # Absent => p[d] \subseteq v
  BY <1>1 DEF Acceptable
<1>8. \A d, e \in Client : p[d] # Absent /\ p[e] # Absent /\ LabelOf[d] = LabelOf[e] => d = e
  BY <1>1 DEF Acceptable, Pairable, Paired
<1> QED
  BY <1>6, <1>7, <1>8 DEF Acceptable, p

\* Both files are acceptable together, and as in memory until something failed; the
\* permit keeps the room that an enrolment found.
FilesInv ==
  /\ Acceptable(clients, vaultFile)
  /\ up /\ ~faulted => clients = peers /\ vault = vaultFile
  /\ Enrolls => Cardinality(vault) < MaxCredentials
  /\ ~up => dialog = Absent /\ \A i \in Id : jobs[i] = Absent

LEMMA FilesInit == AccessInit => FilesInv
  BY DEF AccessInit, FilesInv, Enrolls

\* Nothing of the files or the references changes, but perhaps a fault.
LEMMA FilesStill ==
  ASSUME FilesInv, UNCHANGED <<peers, clients, vault, vaultFile, up>>,
         faulted' = TRUE \/ UNCHANGED faulted,
         Enrolls' => Cardinality(vault) < MaxCredentials,
         up \/ (dialog' = Absent /\ \A i \in Id : jobs'[i] = Absent)
  PROVE  FilesInv'
<1>1. Acceptable(clients, vaultFile)'
  BY DEF FilesInv
<1>2. (up /\ ~faulted => clients = peers /\ vault = vaultFile)'
  BY DEF FilesInv
<1> QED
  BY <1>1, <1>2 DEF FilesInv

\* New references are saved, or one of the two files is left and a fault.
LEMMA FilesSaved ==
  ASSUME TypeOK, FilesInv, Ready, NEW p \in Table, Acceptable(p, vaultFile), peers' = p,
         Save(p) \/ (clients' \in {clients, p} /\ faulted' = TRUE),
         UNCHANGED <<vault, vaultFile, up>>, dialog' = Absent
  PROVE  FilesInv'
<1>1. clients' \in {clients, p} /\ (~faulted' => clients' = p)
  BY DEF Save
<1>2. up /\ vault = vaultFile /\ up'
  BY DEF Ready, FilesInv
<1>3. Acceptable(clients', vaultFile)
  BY <1>1 DEF FilesInv
<1>4. Acceptable(clients, vaultFile)'
  BY <1>3 DEF Acceptable
<1> QED
  BY <1>1, <1>2, <1>4 DEF FilesInv, Enrolls

LEMMA FilesEnrolled ==
  ASSUME TypeOK, FilesInv, EnrollCommit
  PROVE  FilesInv'
<1> DEFINE c == dialog.client
           r == dialog.ref
<1>1. /\ Enrolls /\ c \in Paired /\ r \in Ref \ vault /\ dialog' = Absent /\ Ready /\ up' = up
      /\ \/ faulted' = TRUE /\ UNCHANGED <<peers, clients, vault, vaultFile>>
         \/ StoresFirst(c, r)
  BY EnrollTypes
<1>2. up /\ ~faulted /\ clients = peers /\ vault = vaultFile /\ Cardinality(vault) < MaxCredentials
  BY <1>1 DEF Ready, FilesInv
<1>3. CASE faulted' = TRUE /\ UNCHANGED <<peers, clients, vault, vaultFile>>
  BY <1>1, <1>2, <1>3, FilesStill DEF Enrolls
<1>4. CASE StoresFirst(c, r)
  <2> DEFINE v == vault \cup {r}
  <2>1. v \in SUBSET Ref /\ Acceptable(peers, vault)
    BY <1>1, <1>2 DEF TypeOK, FilesInv
  <2>2. Acceptable(peers, v)
    BY <1>1, <1>2, <2>1, Accepts DEF TypeOK
  <2>3. Acceptable(With(c, r), v)
    BY <1>1, <2>1, <2>2, AcceptsWith
  <2>4. CASE vaultFile' = v /\ vault' = v /\ peers' = With(c, r) /\ Save(With(c, r))
    <3>1. clients' \in {clients, With(c, r)} /\ (~faulted' => clients' = With(c, r))
      BY <2>4 DEF Save
    <3>2. Acceptable(clients', vaultFile')
      BY <1>2, <2>2, <2>3, <2>4, <3>1
    <3>3. Acceptable(clients, vaultFile)'
      BY <3>2 DEF Acceptable
    <3> QED
      BY <1>1, <1>2, <2>4, <3>1, <3>3 DEF FilesInv, Enrolls
  <2>5. CASE vaultFile' \in {vaultFile, v} /\ faulted' = TRUE /\ UNCHANGED <<peers, clients>>
    <3>1. Acceptable(clients', vaultFile')
      BY <1>2, <2>1, <2>2, <2>5
    <3>2. Acceptable(clients, vaultFile)'
      BY <3>1 DEF Acceptable
    <3> QED
      BY <1>1, <1>2, <2>5, <3>2 DEF FilesInv, Enrolls
  <2> QED
    BY <1>4, <2>4, <2>5 DEF StoresFirst
<1> QED
  BY <1>1, <1>3, <1>4

LEMMA FilesNext == TypeOK /\ FilesInv /\ [AccessNext]_accessVars => FilesInv'
<1> SUFFICES ASSUME TypeOK, FilesInv, [AccessNext]_accessVars PROVE FilesInv'
  OBVIOUS
<1>0. Ready => up /\ ~faulted /\ clients = peers /\ vault = vaultFile /\ Acceptable(peers, vaultFile)
  BY DEF Ready, FilesInv
<1>1. ASSUME NEW c \in Client, Begins(c) PROVE FilesInv'
  BY <1>0, <1>1, AskTypes, FilesStill DEF Begins
<1>2. ASSUME NEW c \in Client, NEW i \in Id, NEW r \in Ref, RequestAccess(c, i, r) PROVE FilesInv'
  BY <1>2, RequestTypes, FilesStill
<1>3. CASE Talks
  <2>1. /\ UNCHANGED <<peers, clients, vault, vaultFile, up, faulted>>
        /\ dialog # Absent /\ (Enrolls' => Enrolls)
    BY <1>3, DialogTypes DEF Talks
  <2>2. up
    BY <2>1 DEF FilesInv
  <2> QED
    BY <2>1, <2>2, FilesStill DEF FilesInv
<1>4. CASE Rests
  <2>1. /\ UNCHANGED <<peers, clients, vault, vaultFile, up>> /\ (Enrolls' => Enrolls)
        /\ (dialog' # Absent => dialog # Absent) /\ (faulted' = TRUE \/ UNCHANGED faulted)
        /\ (jobs' = ReapedJobs /\ up) \/ jobs' = jobs
    BY <1>4, RestTypes DEF Rests
  <2>2. up \/ (dialog' = Absent /\ \A i \in Id : jobs'[i] = Absent)
    BY <2>1 DEF FilesInv
  <2> QED
    BY <2>1, <2>2, FilesStill DEF FilesInv
<1>5. CASE PairCommit
  <2>1. /\ TypeOK' /\ dialog.client \in Client /\ Pairable(dialog.client) /\ dialog' = Absent /\ Ready
        /\ UNCHANGED <<vault, vaultFile, up>>
        /\ \/ faulted' = TRUE /\ UNCHANGED <<peers, clients>>
           \/ peers' = [peers EXCEPT ![dialog.client] = {}] /\ Save(peers')
    BY <1>5, PairTypes
  <2>2. CASE faulted' = TRUE /\ UNCHANGED <<peers, clients>>
    BY <1>0, <2>1, <2>2, FilesStill DEF Enrolls
  <2>3. CASE peers' = [peers EXCEPT ![dialog.client] = {}] /\ Save(peers')
    <3>1. Acceptable([peers EXCEPT ![dialog.client] = {}], vaultFile)
      BY <1>0, <2>1, AcceptsPaired DEF TypeOK
    <3>2. [peers EXCEPT ![dialog.client] = {}] \in Table
      BY <2>1 DEF TypeOK, Table
    <3> QED
      BY <2>1, <2>3, <3>1, <3>2, FilesSaved
  <2> QED
    BY <2>1, <2>2, <2>3
<1>6. CASE EnrollCommit
  BY <1>6, FilesEnrolled
<1>7. CASE Decide
  <2>1. /\ dialog \in Asking /\ dialog' = Absent /\ up /\ UNCHANGED <<vault, vaultFile, up>>
        /\ \/ /\ UNCHANGED <<peers, clients>>
              /\ faulted' = TRUE \/ UNCHANGED faulted
           \/ /\ Ready /\ dialog.client \in Paired /\ dialog.ref \in vault
              /\ peers' = With(dialog.client, dialog.ref)
              /\ \/ Save(peers')
                 \/ clients' \in {clients, peers'} /\ faulted' = TRUE
    BY <1>7, DecideTypes
  <2>2. CASE UNCHANGED <<peers, clients>> /\ (faulted' = TRUE \/ UNCHANGED faulted)
    BY <2>1, <2>2, FilesStill DEF Enrolls
  <2>3. CASE /\ Ready /\ dialog.client \in Paired /\ dialog.ref \in vault
             /\ peers' = With(dialog.client, dialog.ref)
             /\ \/ Save(peers')
                \/ clients' \in {clients, peers'} /\ faulted' = TRUE
    <3>1. Acceptable(With(dialog.client, dialog.ref), vaultFile)
      BY <1>0, <2>3, AcceptsWith DEF TypeOK
    <3>2. With(dialog.client, dialog.ref) \in Table
      BY <2>3, WithType DEF TypeOK
    <3> QED
      BY <2>1, <2>3, <3>1, <3>2, FilesSaved
  <2> QED
    BY <2>1, <2>2, <2>3
<1>8. CASE RevokeCommit
  <2>1. /\ dialog' = Absent /\ Ready /\ dialog.target \in Client /\ UNCHANGED <<vault, vaultFile, up>>
        /\ \/ faulted' = TRUE /\ UNCHANGED <<peers, clients>>
           \/ peers' = [peers EXCEPT ![dialog.target] = Absent] /\ Save(peers')
    BY <1>8, RevokeTypes
  <2>2. CASE faulted' = TRUE /\ UNCHANGED <<peers, clients>>
    BY <1>0, <2>1, <2>2, FilesStill DEF Enrolls
  <2>3. CASE peers' = [peers EXCEPT ![dialog.target] = Absent] /\ Save(peers')
    <3>1. Acceptable([peers EXCEPT ![dialog.target] = Absent], vaultFile)
      BY <1>0, <2>1, Accepts DEF TypeOK
    <3>2. [peers EXCEPT ![dialog.target] = Absent] \in Table
      BY DEF TypeOK, Table
    <3> QED
      BY <2>1, <2>3, <3>1, <3>2, FilesSaved
  <2> QED
    BY <2>1, <2>2, <2>3
<1>9. CASE Crash \/ Restart
  <2>1. Acceptable(clients, vaultFile)'
    BY <1>9, ProcessTypes DEF FilesInv
  <2>2. CASE up' = FALSE /\ dialog' = Absent /\ jobs' = [i \in Id |-> Absent]
    BY <2>1, <2>2 DEF FilesInv, Enrolls
  <2>3. CASE /\ ~up /\ up' = TRUE /\ UNCHANGED <<jobs, dialog, faulted, shutdown>>
             /\ peers' = clients /\ vault' = vaultFile
             /\ clients' = clients /\ vaultFile' = vaultFile
    BY <2>1, <2>3 DEF FilesInv, Enrolls
  <2> QED
    BY <1>9, <2>2, <2>3, ProcessTypes
<1>10. CASE UNCHANGED accessVars
  BY <1>10 DEF accessVars, FilesInv, Acceptable, Enrolls
<1> QED
  BY <1>1, <1>2, <1>3, <1>4, <1>5, <1>6, <1>7, <1>8, <1>9, <1>10, Cases

\* Whatever fails or crashes between storing a credential and saving who may name it,
\* the next incarnation accepts the two files (Broker::with_components, enroll).
THEOREM AccessReopensHolds == AccessSpec => []AccessReopens
<1>1. AccessInit => TypeOK /\ FilesInv
  BY TypeInit, FilesInit
<1>2. TypeOK /\ FilesInv /\ [AccessNext]_accessVars => (TypeOK /\ FilesInv)'
  BY TypeNext, FilesNext
<1>3. FilesInv => AccessReopens
  BY DEF FilesInv, AccessReopens
<1> QED
  BY <1>1, <1>2, <1>3, PTL DEF AccessSpec

-----------------------------------------------------------------------------
(* What was allowed is kept *)

\* Who was told that its access is allowed has the reference, in memory and on disk.
KeptFor(j) ==
  j.decision = "allowed" =>
    /\ j.owner \in Paired /\ clients[j.owner] # Absent
    /\ j.ref \in peers[j.owner] \cap clients[j.owner]

AllowedInv == \A i \in Id : jobs[i] # Absent => KeptFor(jobs[i])

LEMMA AllowedInit == AccessInit => AllowedInv
  BY DEF AccessInit, AllowedInv

\* A reap makes nothing allowed.
LEMMA ReapedKept ==
  ASSUME TypeOK, AllowedInv, NEW i \in Id, ReapedJobs[i] # Absent
  PROVE  KeptFor(ReapedJobs[i]) /\ ReapedJobs[i].owner \in Client
<1>1. /\ jobs[i] # Absent /\ ReapedJobs[i] \in Job
      /\ ReapedJobs[i].owner = jobs[i].owner /\ ReapedJobs[i].ref = jobs[i].ref
      /\ \/ ReapedJobs[i].decision = jobs[i].decision
         \/ jobs[i].decision = "pending" /\ ReapedJobs[i].decision = "expired"
  BY Reaps
<1>2. KeptFor(jobs[i])
  BY <1>1 DEF AllowedInv
<1> QED
  BY <1>1, <1>2 DEF KeptFor, Job

\* No reference is taken from the owners of these jobs.
Grows(table) ==
  \A i \in Id : table[i] # Absent /\ table[i].decision = "allowed" =>
    LET c == table[i].owner IN
    /\ peers[c] # Absent => peers'[c] # Absent /\ peers[c] \subseteq peers'[c]
    /\ clients[c] # Absent => clients'[c] # Absent /\ clients[c] \subseteq clients'[c]

LEMMA AllowedGrows ==
  ASSUME TypeOK, AllowedInv, Grows(ReapedJobs),
         \A i \in Id : jobs'[i] # Absent /\ jobs'[i].decision = "allowed" =>
           ReapedJobs[i] # Absent /\ jobs'[i] = ReapedJobs[i]
  PROVE  AllowedInv'
<1>1. ASSUME NEW i \in Id, jobs'[i] # Absent, jobs'[i].decision = "allowed" PROVE KeptFor(jobs[i])'
  <2>1. ReapedJobs[i] # Absent /\ jobs'[i] = ReapedJobs[i]
    BY <1>1
  <2>2. KeptFor(ReapedJobs[i]) /\ ReapedJobs[i].owner \in Client
    BY <2>1, ReapedKept
  <2> QED
    BY <1>1, <2>1, <2>2 DEF KeptFor, Grows, Paired
<1> QED
  BY <1>1 DEF AllowedInv, KeptFor

\* Both tables stay.
LEMMA AllowedStill ==
  ASSUME TypeOK, AllowedInv, UNCHANGED <<peers, clients>>,
         \/ jobs' = jobs
         \/ \A i \in Id : jobs'[i] # Absent /\ jobs'[i].decision = "allowed" =>
              ReapedJobs[i] # Absent /\ jobs'[i] = ReapedJobs[i]
  PROVE  AllowedInv'
<1>1. CASE jobs' = jobs
  BY <1>1 DEF AllowedInv, KeptFor, Paired
<1>2. CASE \A i \in Id : jobs'[i] # Absent /\ jobs'[i].decision = "allowed" =>
              ReapedJobs[i] # Absent /\ jobs'[i] = ReapedJobs[i]
  BY <1>2, AllowedGrows DEF Grows
<1> QED
  BY <1>1, <1>2

\* A table that grows, and the file that is the one or the other.
LEMMA Grown ==
  ASSUME TypeOK, FilesInv, AllowedInv, Ready, NEW c \in Client, NEW S \in SUBSET Ref,
         peers' = [peers EXCEPT ![c] = S], peers[c] # Absent => peers[c] \subseteq S,
         clients' \in {clients, peers'}
  PROVE  Grows(ReapedJobs)
<1>1. clients = peers /\ peers'[c] = S /\ S # Absent /\ \A d \in Client \ {c} : peers'[d] = peers[d]
  BY AbsentAssumption DEF FilesInv, Ready, TypeOK, Table
<1>2. \A d \in Client : peers[d] # Absent => peers'[d] # Absent /\ peers[d] \subseteq peers'[d]
  BY <1>1
<1>3. \A i \in Id : ReapedJobs[i] # Absent => ReapedJobs[i].owner \in Client
  BY ReapedKept
<1> QED
  BY <1>1, <1>2, <1>3 DEF Grows

LEMMA AllowedDecided ==
  ASSUME TypeOK, FilesInv, AllowedInv, Decide
  PROVE  AllowedInv'
<1> DEFINE c == dialog.client
           r == dialog.ref
<1>0. dialog \in Asking /\ dialog.id \in Id /\ r \in Ref /\ c \in Client
  BY DecideTypes DEF Asking
<1>i. PICK i \in Id : i = dialog.id
  BY <1>0
<1>1. CASE UNCHANGED <<peers, clients, faulted>> /\ jobs' = ReapedJobs
  BY <1>1, AllowedStill
<1>2. ASSUME NEW d \in {"denied", "expired", "uncertain"}, UNCHANGED <<peers, clients>>,
             ReapedJobs[i] # Absent, Decides(i, d)
      PROVE  AllowedInv'
  <2>1. jobs'[i].decision = d /\ \A k \in Id \ {i} : jobs'[k] = ReapedJobs[k]
    BY <1>0, <1>2, DecidesType DEF Decision
  <2> QED
    BY <1>2, <2>1, AllowedStill
<1>3. CASE /\ Ready /\ ReapedJobs[i] # Absent /\ c \in Paired
           /\ ReapedJobs[i].owner = c /\ ReapedJobs[i].ref = r
           /\ peers' = With(c, r)
           /\ \/ Save(peers') /\ ~faulted' /\ Decides(i, "allowed")
              \/ clients' \in {clients, peers'} /\ faulted' = TRUE /\ Decides(i, "uncertain")
  <2>1. /\ With(c, r) = [peers EXCEPT ![c] = peers[c] \cup {r}]
        /\ peers[c] \cup {r} \in SUBSET Ref
    BY <1>0, <1>3, WithType DEF With
  <2>2. clients' \in {clients, peers'}
    BY <1>3 DEF Save
  <2>3. Grows(ReapedJobs)
    BY <1>0, <1>3, <2>1, <2>2, Grown
  <2>4. CASE Decides(i, "uncertain")
    <3>1. jobs'[i].decision = "uncertain" /\ \A k \in Id \ {i} : jobs'[k] = ReapedJobs[k]
      BY <1>0, <1>3, <2>4, DecidesType DEF Decision
    <3> QED
      BY <2>3, <3>1, AllowedGrows
  <2>5. CASE Save(peers') /\ ~faulted' /\ Decides(i, "allowed")
    <3>1. /\ jobs'[i].owner = c /\ jobs'[i].ref = r
          /\ \A k \in Id \ {i} : jobs'[k] = ReapedJobs[k]
      BY <1>0, <1>3, <2>5, DecidesType DEF Decision
    <3>2. clients' = peers'
      BY <2>5 DEF Save
    <3>3. peers'[c] # Absent /\ r \in peers'[c]
      BY <1>0, <1>3, WithType
    <3>4. KeptFor(jobs[i])'
      BY <1>0, <3>1, <3>2, <3>3 DEF KeptFor, Paired
    <3>5. ASSUME NEW k \in Id \ {i}, jobs'[k] # Absent PROVE KeptFor(jobs[k])'
      <4>1. jobs'[k] = ReapedJobs[k] /\ ReapedJobs[k] # Absent
        BY <3>1, <3>5
      <4>2. KeptFor(ReapedJobs[k]) /\ ReapedJobs[k].owner \in Client
        BY <4>1, ReapedKept
      <4> QED
        BY <2>3, <4>1, <4>2 DEF KeptFor, Grows, Paired
    <3> QED
      BY <3>4, <3>5 DEF AllowedInv
  <2> QED
    BY <1>3, <2>4, <2>5
<1> QED
  BY <1>i, <1>1, <1>2, <1>3, DecideTypes

LEMMA AllowedNext == TypeOK /\ FilesInv /\ AllowedInv /\ [AccessNext]_accessVars => AllowedInv'
<1> SUFFICES ASSUME TypeOK, FilesInv, AllowedInv, [AccessNext]_accessVars PROVE AllowedInv'
  OBVIOUS
<1>1. ASSUME NEW c \in Client, Begins(c) PROVE AllowedInv'
  BY <1>1, AskTypes, AllowedStill DEF Begins
<1>2. ASSUME NEW c \in Client, NEW i \in Id, NEW r \in Ref, RequestAccess(c, i, r) PROVE AllowedInv'
  BY <1>2, RequestTypes, AllowedStill
<1>3. CASE Talks
  BY <1>3, DialogTypes, AllowedStill DEF Talks
<1>4. CASE Rests
  BY <1>4, RestTypes, AllowedStill DEF Rests
<1>5. CASE PairCommit
  <2>1. /\ dialog.client \in Client /\ Pairable(dialog.client) /\ Ready /\ jobs' = ReapedJobs
        /\ \/ UNCHANGED <<peers, clients>>
           \/ peers' = [peers EXCEPT ![dialog.client] = {}] /\ Save(peers')
    BY <1>5, PairTypes
  <2>2. peers[dialog.client] = Absent
    BY <2>1 DEF Pairable, Paired
  <2>3. ASSUME peers' = [peers EXCEPT ![dialog.client] = {}], Save(peers') PROVE Grows(ReapedJobs)
    <3>1. clients' \in {clients, peers'} /\ {} \in SUBSET Ref
      BY <2>3 DEF Save
    <3> QED
      BY <2>1, <2>2, <2>3, <3>1, Grown
  <2> QED
    BY <2>1, <2>3, AllowedStill, AllowedGrows
<1>6. CASE EnrollCommit
  <2> DEFINE c == dialog.client
             r == dialog.ref
  <2>1. /\ c \in Paired /\ r \in Ref /\ Ready /\ jobs' = ReapedJobs
        /\ UNCHANGED <<peers, clients>> \/ StoresFirst(c, r)
    BY <1>6, EnrollTypes
  <2>2. ASSUME peers' = With(c, r), Save(With(c, r)) PROVE Grows(ReapedJobs)
    <3>1. /\ With(c, r) = [peers EXCEPT ![c] = peers[c] \cup {r}] /\ c \in Client
          /\ peers[c] \cup {r} \in SUBSET Ref
      BY <2>1, WithType DEF With, Paired
    <3>2. clients' \in {clients, peers'}
      BY <2>2 DEF Save
    <3> QED
      BY <2>1, <2>2, <3>1, <3>2, Grown
  <2>3. UNCHANGED <<peers, clients>> \/ (peers' = With(c, r) /\ Save(With(c, r)))
    BY <2>1 DEF StoresFirst
  <2> QED
    BY <2>1, <2>2, <2>3, AllowedStill, AllowedGrows
<1>7. CASE Decide
  BY <1>7, AllowedDecided
<1>8. CASE RevokeCommit
  <2> DEFINE t == dialog.target
  <2>1. /\ Ready /\ t \in Client
        /\ \/ jobs' = ReapedJobs /\ UNCHANGED <<peers, clients>>
           \/ /\ peers' = [peers EXCEPT ![t] = Absent] /\ Save(peers')
              /\ \A i \in Id : jobs'[i] # Absent =>
                   /\ ReapedJobs[i] # Absent
                   /\ \/ jobs'[i] = ReapedJobs[i] /\ jobs'[i].owner # t
                      \/ jobs'[i].decision = "denied"
    BY <1>8, RevokeTypes
  <2>2. CASE jobs' = ReapedJobs /\ UNCHANGED <<peers, clients>>
    BY <2>2, AllowedStill
  <2>3. CASE /\ peers' = [peers EXCEPT ![t] = Absent] /\ Save(peers')
             /\ \A i \in Id : jobs'[i] # Absent =>
                  /\ ReapedJobs[i] # Absent
                  /\ \/ jobs'[i] = ReapedJobs[i] /\ jobs'[i].owner # t
                     \/ jobs'[i].decision = "denied"
    <3>1. clients' \in {clients, peers'} /\ clients = peers
      BY <2>1, <2>3 DEF Save, FilesInv, Ready
    <3>2. \A d \in Client \ {t} : peers'[d] = peers[d] /\ clients'[d] = clients[d]
      BY <2>3, <3>1 DEF TypeOK, Table
    <3>3. ASSUME NEW i \in Id, jobs'[i] # Absent, jobs'[i].decision = "allowed" PROVE KeptFor(jobs[i])'
      <4>1. ReapedJobs[i] # Absent /\ jobs'[i] = ReapedJobs[i] /\ jobs'[i].owner # t
        BY <2>3, <3>3
      <4>2. KeptFor(ReapedJobs[i]) /\ ReapedJobs[i].owner \in Client
        BY <4>1, ReapedKept
      <4> QED
        BY <3>2, <3>3, <4>1, <4>2 DEF KeptFor, Paired
    <3> QED
      BY <3>3 DEF AllowedInv, KeptFor
  <2> QED
    BY <2>1, <2>2, <2>3
<1>9. CASE Crash \/ Restart
  BY <1>9, ProcessTypes DEF AllowedInv, FilesInv
<1>10. CASE UNCHANGED accessVars
  BY <1>10 DEF accessVars, AllowedInv, KeptFor, Paired
<1> QED
  BY <1>1, <1>2, <1>3, <1>4, <1>5, <1>6, <1>7, <1>8, <1>9, <1>10, Cases

\* A client that was told its access is allowed has the reference, in memory and in
\* the file a crash leaves, until it is revoked (request_access and the decision in
\* the background, save).
THEOREM AllowedIsKeptHolds == AccessSpec => []AllowedIsKept
<1>1. AccessInit => TypeOK /\ FilesInv /\ AllowedInv
  BY TypeInit, FilesInit, AllowedInit
<1>2. (TypeOK /\ FilesInv /\ AllowedInv) /\ [AccessNext]_accessVars => (TypeOK /\ FilesInv /\ AllowedInv)'
  BY TypeNext, FilesNext, AllowedNext
<1>3. AllowedInv => AllowedIsKept
  BY DEF AllowedInv, KeptFor, AllowedIsKept, Present
<1> QED
  BY <1>1, <1>2, <1>3, PTL DEF AccessSpec

-----------------------------------------------------------------------------
(* An answer stands *)

\* One job of the step from jobs to jobs'.
Stands(i) ==
  (jobs[i].decision # "pending" /\ jobs[i].retain > clock /\ jobs'[i] # Absent)
  => \/ jobs'[i].decision = jobs[i].decision
     \/ /\ jobs'[i].decision = "denied"
        /\ peers'[jobs[i].owner] = Absent \/ faulted' \/ shutdown'

LEMMA ReapedStands ==
  ASSUME TypeOK, NEW i \in Id, jobs[i] # Absent, jobs[i].decision # "pending", jobs[i].retain > clock
  PROVE  /\ ReapedJobs[i] # Absent /\ ReapedJobs[i].decision = jobs[i].decision
         /\ ReapedJobs[i].owner = jobs[i].owner
  BY Reaps

LEMMA StandsNext ==
  ASSUME TypeOK, FilesInv, [AccessNext]_accessVars, NEW i \in Id, jobs[i] # Absent
  PROVE  Stands(i)
<1> SUFFICES ASSUME jobs[i].decision # "pending", jobs[i].retain > clock, jobs'[i] # Absent
             PROVE  \/ jobs'[i].decision = jobs[i].decision
                    \/ /\ jobs'[i].decision = "denied"
                       /\ peers'[jobs[i].owner] = Absent \/ faulted' \/ shutdown'
  BY DEF Stands
<1>0. ReapedJobs[i] # Absent /\ ReapedJobs[i].decision = jobs[i].decision /\ ReapedJobs[i].owner = jobs[i].owner
  BY ReapedStands
<1>1. CASE jobs'[i] = jobs[i] \/ jobs'[i] = ReapedJobs[i]
  BY <1>0, <1>1
<1>2. ASSUME NEW c \in Client, Begins(c) PROVE jobs'[i] = ReapedJobs[i]
  BY <1>2, AskTypes DEF Begins
<1>3. ASSUME NEW c \in Client, NEW k \in Id, NEW r \in Ref, RequestAccess(c, k, r)
      PROVE  jobs'[i] = ReapedJobs[i]
  BY <1>0, <1>3, RequestTypes
<1>4. CASE Talks \/ Rests \/ PairCommit \/ EnrollCommit
  BY <1>1, <1>4, DialogTypes, RestTypes, PairTypes, EnrollTypes DEF Talks, Rests
<1>5. CASE Decide
  <2>1. /\ dialog \in Asking /\ up /\ shutdown' = shutdown
        /\ \/ jobs' = ReapedJobs
           \/ ~Ready /\ UNCHANGED faulted /\ ReapedJobs[dialog.id] # Absent /\ Decides(dialog.id, "denied")
           \/ /\ ReapedJobs[dialog.id] # Absent /\ ReapedJobs[dialog.id].decision = "pending"
              /\ \E d \in Decision : Decides(dialog.id, d)
    BY <1>5, DecideTypes DEF Decision
  <2>2. dialog.id \in Id
    BY <2>1 DEF Asking
  <2>3. CASE ~Ready /\ UNCHANGED faulted /\ ReapedJobs[dialog.id] # Absent /\ Decides(dialog.id, "denied")
    <3>1. /\ jobs'[dialog.id].decision = "denied"
          /\ \A k \in Id \ {dialog.id} : jobs'[k] = ReapedJobs[k]
      BY <2>2, <2>3, DecidesType DEF Decision
    <3>2. faulted \/ shutdown
      BY <2>1, <2>3 DEF Ready
    <3>3. faulted' \/ shutdown'
      BY <2>1, <2>3, <3>2
    <3> QED
      BY <1>1, <3>1, <3>3
  <2>4. ASSUME NEW d \in Decision, ReapedJobs[dialog.id] # Absent,
               ReapedJobs[dialog.id].decision = "pending", Decides(dialog.id, d)
        PROVE  jobs'[i] = ReapedJobs[i]
    <3>1. i # dialog.id
      BY <1>0, <2>4
    <3> QED
      BY <2>2, <2>4, <3>1, DecidesType
  <2> QED
    BY <1>1, <2>1, <2>3, <2>4
<1>6. CASE RevokeCommit
  <2>1. /\ dialog.target \in Client
        /\ \/ jobs' = ReapedJobs
           \/ /\ peers' = [peers EXCEPT ![dialog.target] = Absent]
              /\ jobs'[i].owner = ReapedJobs[i].owner
              /\ \/ jobs'[i] = ReapedJobs[i]
                 \/ jobs'[i].decision = "denied" /\ jobs'[i].owner = dialog.target
    BY <1>6, RevokeTypes
  <2>2. peers' = [peers EXCEPT ![dialog.target] = Absent] => peers'[dialog.target] = Absent
    BY <2>1 DEF TypeOK, Table
  <2> QED
    BY <1>0, <1>1, <2>1, <2>2
<1>7. CASE Crash \/ Restart
  BY <1>1, <1>7, ProcessTypes
<1>8. CASE UNCHANGED accessVars
  BY <1>1, <1>8 DEF accessVars
<1> QED
  BY <1>1, <1>2, <1>3, <1>4, <1>5, <1>6, <1>7, <1>8, Cases

\* A decision that may have been read stays while it is kept: only a revocation, a
\* stop or a fault turns it into a refusal (State::reap, the decision of
\* request_access, revoke).
THEOREM AnswerStandsHolds == AccessSpec => AnswerStands
<1>1. AccessInit => TypeOK /\ FilesInv
  BY TypeInit, FilesInit
<1>2. TypeOK /\ FilesInv /\ [AccessNext]_accessVars => (TypeOK /\ FilesInv)'
  BY TypeNext, FilesNext
<1>3. TypeOK /\ FilesInv /\ [AccessNext]_accessVars =>
        [\A i \in Present(jobs) :
           (jobs[i].decision # "pending" /\ jobs[i].retain > clock /\ jobs'[i] # Absent)
           => \/ jobs'[i].decision = jobs[i].decision
              \/ /\ jobs'[i].decision = "denied"
                 /\ peers'[jobs[i].owner] = Absent \/ faulted' \/ shutdown']_accessVars
  BY StandsNext DEF Stands, Present
<1> QED
  BY <1>1, <1>2, <1>3, PTL DEF AccessSpec, AnswerStands

=============================================================================
