------------------------------- MODULE Grants -------------------------------
(***************************************************************************)
(* What a provisioned secret may be used for: policies, the domains a      *)
(* request may reach, approvals given by a human, the daily count, and     *)
(* single-use grants.  Every table has a lock of its own and a call takes  *)
(* several of them one after the other, reading the clock and the entry    *)
(* again as it goes; a step below is one such section, and so is the       *)
(* reaping of the two tables of approvals, which share no record.          *)
(***************************************************************************)
EXTENDS Integers, FiniteSets, SequencesExt

CONSTANTS
  Secret,      \* identifiers of provisioned secrets
  Policy,      \* [tools, domains, limit, approval]; limit 0 stands for none
  Route,       \* tool:action pairs
  Label,       \* labels of a host name; Junk is no DNS label
  Junk,
  Lower,       \* Lower[l] is the label l in lower case
  Text,        \* what a caller may write as a domain: sequences of labels
  Site,        \* host names a request may end up at
  Authority,   \* principals of delegated grants, None of a plain one
  Thread,      \* callers of the store
  None,
  MaxHosts,    \* MAX_REQUESTED_DOMAINS
  MaxBatch,    \* MAX_ATOMIC_GRANT_REDEMPTIONS
  ApprovalTtl, GrantTtl,
  DayLength,
  MaxTime,     \* bound of the model: the clock
  MaxChallenge,\* bound of the model: challenges and approvals
  MaxToken,    \* bound of the model: grants issued
  MaxUses      \* bound of the model: uses recorded

ASSUME GrantsAssumption ==
  /\ {MaxHosts, MaxBatch, ApprovalTtl, GrantTtl, DayLength} \subseteq Nat \ {0}
  /\ {MaxTime, MaxChallenge, MaxToken, MaxUses} \subseteq Nat
  /\ None \in Authority
  /\ \A p \in Policy : p.limit \in Nat /\ p.approval \in BOOLEAN
  /\ \A p \in Policy : \A x \in p.domains :
       x.name \in Seq(Label) /\ (x.form = "below" => x.name # <<>>)
  /\ \A l \in Label : Lower[l] \in Label /\ Lower[Lower[l]] = Lower[l]
  /\ IsFiniteSet(Text) /\ Text \subseteq Seq(Label)
  /\ Site # {} /\ Site \subseteq Seq(Label)

VARIABLES
  entries,     \* policy of each secret, None when there is no entry
  used,        \* UsageTracker: uses of a secret on a day
  pending,     \* ApprovalTable.pending: challenges not answered
  approved,    \* ApprovalTable.approved, in the order they were given
  grants,      \* GrantTable: token -> record, None when there is none
  call,        \* what each thread is doing
  now,
  next,        \* next identifier of a challenge and of a grant
  tally        \* what was spent

grantVars == <<entries, used, pending, approved, grants, call, now, next, tally>>

-----------------------------------------------------------------------------
(* Domains and policies. *)

Lowered(t) == [i \in DOMAIN t |-> Lower[t[i]]]
IsDnsHost(t) == t # <<>> /\ Junk \notin Range(t)

\* What is written as the name of a host may be where a request ends up.
ASSUME SiteAssumption ==
  \A t \in Text : IsDnsHost(Lowered(t)) => Lowered(t) \in Site

\* RequestedDomains; `One` keeps the text as it was given.
NoDomain  == [kind |-> "none", hosts |-> {}]
AnyDomain == [kind |-> "any", hosts |-> {}]
One(t)    == [kind |-> "one", hosts |-> {t}]
HostSet(S) == [kind |-> "set", hosts |-> S]

\* RequestedDomains::hosts: validated, lowered, and one host is a single domain.
Hosts(S) ==
  LET canonical == {Lowered(t) : t \in S} IN
  IF Cardinality(canonical) = 1 THEN One(CHOOSE h \in canonical : TRUE)
  ELSE HostSet(canonical)
WellFormed(S) ==
  /\ S # {} /\ \A t \in S : IsDnsHost(Lowered(t))
  /\ Cardinality({Lowered(t) : t \in S}) <= MaxHosts

Requested ==
  {NoDomain, AnyDomain} \cup {One(t) : t \in Text}
    \cup {Hosts(S) : S \in {S \in SUBSET Text : WellFormed(S)}}

\* domain_matches: `*`, the name itself, or `*.name` for it and all below it.
Matches(pattern, h) ==
  \/ pattern.form = "all" /\ h # <<>>
  \/ pattern.form = "exact" /\ h = Lowered(pattern.name)
  \/ pattern.form = "below" /\ IsSuffix(Lowered(pattern.name), h)
Listed(p, h) == \E pattern \in p.domains : Matches(pattern, h)

\* Faulty variant: a set is let through when one of its hosts is listed.
ReachesOne(p, d) ==
  \/ p.domains = {}
  \/ d.kind = "one" /\ \A t \in d.hosts : IsDnsHost(Lowered(t)) /\ Listed(p, Lowered(t))
  \/ d.kind = "set" /\ \E h \in d.hosts : Listed(p, h)
  \/ d.kind = "any" /\ \E pattern \in p.domains : pattern.form = "all"
Reaches(p, d) ==
  \/ p.domains = {}
  \/ d.kind = "one" /\ \A t \in d.hosts : IsDnsHost(Lowered(t)) /\ Listed(p, Lowered(t))
  \/ d.kind = "set" /\ \A h \in d.hosts : Listed(p, h)
  \/ d.kind = "any" /\ \E pattern \in p.domains : pattern.form = "all"

\* check_policy up to the daily limit.
Permits(p, r, d) == (p.tools = {} \/ r \in p.tools) /\ Reaches(p, d)

Request == [secret : Secret, route : Route, domains : Requested]

\* RequestFingerprint: none and the empty domain have one legacy fingerprint.
Fingerprint(q) ==
  [q EXCEPT !.domains = IF @ = NoDomain THEN One(<<>>) ELSE @]

-----------------------------------------------------------------------------
(* State. *)

Days == 0..(MaxTime \div DayLength)
Ids  == 1..MaxChallenge
Token == 1..MaxToken
Idle == [step |-> "idle"]

GrantInit ==
  /\ entries \in [Secret -> Policy \cup {None}]
  /\ used = [s \in Secret |-> [d \in Days |-> 0]]
  /\ pending = {} /\ approved = <<>>
  /\ grants = [t \in Token |-> None]
  /\ call = [w \in Thread |-> Idle]
  /\ now = 0 /\ next = [challenge |-> 1, token |-> 1]
  /\ tally = [uses |-> [i \in Ids |-> 0], astray |-> FALSE,
              redeemed |-> [t \in Token |-> 0]]

Today == now \div DayLength
At(w, s) == call[w].step = s
Goes(w, c) == call' = [call EXCEPT ![w] = c]
Returns(w) == Goes(w, Idle)
Unexpired(S) == {x \in S : x.expires > now}
\* retain: the n-th approval that is kept is the one with n kept up to it.
Reaped(seq) ==
  LET kept == {i \in DOMAIN seq : seq[i].expires > now}
      Nth(n) == CHOOSE i \in kept : Cardinality({j \in kept : j <= i}) = n IN
  [n \in 1..Cardinality(kept) |-> seq[Nth(n)]]
ReapedGrants ==
  [t \in Token |-> IF grants[t] # None /\ grants[t].expires <= now THEN None ELSE grants[t]]

\* What storing, replacing and deleting the entry leaves of it here.
Provision(s, p) ==
  /\ entries[s] # p
  /\ entries' = [entries EXCEPT ![s] = p]
  /\ UNCHANGED <<used, pending, approved, grants, call, now, next, tally>>

Tick ==
  /\ now < MaxTime /\ now' = now + 1
  /\ UNCHANGED <<entries, used, pending, approved, grants, call, next, tally>>

-----------------------------------------------------------------------------
(* Approvals. *)

\* ApprovalTable::reap_expired and list_pending.
ListPending ==
  /\ pending' = Unexpired(pending) /\ approved' = Reaped(approved)
  /\ UNCHANGED <<entries, used, grants, call, now, next, tally>>

\* grant: the challenge leaves one table under one lock and its approval enters
\* the other under another.
GrantChallenge(w, c) ==
  /\ At(w, "idle")
  /\ pending' = Unexpired(pending) \ {c} /\ approved' = Reaped(approved)
  /\ IF c \in Unexpired(pending) THEN Goes(w, [step |-> "approving", approval |-> c])
     ELSE UNCHANGED call
  /\ UNCHANGED <<entries, used, grants, now, next, tally>>

\* approve_request, once the entry was seen: reaped, then pushed.
ApproveRequest(w, q) ==
  /\ At(w, "idle")
  /\ entries[q.secret] # None
  /\ next.challenge <= MaxChallenge
  /\ next' = [next EXCEPT !.challenge = @ + 1]
  /\ Goes(w, [step |-> "approving",
              approval |-> [id |-> next.challenge, request |-> q, expires |-> now + ApprovalTtl]])
  /\ pending' = Unexpired(pending) /\ approved' = Reaped(approved)
  /\ UNCHANGED <<entries, used, grants, now, tally>>

Approved(w) ==
  /\ At(w, "approving")
  /\ approved' = Append(approved, call[w].approval)
  /\ Returns(w)
  /\ UNCHANGED <<entries, used, pending, grants, now, next, tally>>

-----------------------------------------------------------------------------
(* Evaluating a request, and issuing a grant on it. *)

\* A limit of none, or fewer uses recorded today.
WithinLimit(p, s) == p.limit # 0 => used[s][Today] < p.limit

\* evaluate_access_scoped: the entry as it is now, and what its policy rejects
\* outright, the daily limit included.  asker is "nobody" when no
\* grant is to be issued.
Evaluate(w, q, asker) ==
  LET p == entries[q.secret] IN
  /\ At(w, "idle")
  /\ p # None
  /\ Permits(p, q.route, q.domains)
  /\ WithinLimit(p, q.secret)
  /\ p.approval \/ asker # "nobody"
  /\ Goes(w, [step |-> IF p.approval THEN "reap" ELSE "issue",
              request |-> q, policy |-> p, at |-> now, asker |-> asker])
  /\ UNCHANGED <<entries, used, pending, approved, grants, now, next, tally>>

\* consume: the tables are reaped first, each under its own lock.
Reap(w) ==
  /\ At(w, "reap")
  /\ pending' = Unexpired(pending) /\ approved' = Reaped(approved)
  /\ call' = [call EXCEPT ![w].step = "consume"]
  /\ UNCHANGED <<entries, used, grants, now, next, tally>>

Fitting(q) == {i \in DOMAIN approved : Fingerprint(approved[i].request) = Fingerprint(q)}
First(S) == CHOOSE i \in S : \A j \in S : i <= j

\* Faulty variant: the approval is left for the request it was asked for.
KeepsApproval(i) == approved
TakesApproval(i) == RemoveAt(approved, i)

\* The same request: no domain and the empty one name the same nothing.
SameRequest(q, r) == q = r \/ {q.domains, r.domains} \subseteq {NoDomain, One(<<>>)}

Consume(w) ==
  LET q == call[w].request IN
  /\ At(w, "consume")
  /\ IF Fitting(q) = {}
     THEN /\ call' = [call EXCEPT ![w].step = "challenge"]
          /\ UNCHANGED <<approved, tally>>
     ELSE LET i == First(Fitting(q)) IN
          /\ approved' = TakesApproval(i)
          /\ tally' = [tally EXCEPT !.uses[approved[i].id] = @ + 1,
                                    !.astray = @ \/ ~SameRequest(approved[i].request, q)]
          /\ IF call[w].asker = "nobody" THEN Returns(w)
             ELSE call' = [call EXCEPT ![w].step = "issue"]
  /\ UNCHANGED <<entries, used, pending, grants, now, next>>

\* issue: nothing was approved, so the human is asked.
Challenge(w) ==
  /\ At(w, "challenge")
  /\ next.challenge <= MaxChallenge
  /\ next' = [next EXCEPT !.challenge = @ + 1]
  /\ pending' = Unexpired(pending) \cup
       {[id |-> next.challenge, request |-> call[w].request, expires |-> call[w].at + ApprovalTtl]}
  /\ approved' = Reaped(approved)
  /\ Returns(w)
  /\ UNCHANGED <<entries, used, grants, now, tally>>

\* issue_grant_with_binding: the entry is read a second time; when it is gone the
\* call fails, and the approval it took stays taken.  What becomes of the entry
\* between this and the insertion changes nothing here.
IssueGrant(w) ==
  LET c == call[w] IN
  /\ At(w, "issue")
  /\ IF entries[c.request.secret] = None THEN UNCHANGED <<grants, next>>
     ELSE /\ next.token <= MaxToken
          /\ next' = [next EXCEPT !.token = @ + 1]
          /\ grants' = [ReapedGrants EXCEPT ![next.token] =
               [request |-> c.request, authority |-> c.asker, policy |-> c.policy,
                expires |-> now + GrantTtl]]
  /\ Returns(w)
  /\ UNCHANGED <<entries, used, pending, approved, now, tally>>

\* record_usage: the limit the entry has now, then count and comparison under one
\* lock.
ReadLimit(w, s) ==
  /\ At(w, "idle")
  /\ entries[s] # None
  /\ Goes(w, [step |-> "record", secret |-> s, limit |-> entries[s].limit, day |-> Today])
  /\ UNCHANGED <<entries, used, pending, approved, grants, now, next, tally>>

RecordUse(w) ==
  LET c == call[w] IN
  /\ At(w, "record")
  /\ IF c.limit # 0 /\ used[c.secret][c.day] >= c.limit THEN UNCHANGED used
     ELSE /\ used[c.secret][c.day] < MaxUses
          /\ used' = [used EXCEPT ![c.secret][c.day] = @ + 1]
  /\ Returns(w)
  /\ UNCHANGED <<entries, pending, approved, grants, now, next, tally>>

-----------------------------------------------------------------------------
(* Redeeming grants. *)

Binding(g) == [route |-> g.request.route, domains |-> g.request.domains,
               authority |-> g.authority]
Issued == {t \in Token : grants[t] # None}
Without(T) == [t \in Token |-> IF t \in T THEN None ELSE grants[t]]
Handed(T) == [tally EXCEPT !.redeemed = [t \in Token |-> IF t \in T THEN @[t] + 1 ELSE @[t]]]

\* redeem_grant: reaped under one lock, removed under another.
Redeem(w, t) ==
  /\ At(w, "idle")
  /\ grants' = ReapedGrants
  /\ Goes(w, [step |-> "redeem", token |-> t])
  /\ UNCHANGED <<entries, used, pending, approved, now, next, tally>>

Redeemed(w) ==
  LET T == {call[w].token} \cap Issued IN
  /\ At(w, "redeem")
  /\ grants' = Without(T) /\ tally' = Handed(T)
  /\ Returns(w)
  /\ UNCHANGED <<entries, used, pending, approved, now, next>>

\* redeem_bound_batch: distinct tokens, each with the binding it is expected to
\* have; the clock is read before the lock is taken.
RedeemBatch(w, batch) ==
  /\ At(w, "idle")
  /\ Len(batch) \in 1..MaxBatch
  /\ \A i, j \in DOMAIN batch : batch[i].token = batch[j].token => i = j
  /\ Goes(w, [step |-> "batch", batch |-> batch, at |-> now])
  /\ UNCHANGED <<entries, used, pending, approved, grants, now, next, tally>>

\* All or nothing; the first request that does not stand decides the error, and
\* what has expired is dropped when that is the error.
BatchRedeemed(w) ==
  LET c == call[w]
      Expired(t) == grants[t] # None /\ grants[t].expires <= c.at
      Stands(x) == /\ grants[x.token] # None /\ ~Expired(x.token)
                   /\ Binding(grants[x.token]) = x.binding
      failing == {i \in DOMAIN c.batch : ~Stands(c.batch[i])}
      T == {c.batch[i].token : i \in DOMAIN c.batch} IN
  /\ At(w, "batch")
  /\ IF failing = {} THEN grants' = Without(T) /\ tally' = Handed(T)
     ELSE /\ grants' = IF Expired(c.batch[First(failing)].token)
                       THEN Without({t \in Token : Expired(t)}) ELSE grants
          /\ UNCHANGED tally
  /\ Returns(w)
  /\ UNCHANGED <<entries, used, pending, approved, now, next>>

Discard(T) ==
  /\ Issued \cap T # {}
  /\ grants' = Without(T)
  /\ UNCHANGED <<entries, used, pending, approved, call, now, next, tally>>

-----------------------------------------------------------------------------

Expected == [token : Token, binding : {Binding(grants[t]) : t \in Issued}]

Approving(w) ==
  \/ \E c \in pending : GrantChallenge(w, c)
  \/ \E q \in Request : ApproveRequest(w, q)
  \/ Approved(w)

Evaluating(w) ==
  \/ \E q \in Request, asker \in Authority \cup {"nobody"} : Evaluate(w, q, asker)
  \/ Reap(w) \/ Consume(w) \/ Challenge(w) \/ IssueGrant(w)
  \/ \E s \in Secret : ReadLimit(w, s)
  \/ RecordUse(w)

Redeeming(w) ==
  \/ \E t \in Token : Redeem(w, t)
  \/ Redeemed(w)
  \/ \E x \in Expected : RedeemBatch(w, <<x>>)
  \/ \E x, y \in Expected : RedeemBatch(w, <<x, y>>)
  \/ BatchRedeemed(w)

GrantNext ==
  \/ \E s \in Secret, p \in Policy \cup {None} : Provision(s, p)
  \/ Tick \/ ListPending
  \/ \E w \in Thread : Approving(w) \/ Evaluating(w) \/ Redeeming(w)
  \/ \E T \in SUBSET Token : Discard(T)

-----------------------------------------------------------------------------
(* Properties. *)

Ends(d) == IF d = AnyDomain THEN Site ELSE {Lowered(t) : t \in d.hosts}
Covered(pattern) ==
  IF pattern.form = "all" THEN Site
  ELSE {h \in Site : \E prefix \in SUBSET (1..Len(h)) :
          /\ prefix = {} \/ pattern.form = "below"
          /\ \E n \in 0..(Len(h) - 1) :
               prefix = 1..n /\ SubSeq(h, n + 1, Len(h)) = Lowered(pattern.name)}

\* A grant for a secret its policy confines to some domains names hosts, and every
\* host the action may end up at is one the policy covers: a set is let through
\* for all its hosts, everything only by a policy that lists everything, and no
\* text that only looks like a host is let through by its ending.
WithinReach ==
  \A t \in Issued :
    LET p == grants[t].policy
        ends == Ends(grants[t].request.domains) IN
    /\ p.tools # {} => grants[t].request.route \in p.tools
    /\ p.domains # {} =>
         /\ ends # {}
         /\ \A h \in ends : \E pattern \in p.domains : h \in Covered(pattern)

\* An approval lets through one access, to what it was given for; and a grant is
\* redeemed once, on its own or in a batch.
SpentAtMostOnce ==
  /\ \A i \in Ids : tally.uses[i] <= 1
  /\ ~tally.astray
  /\ \A t \in Token : tally.redeemed[t] <= 1
=============================================================================
