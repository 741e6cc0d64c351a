------------------------------ MODULE MCTables ------------------------------
(* Instances of the store's and the service's tables small enough for TLC.    *)
(* They share no state: a behaviour follows one, the others at rest.          *)
EXTENDS Grants, CapturedSession, Access, EphemeralEntries

-----------------------------------------------------------------------------
(* Grants: one secret, policies that list nothing, one host, a domain and      *)
(* everything, and texts that are a host, another case of it, a host below it, *)
(* no host and nothing.                                                        *)

Labels == {"com", "COM", "ex", "bad/"}
LowerCase == [l \in Labels |-> IF l = "COM" THEN "com" ELSE l]
Com   == <<"com">>
ExCom == <<"ex", "com">>
Texts == {<<>>, <<"COM">>, ExCom, <<"bad/", "com">>}
Sites == {Com, ExCom, <<"ex">>, <<"ex", "ex", "com">>}

APolicy(domains, limit, approval) ==
  [tools |-> {}, domains |-> domains, limit |-> limit, approval |-> approval]
Policies ==
  {APolicy({}, 0, TRUE),
   APolicy({[form |-> "exact", name |-> <<"COM">>]}, 1, FALSE),
   APolicy({[form |-> "below", name |-> Com]}, 0, FALSE),
   APolicy({[form |-> "all", name |-> <<>>]}, 0, FALSE)}

Busy == {w \in Thread : call[w] # Idle}
Asked ==
  {x.request : x \in pending \cup Range(approved) \cup {grants[t] : t \in Issued}}
    \cup {call[w].request : w \in {w \in Busy : "request" \in DOMAIN call[w]}}
    \cup {call[w].approval.request : w \in {w \in Busy : At(w, "approving")}}

\* One thread and one request of any kind; or several that name no domain of a
\* secret that is confined to none; or two grants for one request that needed no
\* approval.
Alone == Cardinality(Busy) <= 1 /\ Cardinality(Asked) <= 1
Entry(form) == \A s \in Secret : entries[s] # None => {x.form : x \in entries[s].domains} = form

GrantFamily ==
  IF next.token <= 2
  THEN Alone \/ (Entry({}) /\ \A q \in Asked : q.domains \in {NoDomain, One(<<>>)})
  ELSE /\ \A w \in Busy : call[w].step \in {"redeem", "batch"}
       /\ next.challenge = 1 /\ \A s \in Secret : used[s][0] = 0
       /\ Entry({"all"}) /\ \A q \in Asked : q.domains = AnyDomain

-----------------------------------------------------------------------------
(* CapturedSession: one domain cookie that applies to a page below it.         *)

Cookies ==
  {[name |-> "sid", domain |-> Com, below |-> TRUE, path |-> <<"">>, secure |-> FALSE,
    expires |-> 0]}
Items == {[kind |-> "local", name |-> "t"]}
\* Captures overlap within a second.
CapturedFamily == seconds = 0 \/ Cardinality({w \in Capturer : merging[w] # NoEntry}) <= 1
Urls == {[host |-> ExCom, path |-> <<"a", "b">>, https |-> TRUE]}

-----------------------------------------------------------------------------
(* Access: every client asks for a label of its own.                           *)

OwnLabels == [c \in Client |-> c]

-----------------------------------------------------------------------------
(* EphemeralEntries: two executions and two inputs, of whose four pairs two    *)
(* have the same key.                                                          *)

JoinedExecutions == {<<"a">>, <<"a", "b">>}
JoinedFields == {<<"c">>, <<"b", "c">>}

-----------------------------------------------------------------------------
(* One of the four moves.  Threads, capturers and clients have the same names, *)
(* and so have references and request identifiers, so that fewer permutations   *)
(* stand for all of them.                                                       *)

GrantsRest   == GrantInit /\ \A s \in Secret : entries[s] = None
CapturedRest == CapturedInit
AccessRest   == clients = Nobody /\ vaultFile = {} /\ AccessInit

EphemeralRest == EphemeralInit

TInit == GrantInit /\ CapturedInit /\ AccessInit /\ EphemeralInit

TNext ==
  \/ /\ CapturedRest /\ AccessRest /\ EphemeralRest /\ GrantNext
     /\ UNCHANGED <<capturedVars, accessVars, ephemeralVars>>
  \/ /\ GrantsRest /\ AccessRest /\ EphemeralRest /\ CapturedNext
     /\ UNCHANGED <<grantVars, accessVars, ephemeralVars>>
  \/ /\ GrantsRest /\ CapturedRest /\ EphemeralRest /\ AccessNext
     /\ UNCHANGED <<grantVars, capturedVars, ephemeralVars>>
  \/ /\ GrantsRest /\ CapturedRest /\ AccessRest /\ EphemeralNext
     /\ UNCHANGED <<grantVars, capturedVars, accessVars>>

TSpec == TInit /\ [][TNext]_<<grantVars, capturedVars, accessVars, ephemeralVars>>

Families == GrantFamily /\ CapturedFamily

Symmetry == Permutations(Client) \cup Permutations(Id) \cup Permutations(Origin)
=============================================================================
