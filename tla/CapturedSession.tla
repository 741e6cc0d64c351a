-------------------------- MODULE CapturedSession --------------------------
(***************************************************************************)
(* Browser sessions captured for replay: SecretStore's captured partition. *)
(* A capture reads the entry of its origin, merges without a lock and puts *)
(* the result back; a replay takes a session with a lease on the entries   *)
(* it came from, and marks exactly those generations stale when a server   *)
(* rejects it.  How the partition reaches the disk is in SecretStore.      *)
(***************************************************************************)
EXTENDS Integers, FiniteSets, SequencesExt

CONSTANTS
  Origin,
  Cookie,      \* [name, domain, below, path, secure, expires], the last second
               \* it is sent in
  Item,        \* everything else: [kind, name], a header, query parameter or
               \* entry of local or session storage
  Url,         \* [host, path, https]
  Capturer, Replayer, \* threads
  NoEntry,
  MaxOrigins,  \* captured_max_origins
  MaxCapture,  \* bound of the model: captures
  MaxAge       \* bound of the model: seconds

ASSUME CapturedAssumption ==
  /\ MaxOrigins \in Nat \ {0} /\ {MaxCapture, MaxAge} \subseteq Nat
  /\ \A c \in Cookie :
       c.below \in BOOLEAN /\ c.secure \in BOOLEAN /\ c.path # <<>> /\ c.expires \in Nat
  /\ NoEntry \notin [generation : Nat, stale : BOOLEAN, created : Nat,
                     content : UNION {[K -> Nat] : K \in SUBSET (Cookie \cup Item)}]

VARIABLES
  captured,    \* entry of each origin, or NoEntry
  merging,     \* what each capturer is about to put back, or NoEntry
  lease,       \* what each replayer was given, or NoEntry
  seconds,
  captures,    \* captures begun
  disturbed    \* origins whose captures overlapped, or that lost their entry

capturedVars == <<captured, merging, lease, seconds, captures, disturbed>>

-----------------------------------------------------------------------------
(* Cookies. *)

\* cookie_domain_matches_host, on labels: the host itself, or below a leading dot.
DomainMatches(c, host) ==
  /\ c.domain # <<>>
  /\ IF c.below THEN IsSuffix(c.domain, host) ELSE host = c.domain

\* cookie_path_matches_request, on segments: "/a/" is <<"a", "">>.
PathMatches(c, path) ==
  \/ IsPrefix(c.path, path)
  \/ Last(c.path) = "" /\ Len(path) >= Len(c.path) /\ IsPrefix(Front(c.path), path)

Applies(c, u) ==
  /\ c.expires >= seconds
  /\ c.secure => u.https
  /\ DomainMatches(c, u.host)
  /\ PathMatches(c, u.path)

\* filter_cookies_for_url, without the order of the header.
CookiesFor(content, u) == {c \in DOMAIN content \cap Cookie : Applies(c, u)}

-----------------------------------------------------------------------------
(* Captures. *)

Kept(content, keys) == [k \in DOMAIN content \cap keys |-> content[k]]
Blank == [k \in {} |-> 0]
\* extend: what comes in replaces what is there under the same key.
Over(seen, there) ==
  [k \in DOMAIN seen \cup DOMAIN there |-> IF k \in DOMAIN seen THEN seen[k] ELSE there[k]]
Content(o) == IF captured[o] = NoEntry THEN Blank ELSE captured[o].content

\* Faulty variant: a merge keeps the generation of what it merges into.
SameGeneration(o) == IF captured[o] = NoEntry THEN 1 ELSE captured[o].generation
NextGeneration(o) == IF captured[o] = NoEntry THEN 1 ELSE captured[o].generation + 1

ItemsOf(kinds) == {i \in Item : i.kind \in kinds}

\* store_captured and its deferred forms: what was seen, over what was there.
Merged(o, seen) == Over(seen, Content(o))

\* store_captured_browser_state_deferred: the cookies are the whole truth, a storage
\* only when it was read, and headers and query parameters stay.
Snapshot(o, seen, read) ==
  Over(seen, Kept(Content(o), ItemsOf({"header", "query", "local", "session"} \ read)))

\* The entry is read under the read lock.
Capture(w, o, content) ==
  /\ merging[w] = NoEntry
  /\ captures < MaxCapture /\ captures' = captures + 1
  /\ merging' = [merging EXCEPT ![w] =
       [origin |-> o, content |-> content, generation |-> NextGeneration(o), since |-> seconds]]
  /\ UNCHANGED <<captured, lease, seconds, disturbed>>

CaptureTraffic(w, o, keys) ==
  Capture(w, o, Merged(o, [k \in keys |-> captures + 1]))
CaptureBrowser(w, o, keys, read) ==
  /\ \A k \in keys \cap Item : k.kind \in read
  /\ Capture(w, o, Snapshot(o, [k \in keys |-> captures + 1], read))

Held(table) == {o \in Origin : table[o] # NoEntry}

\* evict_captured_if_needed: the oldest go first, in any order among equals, the
\* newest entry included.
Survivors(table) ==
  {S \in SUBSET Held(table) :
     /\ Cardinality(S) = IF Cardinality(Held(table)) <= MaxOrigins
                         THEN Cardinality(Held(table)) ELSE MaxOrigins
     /\ \A o \in S, e \in Held(table) \ S : table[e].created <= table[o].created}

\* The result goes in under the write lock, whatever is there by now; it was dated
\* during the merge.
Insert(w) ==
  LET m == merging[w]
      Table(date) == [captured EXCEPT ![m.origin] =
        [generation |-> m.generation, stale |-> FALSE, content |-> m.content,
         created |-> date]] IN
  /\ m # NoEntry
  /\ merging' = [merging EXCEPT ![w] = NoEntry]
  /\ \E date \in m.since..seconds : LET table == Table(date) IN \E S \in Survivors(table) :
       /\ captured' = [o \in Origin |-> IF o \in S THEN table[o] ELSE NoEntry]
       /\ disturbed' = disturbed \cup (Held(table) \ S)
            \cup {o \in {m.origin} : m.generation # NextGeneration(o)}
  /\ UNCHANGED <<lease, seconds, captures>>

\* clear_captured, and clear_all_captured for every origin.
Clear(S) ==
  /\ S \cap Held(captured) # {}
  /\ captured' = [o \in Origin |-> IF o \in S THEN NoEntry ELSE captured[o]]
  /\ disturbed' = disturbed \cup (S \cap Held(captured))
  /\ UNCHANGED <<merging, lease, seconds, captures>>

-----------------------------------------------------------------------------
(* Replays. *)

Fresh(o) == captured[o] # NoEntry /\ ~captured[o].stale

\* get_session: the entry of the origin, unless it is stale, with the cookies of
\* every other fresh entry that apply to the URL.
Sources(o, u) ==
  ({o} \cap Held(captured))
    \cup {f \in Origin \ {o} : Fresh(f) /\ CookiesFor(Content(f), u) # {}}

GetSession(w, o, u) ==
  LET S == Sources(o, u) IN
  /\ lease[w] = NoEntry
  /\ captured[o] # NoEntry => Fresh(o)
  /\ S # {}
  /\ lease' = [lease EXCEPT ![w] =
       [url |-> u,
        targets |-> {[origin |-> f, generation |-> captured[f].generation] : f \in S},
        values |-> [f \in S |-> Kept(Content(f),
                     CookiesFor(Content(f), u) \cup (IF f = o THEN Item ELSE {}))],
        read |-> [f \in S |-> Content(f)]]]
  /\ UNCHANGED <<captured, merging, seconds, captures, disturbed>>

\* mark_stale_lease and mark_fresh_lease: the entries that still have the generation.
Marked(w, s) ==
  [o \in Origin |->
     IF captured[o] # NoEntry
        /\ [origin |-> o, generation |-> captured[o].generation] \in lease[w].targets
     THEN [captured[o] EXCEPT !.stale = s] ELSE captured[o]]

Mark(w, s) ==
  /\ lease[w] # NoEntry
  /\ captured' = Marked(w, s)
  /\ UNCHANGED <<merging, lease, seconds, captures, disturbed>>

Replayed(w) ==
  /\ lease[w] # NoEntry
  /\ lease' = [lease EXCEPT ![w] = NoEntry]
  /\ UNCHANGED <<captured, merging, seconds, captures, disturbed>>

Second ==
  /\ seconds < MaxAge /\ seconds' = seconds + 1
  /\ UNCHANGED <<captured, merging, lease, captures, disturbed>>

-----------------------------------------------------------------------------

CapturedInit ==
  /\ captured = [o \in Origin |-> NoEntry]
  /\ merging = [w \in Capturer |-> NoEntry]
  /\ lease = [w \in Replayer |-> NoEntry]
  /\ seconds = 0 /\ captures = 0 /\ disturbed = {}

CapturedNext ==
  \/ \E w \in Capturer, o \in Origin, keys \in SUBSET (Cookie \cup Item) :
       \/ CaptureTraffic(w, o, keys)
       \/ \E read \in SUBSET {"local", "session"} : CaptureBrowser(w, o, keys, read)
  \/ \E w \in Capturer : Insert(w)
  \/ \E S \in {{o} : o \in Origin} \cup {Origin} : Clear(S)
  \/ \E w \in Replayer, o \in Origin, u \in Url : GetSession(w, o, u)
  \/ \E w \in Replayer : (\E s \in BOOLEAN : Mark(w, s)) \/ Replayed(w)
  \/ Second

-----------------------------------------------------------------------------
(* Properties. *)

\* A rejected session marks stale what the replay used and nothing newer, for as
\* long as captures of the origin did not overlap and its entry was not removed:
\* then a generation names one content.
RejectsWhatWasUsed ==
  \A w \in Replayer :
    lease[w] # NoEntry =>
      \A t \in lease[w].targets :
        (captured[t.origin] # NoEntry /\ captured[t.origin].generation = t.generation
           /\ t.origin \notin disturbed)
        => captured[t.origin].content = lease[w].read[t.origin]
=============================================================================
