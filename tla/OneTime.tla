------------------------------ MODULE OneTime ------------------------------
(***************************************************************************)
(* One-time codes in the shared core: a code typed by the user is held for *)
(* one authentication attempt and then it is gone.  The module follows     *)
(* OneTimeTable in magicvault-core/src/one_time.rs and its callers in      *)
(* store.rs, which take the store's write lock, read the clock, apply the  *)
(* transition, and journal it after they let go of the lock; so each of    *)
(* them is one action.  Nothing is persisted: a restart is a new table.    *)
(*                                                                         *)
(* The clock is the wall clock of the machine, so it may be set back.      *)
(***************************************************************************)
EXTENDS Integers, Sequences

CONSTANTS
  Scope,        \* executions, each a sequence of the segments of its name
  Input,        \* input identifiers, likewise
  Destination,  \* where a code may be submitted
  Challenge,    \* the challenge a code answers
  None,         \* absence of a value
  Retention,    \* ONE_TIME_MAX_RETENTION_MS
  MaxTime,      \* bound of the model: readings of the clock
  Bindings,     \* what codes are registered with
  Claims,       \* what attempts claim
  MaxGen,       \* bound of the model: codes registered
  MaxId         \* bound of the model: reservations made

ASSUME OneTimeAssumption ==
  /\ Bindings \cup Claims \subseteq
       [destination : Destination \cup {None}, challenge : Challenge \cup {None}]
  /\ Retention \in Nat \ {0}
  /\ {MaxTime, MaxGen, MaxId} \subseteq Nat

VARIABLES
  entries,         \* OneTimeTable.entries
  reservations,    \* OneTimeTable.reservations: the code a reservation was made against
  nextGeneration,  \* OneTimeTable.next_generation
  nextId,          \* reservations made so far, each under a fresh identifier
  now,             \* what the clock reads
  journal,         \* how often each final transition of a code was journaled
  spent,           \* ghost: the reservations whose consume let a code be submitted
  code,            \* ghost: what each code was registered as
  attempt,         \* ghost: what each reservation was made for
  newest           \* ghost: what the latest registration under a key left, 0 for nothing

tableVars == <<entries, reservations, nextGeneration, nextId>>
ghostVars == <<spent, code, attempt, newest>>
vars == <<tableVars, now, journal, ghostVars>>

\* The table joins the two names: scope a::b with input c is also scope a with b::c.
Key(s, i) == s \o i
Keys == {Key(p[1], p[2]) : p \in Scope \X Input}

Gen   == 1..MaxGen
Id    == 1..MaxId
Time  == 0..MaxTime
Live  == {"available", "reserved"}
Ended == {"consumed", "expired", "cancelled"}
Final == Ended \cup {"superseded"}

Binding == [destination : Destination \cup {None}, challenge : Challenge \cup {None}]
Unbound == [destination |-> None, challenge |-> None]

Entry == [scope : Scope, binding : Binding, deadline : Nat, gen : Gen,
          state : Live \cup Ended, holder : 0..MaxId]
NoEntry == [scope |-> None, binding |-> Unbound, deadline |-> 0, gen |-> 0,
            state |-> "absent", holder |-> 0]

Index   == [key : Keys, gen : Gen]
NoIndex == [key |-> None, gen |-> 0]

Code    == [key : Keys \cup {None}, binding : Binding, limit : Nat]
NoCode  == [key |-> None, binding |-> Unbound, limit |-> 0]
Attempt == [gen : 0..MaxGen, claim : Binding, returned : BOOLEAN]
NoAttempt == [gen |-> 0, claim |-> Unbound, returned |-> FALSE]

TypeOK ==
  /\ entries \in [Keys -> Entry \cup {NoEntry}]
  /\ reservations \in [Id -> Index \cup {NoIndex}]
  /\ nextGeneration \in 0..MaxGen
  /\ nextId \in 0..MaxId
  /\ now \in Time
  /\ journal \in [Gen \X Final -> Nat]
  /\ spent \in [Gen -> Seq(Id)]
  /\ code \in [Gen -> Code]
  /\ attempt \in [Id -> Attempt]
  /\ newest \in [Keys -> 0..MaxGen]

Init ==
  /\ entries = [k \in Keys |-> NoEntry]
  /\ reservations = [r \in Id |-> NoIndex]
  /\ nextGeneration = 0
  /\ nextId = 0
  /\ now = 0
  /\ journal = [l \in Gen \X Final |-> 0]
  /\ spent = [g \in Gen |-> <<>>]
  /\ code = [g \in Gen |-> NoCode]
  /\ attempt = [r \in Id |-> NoAttempt]
  /\ newest = [k \in Keys |-> 0]

\* A binding with a destination must have it named back; a challenge is compared
\* only when the claim asserts one.
Admits(b, claim) ==
  /\ b.destination # None => claim.destination = b.destination
  /\ b.challenge # None /\ claim.challenge # None => claim.challenge = b.challenge

DueAfter(e) == e.state \in Live /\ now > e.deadline
Due(e) == e.state \in Live /\ now >= e.deadline

\* Every write of a state.
Transitioned(e, state, holder) ==
  [scope |-> e.scope, binding |-> e.binding, deadline |-> e.deadline, gen |-> e.gen,
   state |-> state, holder |-> holder]

\* expire_if_due and its journal line.
Expire(e) == IF Due(e) THEN Transitioned(e, "expired", 0) ELSE e
Swept     == [k \in Keys |-> Expire(entries[k])]
Lines(K)  == {<<entries[k].gen, "expired">> : k \in {x \in K : Due(entries[x])}}

Journal(L) == journal' = [l \in Gen \X Final |-> IF l \in L THEN journal[l] + 1 ELSE journal[l]]

Tick ==
  /\ now' \in Time \ {now}
  /\ UNCHANGED <<tableVars, journal, ghostVars>>

-----------------------------------------------------------------------------
(* Registering *)

\* A registration attempt retires the code before it, even when it is refused.
RetiredIfAccepted(k) == Swept
Retired(k) == [Swept EXCEPT ![k] = NoEntry]
RetiredTwice(k) ==
  IF entries[k].state \in Live THEN {<<entries[k].gen, "superseded">>} ELSE {}
RetiredLines(k) ==
  IF Swept[k].state \in Live THEN {<<Swept[k].gen, "superseded">>} ELSE {}

Clamped(asked) == IF asked < now + Retention THEN asked ELSE now + Retention

Register(s, i, b, asked) ==
  LET k == Key(s, i)
      g == nextGeneration + 1
  IN /\ asked > now
     /\ g <= MaxGen
     /\ nextGeneration' = g
     /\ entries' = [Retired(k) EXCEPT ![k] =
          [scope |-> s, binding |-> b, deadline |-> Clamped(asked), gen |-> g,
           state |-> "available", holder |-> 0]]
     /\ Journal(Lines(Keys) \cup RetiredLines(k))
     /\ newest' = [newest EXCEPT ![k] = g]
     /\ code' = [code EXCEPT ![g] =
          [key |-> k, binding |-> b,
           limit |-> IF asked <= now + Retention THEN asked ELSE now + Retention]]
     /\ UNCHANGED <<reservations, nextId, now, spent, attempt>>

RegisterRefused(s, i, asked) ==
  LET k == Key(s, i)
  IN /\ asked <= now
     /\ entries' = Retired(k)
     /\ Journal(Lines(Keys) \cup RetiredLines(k))
     /\ newest' = [newest EXCEPT ![k] = 0]
     /\ UNCHANGED <<reservations, nextGeneration, nextId, now, spent, code, attempt>>

-----------------------------------------------------------------------------
(* Reserving, consuming, releasing *)

ClaimableByAnyone(e, claim) == e.state = "available"
Claimable(e, claim) == e.state = "available" /\ Admits(e.binding, claim)

Reserve(s, i, claim) ==
  LET k == Key(s, i)
      r == nextId + 1
      g == Swept[k].gen
  IN /\ Claimable(Swept[k], claim)
     /\ r <= MaxId
     /\ nextId' = r
     /\ entries' = [Swept EXCEPT ![k] = Transitioned(@, "reserved", r)]
     /\ reservations' = [reservations EXCEPT ![r] = [key |-> k, gen |-> g]]
     /\ Journal(Lines(Keys))
     /\ attempt' = [attempt EXCEPT ![r] = [gen |-> g, claim |-> claim, returned |-> FALSE]]
     /\ UNCHANGED <<nextGeneration, now, spent, code, newest>>

\* NotFound, AlreadyReserved, BindingMismatch or why the code ended.
ReserveRefused(s, i, claim) ==
  /\ ~Claimable(Swept[Key(s, i)], claim)
  /\ entries' = Swept
  /\ Journal(Lines(Keys))
  /\ UNCHANGED <<reservations, nextGeneration, nextId, now, ghostVars>>

\* reserved_entry: the code a reservation stands for is still in the table.
Resolves(r) ==
  /\ reservations[r] # NoIndex
  /\ entries[reservations[r].key].state # "absent"
  /\ entries[reservations[r].key].gen = reservations[r].gen

\* What consume and release answer.
RefusalByIndex(r) ==
  IF ~Resolves(r) THEN "not_reserved"
  ELSE IF Expire(entries[reservations[r].key]).state = "expired" THEN "expired" ELSE "ok"
Refusal(r) ==
  LET x == reservations[r]
      e == Expire(entries[x.key])
  IN CASE x = NoIndex -> "not_reserved"
       [] x # NoIndex /\ entries[x.key].state = "absent" -> "not_found"
       [] x # NoIndex /\ entries[x.key].state # "absent" /\ ~Resolves(r) -> "superseded"
       [] Resolves(r) /\ e.state \in Ended -> e.state
       [] Resolves(r) /\ e.state \in Live /\ e.holder # r -> "not_reserved"
       [] OTHER -> "ok"

Consume(r) ==
  LET k == reservations[r].key
      g == entries[k].gen
  IN /\ Refusal(r) = "ok"
     /\ entries' = [entries EXCEPT ![k] = Transitioned(@, "consumed", 0)]
     /\ Journal({<<g, "consumed">>})
     /\ spent' = [spent EXCEPT ![g] = Append(@, r)]
     /\ UNCHANGED <<reservations, nextGeneration, nextId, now, code, attempt, newest>>

\* The holder says that the code never left its process.
Release(r) ==
  LET k == reservations[r].key
  IN /\ Refusal(r) = "ok"
     /\ entries' = [entries EXCEPT ![k] = Transitioned(@, "available", 0)]
     /\ reservations' = [reservations EXCEPT ![r] = NoIndex]
     /\ attempt' = [attempt EXCEPT ![r].returned = TRUE]
     /\ UNCHANGED <<nextGeneration, nextId, now, journal, spent, code, newest>>

\* A late or repeated consume or release changes nothing but what is due.
HolderRefused(r) ==
  LET k == reservations[r].key
  IN /\ Refusal(r) # "ok"
     /\ IF Resolves(r)
        THEN /\ entries' = [entries EXCEPT ![k] = Expire(@)]
             /\ Journal(Lines({k}))
        ELSE UNCHANGED <<entries, journal>>
     /\ UNCHANGED <<reservations, nextGeneration, nextId, now, ghostVars>>

-----------------------------------------------------------------------------
(* Cancelling, reading, sweeping, retiring *)

Cancel(s, i) ==
  LET k == Key(s, i)
  IN /\ entries[k].state \in Live /\ ~Due(entries[k])
     /\ entries' = [entries EXCEPT ![k] = Transitioned(@, "cancelled", 0)]
     /\ Journal({<<entries[k].gen, "cancelled">>})
     /\ UNCHANGED <<reservations, nextGeneration, nextId, now, ghostVars>>

\* one_time_state, and a cancel that comes too late: they expire what is due.
Touch(s, i) ==
  LET k == Key(s, i)
  IN /\ Due(entries[k])
     /\ entries' = [entries EXCEPT ![k] = Expire(@)]
     /\ Journal(Lines({k}))
     /\ UNCHANGED <<reservations, nextGeneration, nextId, now, ghostVars>>

Sweep ==
  /\ \E k \in Keys : Due(entries[k])
  /\ entries' = Swept
  /\ Journal(Lines(Keys))
  /\ UNCHANGED <<reservations, nextGeneration, nextId, now, ghostVars>>

\* retire_scope, from clear_ephemeral when the execution ends.
Kept(s) == [k \in Keys |-> IF entries[k].scope = s THEN NoEntry ELSE entries[k]]

Retire(s) ==
  /\ entries' = Kept(s)
  /\ reservations' = [r \in Id |->
       IF reservations[r] # NoIndex /\ Kept(s)[reservations[r].key].state # "absent"
       THEN reservations[r] ELSE NoIndex]
  /\ UNCHANGED <<nextGeneration, nextId, now, journal, ghostVars>>

Next ==
  \/ Tick
  \/ \E s \in Scope, i \in Input :
       \/ \E asked \in Time :
            RegisterRefused(s, i, asked) \/ \E b \in Bindings : Register(s, i, b, asked)
       \/ \E claim \in Claims : Reserve(s, i, claim) \/ ReserveRefused(s, i, claim)
       \/ Cancel(s, i)
       \/ Touch(s, i)
  \/ \E r \in 1..nextId : Consume(r) \/ Release(r) \/ HolderRefused(r)
  \/ Sweep
  \/ \E s \in Scope : Retire(s)

Spec == Init /\ [][Next]_vars

-----------------------------------------------------------------------------
(* Properties *)

Submits(g) == spent'[g] # spent[g]

\* A code is submitted at most once, however often it is reserved, released,
\* superseded and retried: one_time.rs, "held for one bound authentication attempt
\* and then it is gone".
SpentOnce == \A g \in Gen : Len(spent[g]) <= 1

\* Only the code of the latest registration under its name is ever submitted, a
\* refused registration included: one_time.rs:326, "a new challenge invalidates the
\* previous code".
NewestOnly == [][\A g \in Gen : Submits(g) => newest[code[g].key] = g]_vars

\* A code is submitted by the one reservation that holds it, made under a claim
\* that the registration of that very code admits: a released reservation, or one
\* made against an older code with another binding, never submits.
HolderSubmits ==
  [][\A g \in Gen : Submits(g) =>
       LET r == spent'[g][Len(spent'[g])]
       IN /\ attempt[r].gen = g /\ ~attempt[r].returned
          /\ \A q \in Id : attempt[q].gen = g /\ ~attempt[q].returned => q = r
          /\ code[g].binding.destination \in {None, attempt[r].claim.destination}
          /\ None \in {code[g].binding.challenge, attempt[r].claim.challenge}
             \/ code[g].binding.challenge = attempt[r].claim.challenge]_vars

\* A code is submitted before the deadline it was registered with and within the
\* retention of its registration, even if it was reserved in time and the clock ran
\* while the attempt was queued; and once a register or a reserve has been served,
\* nothing due is still held (store.rs:1726).
InTime ==
  [][/\ \A g \in Gen : Submits(g) => now < code[g].limit
     /\ <<nextGeneration, nextId>>' # <<nextGeneration, nextId>> =>
          \A k \in Keys : entries'[k].state \in Live => now < code'[entries'[k].gen].limit]_vars

\* The journal has at most one final line for each code, whoever finds it due, and
\* has it as soon as the table says that the code ended: one_time.rs:262, "so the
\* caller journals it exactly once".
JournaledOnce ==
  /\ \A g \in Gen, t, u \in Final :
       journal[<<g, t>>] > 0 /\ journal[<<g, u>>] > 0 => t = u /\ journal[<<g, t>>] = 1
  /\ \A k \in Keys :
       /\ entries[k].state \in Ended => journal[<<entries[k].gen, entries[k].state>>] = 1
       /\ entries[k].state \in Live =>
            \A t \in Final : journal[<<entries[k].gen, t>>] = 0

\* A holder whose code was superseded is told so: one_time.rs:340.
SupersededAnswers ==
  \A r \in Id :
    reservations[r] # NoIndex /\ journal[<<reservations[r].gen, "superseded">>] > 0
    => Refusal(r) = "superseded"
=============================================================================
