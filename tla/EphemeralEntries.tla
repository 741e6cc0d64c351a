-------------------------- MODULE EphemeralEntries --------------------------
(***************************************************************************)
(* Values typed for one run, with or without a deadline: the store's plain *)
(* ephemeral partition.  Values and deadlines are two maps under one lock, *)
(* and every call takes it once.  The clock is the wall clock, read before *)
(* the lock is waited for, so a call may come with any instant, an earlier *)
(* one than the call before it included.                                   *)
(***************************************************************************)
EXTENDS Integers, FiniteSets, Sequences

CONSTANTS
  Execution,     \* scopes, each a sequence of the segments of its name
  Field,         \* input identifiers, likewise
  Nothing,
  MaxInstant,    \* bound of the model: readings of the clock
  MaxRegistered  \* bound of the model: values registered

ASSUME EphemeralAssumption ==
  /\ {MaxInstant, MaxRegistered} \subseteq Nat
  /\ Nothing \notin Nat \cup [scope : Execution, input : Field, serial : Nat]
                       \cup [serial : Nat, at : Nat]

VARIABLES
  held,          \* ephemeral: who registered what under each key
  deadlines,     \* ephemeral_deadlines
  registered,    \* ghost: the deadline each value was registered with
  given          \* ghost: the last value read and when

ephemeralVars == <<held, deadlines, registered, given>>

\* The two names are joined: scope a::b with input c is also scope a with b::c.
CellOf(s, i) == s \o i
Cells == {CellOf(p[1], p[2]) : p \in Execution \X Field}
Instants == 0..MaxInstant

EphemeralInit ==
  /\ held = [k \in Cells |-> Nothing] /\ deadlines = [k \in Cells |-> Nothing]
  /\ registered = <<>> /\ given = Nothing

\* A value is due at its deadline, not after it.
Overdue(at) == {k \in Cells : deadlines[k] # Nothing /\ at >= deadlines[k]}
Erased(table, K) == [k \in Cells |-> IF k \in K THEN Nothing ELSE table[k]]

\* Faulty variant: a value without a deadline leaves the one there was.
StaysScheduled(k, term, at) ==
  [Erased(deadlines, Overdue(at)) EXCEPT ![k] = IF term = Nothing THEN @ ELSE term]
Scheduled(k, term, at) == [Erased(deadlines, Overdue(at)) EXCEPT ![k] = term]

\* A deadline that has passed is refused before anything is touched.
Register(s, i, term, at) ==
  /\ Len(registered) < MaxRegistered
  /\ term # Nothing => at < term
  /\ registered' = Append(registered, term)
  /\ held' = [Erased(held, Overdue(at)) EXCEPT ![CellOf(s, i)] =
                [scope |-> s, input |-> i, serial |-> Len(registered) + 1]]
  /\ deadlines' = Scheduled(CellOf(s, i), term, at)
  /\ UNCHANGED given

\* What a placeholder stands for: in its scope the value under the joined key,
\* without one the only value of that input in any scope.
InScope(table, s, i) == {CellOf(s, i)} \cap {k \in Cells : table[k] # Nothing}
Anywhere(table, i) ==
  LET S == {k \in Cells : table[k] # Nothing /\ table[k].input = i} IN
  IF Cardinality(S) = 1 THEN S ELSE {}

\* sweep_expired_ephemeral, and what every read does first.
SweepDue(at) ==
  /\ held' = Erased(held, Overdue(at)) /\ deadlines' = Erased(deadlines, Overdue(at))
  /\ UNCHANGED registered

Read(found, at) ==
  /\ SweepDue(at)
  /\ given' = IF found = {} THEN given
              ELSE [serial |-> held[CHOOSE k \in found : TRUE].serial, at |-> at]

\* By the scope an entry names, not by its key; what is due stays.
ClearScope(s) ==
  LET gone == {k \in Cells : held[k] # Nothing /\ held[k].scope = s} IN
  /\ gone # {}
  /\ held' = Erased(held, gone)
  /\ deadlines' = Erased(deadlines, {k \in Cells : held'[k] = Nothing})
  /\ UNCHANGED <<registered, given>>

\* ephemeral_scope_holds_user_typed_secret: whether a run is tied to this process.
Pinned(s, at) ==
  \E k \in Cells : held[k] # Nothing /\ held[k].scope = s /\ k \notin Overdue(at)

EphemeralNext ==
  \/ \E s \in Execution, i \in Field, at \in Instants :
       \/ \E term \in Instants \cup {Nothing} : Register(s, i, term, at)
       \/ Read(InScope(Erased(held, Overdue(at)), s, i), at)
       \/ Read(Anywhere(Erased(held, Overdue(at)), i), at)
  \/ \E at \in Instants : SweepDue(at) /\ UNCHANGED given
  \/ \E s \in Execution : ClearScope(s)

EphemeralSpec == EphemeralInit /\ [][EphemeralNext]_ephemeralVars

-----------------------------------------------------------------------------
(* Properties. *)

\* Whatever is registered again under a key, with a deadline or without, or under
\* names that join to it, and in whatever order clocks were read: a value ends at
\* the deadline it was registered with, is not read from then on, outlives the
\* deadline of no other, and ties its run to this process until then.
HeldForItsTerm ==
  /\ \A k \in Cells : held[k] = Nothing => deadlines[k] = Nothing
  /\ \A k \in Cells : held[k] # Nothing =>
       LET term == registered[held[k].serial] IN
       /\ deadlines[k] = term
       /\ \A at \in Instants : (term = Nothing \/ at < term) => Pinned(held[k].scope, at)
  /\ (given # Nothing /\ registered[given.serial] # Nothing)
       => given.at < registered[given.serial]
=============================================================================
