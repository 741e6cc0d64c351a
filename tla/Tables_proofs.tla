---------------------------- MODULE Tables_proofs ----------------------------
(***************************************************************************)
(* Proofs about the store's tables, for any instance of them: grants and   *)
(* the approvals they rest on, captured sessions, and plain ephemeral      *)
(* entries.  The tables share no variable; each part below is about the    *)
(* specification of one of them.                                           *)
(***************************************************************************)
EXTENDS Grants, CapturedSession, EphemeralEntries,
        FiniteSetTheorems, SequenceTheorems, TLAPS
-----------------------------------------------------------------------------
(* Grants: the names of hosts, and what a policy lets through. *)

LEMMA LoweredType ==
  ASSUME NEW t \in Seq(Label)
  PROVE  /\ Lowered(t) \in Seq(Label) /\ Len(Lowered(t)) = Len(t)
         /\ DOMAIN Lowered(t) = 1..Len(t)
         /\ Lowered(Lowered(t)) = Lowered(t)
<1>1. \A i \in 1..Len(t) : t[i] \in Label
  OBVIOUS
<1>2. Lowered(t) = [i \in 1..Len(t) |-> Lower[t[i]]]
  BY DEF Lowered
<1>3. \A i \in 1..Len(t) : Lower[t[i]] \in Label /\ Lower[Lower[t[i]]] = Lower[t[i]]
  BY <1>1, GrantsAssumption
<1>4. Lowered(t) \in Seq(Label) /\ Len(Lowered(t)) = Len(t) /\ DOMAIN Lowered(t) = 1..Len(t)
  BY <1>2, <1>3
<1>5. Lowered(Lowered(t)) = [i \in 1..Len(t) |-> Lower[Lowered(t)[i]]]
  BY <1>4 DEF Lowered
<1>6. \A i \in 1..Len(t) : Lower[Lowered(t)[i]] = Lowered(t)[i]
  BY <1>2, <1>3
<1>7. Lowered(t) = [i \in 1..Len(t) |-> Lowered(t)[i]]
  BY <1>2
<1> QED
  BY <1>4, <1>5, <1>6, <1>7

LEMMA TextType == \A t \in Text : t \in Seq(Label) /\ Lowered(t) \in Seq(Label)
  BY LoweredType, GrantsAssumption

\* A host that a listed pattern matches is one the pattern covers: its own name, or a
\* name below it whose ending is whole labels.
LEMMA MatchedIsCovered ==
  ASSUME NEW p \in Policy, NEW pattern \in p.domains, NEW h \in Site, h # <<>>,
         Matches(pattern, h)
  PROVE  h \in Covered(pattern)
<1>0. h \in Seq(Label) /\ pattern.name \in Seq(Label) /\ Len(h) \in Nat \ {0}
  BY GrantsAssumption
<1>1. CASE pattern.form = "all"
  BY <1>1 DEF Covered
<1>2. CASE pattern.form = "exact"
  <2>1. h = Lowered(pattern.name)
    BY <1>2 DEF Matches
  <2>2. 0 \in 0..(Len(h) - 1) /\ {} = 1..0 /\ SubSeq(h, 0 + 1, Len(h)) = h
    BY <1>0
  <2>3. {} \in SUBSET (1..Len(h))
    OBVIOUS
  <2>4. pattern.form # "all"
    BY <1>2
  <2> QED
    BY <2>1, <2>2, <2>3, <2>4 DEF Covered
<1>3. CASE pattern.form = "below"
  <2> DEFINE s == Lowered(pattern.name)
             n == Len(h) - Len(s)
  <2>1. s \in Seq(Label) /\ Len(s) = Len(pattern.name) /\ Len(s) \in Nat \ {0}
    BY <1>0, <1>3, LoweredType, GrantsAssumption
  <2>2. IsPrefix(Reverse(s), Reverse(h))
    BY <1>3 DEF Matches, IsSuffix
  <2>3. /\ Reverse(s) = [i \in 1..Len(s) |-> s[(Len(s) - i) + 1]]
        /\ Reverse(h) = [i \in 1..Len(h) |-> h[(Len(h) - i) + 1]]
    BY DEF Reverse
  <2>4. /\ Reverse(s) \in Seq(Label) /\ Len(Reverse(s)) = Len(s)
        /\ Reverse(h) \in Seq(Label) /\ Len(Reverse(h)) = Len(h)
    <3>1. \A i \in 1..Len(s) : s[(Len(s) - i) + 1] \in Label
      BY <2>1
    <3>2. \A i \in 1..Len(h) : h[(Len(h) - i) + 1] \in Label
      BY <1>0
    <3> QED
      BY <1>0, <2>1, <2>3, <3>1, <3>2
  <2>5. /\ Len(s) <= Len(h)
        /\ SubSeq(Reverse(s), 1, Len(s)) = SubSeq(Reverse(h), 1, Len(s))
    BY <2>2, <2>4 DEF IsPrefix
  <2>6. \A i \in 1..Len(s) : Reverse(s)[i] = Reverse(h)[i]
    <3> SUFFICES ASSUME NEW i \in 1..Len(s) PROVE Reverse(s)[i] = Reverse(h)[i]
      OBVIOUS
    <3>1. SubSeq(Reverse(s), 1, Len(s))[i] = Reverse(s)[i]
      BY <2>1, <2>4
    <3>2. SubSeq(Reverse(h), 1, Len(s))[i] = Reverse(h)[i]
      BY <1>0, <2>1, <2>4, <2>5
    <3> QED
      BY <2>5, <3>1, <3>2
  <2>7. \A i \in 1..Len(s) : h[n + i] = s[i]
    <3> SUFFICES ASSUME NEW i \in 1..Len(s) PROVE h[n + i] = s[i]
      OBVIOUS
    <3>1. Len(s) - i + 1 \in 1..Len(s) /\ Len(s) - i + 1 \in 1..Len(h)
      BY <1>0, <2>1, <2>5
    <3>2. Reverse(s)[Len(s) - i + 1] = s[i]
      <4>1. (Len(s) - (Len(s) - i + 1)) + 1 = i
        BY <2>1
      <4> QED
        BY <2>3, <3>1, <4>1
    <3>3. Reverse(h)[Len(s) - i + 1] = h[n + i]
      <4>1. (Len(h) - (Len(s) - i + 1)) + 1 = n + i
        BY <1>0, <2>1
      <4> QED
        BY <2>3, <3>1, <4>1
    <3> QED
      BY <2>6, <3>1, <3>2, <3>3
  <2>8. n \in 0..(Len(h) - 1) /\ n + 1 <= Len(h) /\ n \in Nat
    BY <1>0, <2>1, <2>5
  <2>9. SubSeq(h, n + 1, Len(h)) = s
    <3> DEFINE tail == SubSeq(h, n + 1, Len(h))
    <3>1. tail \in Seq(Label) /\ Len(tail) = Len(s)
      <4>1. n + 1 \in 1..Len(h) /\ Len(h) - (n + 1) + 1 = Len(s)
        BY <1>0, <2>1, <2>8
      <4>2. \A i \in (n + 1)..Len(h) : h[i] \in Label
        BY <1>0, <2>8
      <4>3. tail \in Seq(Label) /\ Len(tail) = Len(h) - (n + 1) + 1
        BY <1>0, <2>8, <4>1, <4>2, SubSeqProperties
      <4> QED
        BY <4>1, <4>3
    <3>2. \A i \in 1..Len(s) : tail[i] = h[n + i]
      <4> SUFFICES ASSUME NEW i \in 1..Len(s) PROVE tail[i] = h[n + i]
        OBVIOUS
      <4>1. n + 1 \in 1..Len(h) /\ i \in 1..(Len(h) - (n + 1) + 1) /\ (n + 1) + i - 1 = n + i
        BY <1>0, <2>1, <2>8
      <4>2. \A j \in (n + 1)..Len(h) : h[j] \in Label
        BY <1>0, <2>8
      <4> QED
        BY <1>0, <2>8, <4>1, <4>2, SubSeqProperties
    <3>3. \A i \in 1..Len(tail) : tail[i] = s[i]
      BY <2>7, <3>1, <3>2
    <3> HIDE DEF tail, s
    <3>4. tail = s
      BY <2>1, <3>1, <3>3, SeqEqual
    <3> QED
      BY <3>4 DEF tail
  <2>10. 1..n \in SUBSET (1..Len(h))
    BY <1>0, <2>8
  <2> HIDE DEF n, s
  <2> QED
    BY <1>3, <2>8, <2>9, <2>10 DEF Covered, s
<1> QED
  BY <1>1, <1>2, <1>3 DEF Matches

\* What a caller may ask for: hosts are lowered, validated and at least one.
LEMMA RequestedType ==
  ASSUME NEW d \in Requested
  PROVE  /\ d.kind = "one" => \E t \in Seq(Label) :
              /\ d.hosts = {t}
              /\ IsDnsHost(Lowered(t)) => Lowered(t) \in Site
         /\ d.kind = "set" => d.hosts # {} /\ \A h \in d.hosts :
              h \in Site /\ h # <<>> /\ Lowered(h) = h
         /\ d.kind = "any" => d = AnyDomain
<1>1. CASE d \in {NoDomain, AnyDomain}
  BY <1>1 DEF NoDomain, AnyDomain
<1>2. ASSUME NEW t \in Text, d = One(t)
      PROVE  /\ d.kind = "one" /\ d.hosts = {t} /\ t \in Seq(Label)
             /\ IsDnsHost(Lowered(t)) => Lowered(t) \in Site
  BY <1>2, SiteAssumption, TextType DEF One
<1>3. ASSUME NEW S \in SUBSET Text, WellFormed(S), d = Hosts(S)
      PROVE  \/ d.kind = "one" /\ \E t \in Seq(Label) :
                  d.hosts = {t} /\ (IsDnsHost(Lowered(t)) => Lowered(t) \in Site)
             \/ d.kind = "set" /\ d.hosts # {} /\ \A h \in d.hosts :
                  h \in Site /\ h # <<>> /\ Lowered(h) = h
  <2> DEFINE canonical == {Lowered(t) : t \in S}
  <2>1. canonical # {} /\ \A h \in canonical :
          h \in Site /\ h \in Seq(Label) /\ h # <<>> /\ Lowered(h) = h
    <3>1. \A t \in S : /\ Lowered(t) \in Site /\ Lowered(t) \in Seq(Label)
                       /\ Lowered(t) # <<>> /\ Lowered(Lowered(t)) = Lowered(t)
      BY <1>3, SiteAssumption, TextType, LoweredType DEF WellFormed, IsDnsHost
    <3> QED
      BY <1>3, <3>1 DEF WellFormed
  <2>2. CASE Cardinality(canonical) = 1
    <3>1. PICK h : h = CHOOSE g \in canonical : TRUE
      OBVIOUS
    <3>2. h \in canonical
      BY <2>1, <3>1
    <3>3. d = One(h)
      BY <1>3, <2>2, <3>1 DEF Hosts
    <3> QED
      BY <2>1, <3>2, <3>3 DEF One
  <2>3. CASE Cardinality(canonical) # 1
    <3>1. d = HostSet(canonical)
      BY <1>3, <2>3 DEF Hosts
    <3> QED
      BY <2>1, <3>1 DEF HostSet
  <2> QED
    BY <2>2, <2>3
<1> QED
  BY <1>1, <1>2, <1>3 DEF Requested

\* Whatever a policy lets through ends up where the policy reaches.
Reach(p, r, d) ==
  /\ p.tools # {} => r \in p.tools
  /\ p.domains # {} =>
       /\ Ends(d) # {}
       /\ \A h \in Ends(d) : \E pattern \in p.domains : h \in Covered(pattern)

LEMMA PermittedIsWithinReach ==
  ASSUME NEW p \in Policy, NEW r, NEW d \in Requested, Permits(p, r, d)
  PROVE  Reach(p, r, d)
<1> SUFFICES ASSUME p.domains # {}
             PROVE  /\ Ends(d) # {}
                    /\ \A h \in Ends(d) : \E pattern \in p.domains : h \in Covered(pattern)
  BY DEF Permits, Reach
<1>1. CASE d.kind = "one" /\ \A t \in d.hosts : IsDnsHost(Lowered(t)) /\ Listed(p, Lowered(t))
  <2>1. PICK t \in Seq(Label) : d.hosts = {t} /\ (IsDnsHost(Lowered(t)) => Lowered(t) \in Site)
    BY <1>1, RequestedType
  <2>2. Ends(d) = {Lowered(t)}
    BY <1>1, <2>1 DEF Ends, AnyDomain
  <2>3. Lowered(t) \in Site /\ Lowered(t) # <<>> /\ Listed(p, Lowered(t))
    BY <1>1, <2>1 DEF IsDnsHost
  <2> QED
    BY <2>2, <2>3, MatchedIsCovered DEF Listed
<1>2. CASE d.kind = "set" /\ \A h \in d.hosts : Listed(p, h)
  <2>1. d.hosts # {} /\ \A h \in d.hosts : h \in Site /\ h # <<>> /\ Lowered(h) = h
    BY <1>2, RequestedType
  <2>2. Ends(d) = {Lowered(t) : t \in d.hosts}
    BY <1>2 DEF Ends, AnyDomain
  <2>3. Ends(d) # {} /\ \A h \in Ends(d) : h \in d.hosts
    BY <2>1, <2>2
  <2> QED
    BY <1>2, <2>1, <2>3, MatchedIsCovered DEF Listed
<1>3. CASE d.kind = "any" /\ \E pattern \in p.domains : pattern.form = "all"
  <2>1. Ends(d) = Site /\ Site # {}
    BY <1>3, RequestedType, GrantsAssumption DEF Ends
  <2> QED
    BY <1>3, <2>1 DEF Covered
<1> QED
  BY <1>1, <1>2, <1>3 DEF Permits, Reaches

-----------------------------------------------------------------------------
(* Grants: places in a sequence, in order. *)

UpTo(S, i) == Cardinality({j \in S : j <= i})

\* There is an n-th of some places, with n of them up to it.
LEMMA Ranks ==
  ASSUME NEW len \in Nat, NEW S \in SUBSET (1..len)
  PROVE  /\ IsFiniteSet(S) /\ Cardinality(S) \in Nat
         /\ \A n \in 1..Cardinality(S) : \E i \in S : UpTo(S, i) = n
<1> DEFINE C == Cardinality(S)
           Rank == [i \in S |-> UpTo(S, i)]
<1>1. IsFiniteSet(S) /\ C \in Nat
  <2>1. IsFiniteSet(1..len)
    BY FS_Interval
  <2> QED
    BY <2>1, FS_Subset, FS_CardinalityType
<1>2. \A i \in S : i \in Int
  OBVIOUS
<1>3. ASSUME NEW i \in S
      PROVE  UpTo(S, i) \in 1..C /\ IsFiniteSet({j \in S : j <= i})
  <2> DEFINE T == {j \in S : j <= i}
  <2>1. T \in SUBSET S /\ i \in T
    BY <1>2
  <2> HIDE DEF T
  <2>2. IsFiniteSet(T) /\ Cardinality(T) <= C /\ Cardinality(T) \in Nat
    BY <1>1, <2>1, FS_Subset, FS_CardinalityType
  <2>3. Cardinality(T) # 0
    BY <2>1, <2>2, FS_EmptySet
  <2>4. Cardinality(T) \in 1..C
    BY <1>1, <2>2, <2>3
  <2> QED
    BY <2>2, <2>4 DEF T, UpTo
<1>4. ASSUME NEW i \in S, NEW k \in S, UpTo(S, i) = UpTo(S, k), i < k PROVE FALSE
  <2> DEFINE T == {j \in S : j <= i}
             U == {j \in S : j <= k}
  <2>0. i \in Int /\ k \in Int /\ k <= k /\ ~(k <= i)
    BY <1>2, <1>4
  <2>1. T \in SUBSET U /\ k \in U /\ k \notin T
    <3>1. \A j \in S : j <= i => j <= k
      BY <1>2, <1>4
    <3> QED
      BY <2>0, <3>1
  <2>2. IsFiniteSet(U) /\ Cardinality(U) = Cardinality(T)
    BY <1>3, <1>4 DEF UpTo
  <2> HIDE DEF T, U
  <2> QED
    BY <2>1, <2>2, FS_Subset
<1>5. \A i, k \in S : UpTo(S, i) = UpTo(S, k) => i = k
  <2> SUFFICES ASSUME NEW i \in S, NEW k \in S, UpTo(S, i) = UpTo(S, k), i # k PROVE FALSE
    OBVIOUS
  <2>1. i < k \/ k < i
    BY <1>2
  <2> QED
    BY <1>4, <2>1
<1>6. Rank \in Injection(S, 1..C)
  BY <1>3, <1>5 DEF Injection, IsInjective
<1>7. \A n \in 1..C : \E i \in S : UpTo(S, i) = n
  <2>1. IsFiniteSet(1..C) /\ Cardinality(1..C) = C
    BY <1>1, FS_Interval
  <2>2. Rank \in Surjection(S, 1..C)
    BY <1>6, <2>1, FS_Injection
  <2> QED
    BY <2>2 DEF Surjection
<1> QED
  BY <1>1, <1>7

\* The first of some places.
LEMMA FirstPlace ==
  ASSUME NEW len \in Nat, NEW S \in SUBSET (1..len), S # {}
  PROVE  First(S) \in S
<1>1. IsFiniteSet(S) /\ Cardinality(S) \in Nat
  BY Ranks
<1>2. Cardinality(S) # 0
  BY <1>1, FS_EmptySet
<1>3. PICK i \in S : UpTo(S, i) = 1
  <2>1. 1 \in 1..Cardinality(S)
    BY <1>1, <1>2
  <2> QED
    BY <2>1, Ranks
<1> DEFINE T == {j \in S : j <= i}
<1>4. T \in SUBSET S /\ i \in T
  OBVIOUS
<1>5. IsFiniteSet(T)
  BY <1>1, <1>4, FS_Subset
<1>6. \E x : T = {x}
  <2> HIDE DEF T
  <2>1. Cardinality(T) = 1
    BY <1>3 DEF UpTo, T
  <2> QED
    BY <1>5, <2>1, FS_Singleton
<1>7. \A j \in S : i <= j
  <2> SUFFICES ASSUME NEW j \in S, ~(i <= j) PROVE FALSE
    OBVIOUS
  <2>1. j \in T /\ j # i
    OBVIOUS
  <2> QED
    BY <1>4, <1>6, <2>1
<1> QED
  BY <1>7 DEF First

-----------------------------------------------------------------------------
(* Grants: the tables of approvals. *)

Approval == [id : Ids, request : Request, expires : Nat]

\* What is kept of a sequence of approvals is some of them, each once.
LEMMA ReapedPlaces ==
  ASSUME NEW seq \in Seq(Approval)
  PROVE  \E place \in [1..Len(Reaped(seq)) -> 1..Len(seq)] :
           /\ Reaped(seq) \in Seq(Approval)
           /\ \A n \in 1..Len(Reaped(seq)) : Reaped(seq)[n] = seq[place[n]]
           /\ \A m, n \in 1..Len(Reaped(seq)) : place[m] = place[n] => m = n
<1> DEFINE kept == {i \in DOMAIN seq : seq[i].expires > now}
           Nth(n) == CHOOSE i \in kept : UpTo(kept, i) = n
           C == Cardinality(kept)
<1>1. Len(seq) \in Nat /\ kept \in SUBSET (1..Len(seq))
  OBVIOUS
<1> HIDE DEF kept
<1>2. C \in Nat /\ \A n \in 1..C : \E i \in kept : UpTo(kept, i) = n
  BY <1>1, Ranks
<1>3. \A n \in 1..C : Nth(n) \in kept /\ UpTo(kept, Nth(n)) = n
  BY <1>2
<1>4. Reaped(seq) = [n \in 1..C |-> seq[Nth(n)]]
  BY DEF Reaped, kept, UpTo
<1> HIDE DEF Nth, C
<1>5. \A n \in 1..C : Nth(n) \in 1..Len(seq) /\ seq[Nth(n)] \in Approval
  BY <1>1, <1>3, ElementOfSeq
<1>6. Reaped(seq) \in Seq(Approval) /\ Len(Reaped(seq)) = C
  BY <1>2, <1>4, <1>5
<1> DEFINE place == [n \in 1..C |-> Nth(n)]
<1>7. place \in [1..C -> 1..Len(seq)]
  BY <1>1, <1>3
<1>8. \A n \in 1..C : Reaped(seq)[n] = seq[place[n]]
  BY <1>4
<1>9. \A m, n \in 1..C : place[m] = place[n] => m = n
  BY <1>3
<1> HIDE DEF place
<1> QED
  BY <1>6, <1>7, <1>8, <1>9

\* Taking one approval out leaves the others, each once.
LEMMA TakenPlaces ==
  ASSUME NEW seq \in Seq(Approval), NEW i \in 1..Len(seq)
  PROVE  \E place \in [1..Len(RemoveAt(seq, i)) -> 1..Len(seq)] :
           /\ RemoveAt(seq, i) \in Seq(Approval)
           /\ \A n \in 1..Len(RemoveAt(seq, i)) :
                RemoveAt(seq, i)[n] = seq[place[n]] /\ place[n] # i
           /\ \A m, n \in 1..Len(RemoveAt(seq, i)) : place[m] = place[n] => m = n
<1> DEFINE a == SubSeq(seq, 1, i - 1)
           b == SubSeq(seq, i + 1, Len(seq))
<1>1. Len(seq) \in Nat /\ \A j \in 1..Len(seq) : seq[j] \in Approval
  OBVIOUS
<1>2. /\ a \in Seq(Approval) /\ Len(a) = i - 1
      /\ \A j \in 1..(i - 1) : a[j] = seq[j]
  <2>1. \A j \in 1..(i - 1) : seq[j] \in Approval
    BY <1>1
  <2>2. /\ a \in Seq(Approval)
        /\ Len(a) = IF 1 <= i - 1 THEN (i - 1) - 1 + 1 ELSE 0
        /\ \A j \in 1..((i - 1) - 1 + 1) : a[j] = seq[1 + j - 1]
    BY <2>1, SubSeqProperties
  <2> QED
    BY <2>2
<1>3. /\ b \in Seq(Approval) /\ Len(b) = Len(seq) - i
      /\ \A j \in 1..(Len(seq) - i) : b[j] = seq[i + j]
  <2>1. \A j \in (i + 1)..Len(seq) : seq[j] \in Approval
    BY <1>1
  <2>2. /\ b \in Seq(Approval)
        /\ Len(b) = IF i + 1 <= Len(seq) THEN Len(seq) - (i + 1) + 1 ELSE 0
        /\ \A j \in 1..(Len(seq) - (i + 1) + 1) : b[j] = seq[(i + 1) + j - 1]
    BY <1>1, <2>1, SubSeqProperties
  <2> QED
    BY <1>1, <2>2
<1>4. RemoveAt(seq, i) = a \o b
  BY DEF RemoveAt
<1> HIDE DEF a, b
<1>5. /\ a \o b \in Seq(Approval) /\ Len(a \o b) = Len(seq) - 1
      /\ \A j \in 1..(Len(seq) - 1) : (a \o b)[j] = IF j <= i - 1 THEN a[j] ELSE b[j - (i - 1)]
  <2>1. /\ a \o b \in Seq(Approval) /\ Len(a \o b) = Len(a) + Len(b)
        /\ \A j \in 1..(Len(a) + Len(b)) :
             (a \o b)[j] = IF j <= Len(a) THEN a[j] ELSE b[j - Len(a)]
    BY <1>2, <1>3, ConcatProperties
  <2>2. Len(a) + Len(b) = Len(seq) - 1
    BY <1>1, <1>2, <1>3
  <2> QED
    BY <1>2, <2>1, <2>2
<1> DEFINE place == [n \in 1..(Len(seq) - 1) |-> IF n <= i - 1 THEN n ELSE n + 1]
<1>6. place \in [1..(Len(seq) - 1) -> 1..Len(seq)]
  BY <1>1
<1>7. \A n \in 1..(Len(seq) - 1) : (a \o b)[n] = seq[place[n]] /\ place[n] # i
  <2> SUFFICES ASSUME NEW n \in 1..(Len(seq) - 1)
               PROVE  (a \o b)[n] = seq[place[n]] /\ place[n] # i
    OBVIOUS
  <2>1. CASE n <= i - 1
    BY <1>1, <1>2, <1>5, <2>1
  <2>2. CASE ~(n <= i - 1)
    <3>1. n - (i - 1) \in 1..(Len(seq) - i) /\ i + (n - (i - 1)) = n + 1
      BY <1>1, <2>2
    <3>2. (a \o b)[n] = b[n - (i - 1)]
      BY <1>5, <2>2
    <3>3. b[n - (i - 1)] = seq[n + 1]
      BY <1>3, <3>1
    <3> QED
      BY <1>1, <2>2, <3>2, <3>3
  <2> QED
    BY <2>1, <2>2
<1>8. \A m, n \in 1..(Len(seq) - 1) : place[m] = place[n] => m = n
  BY <1>1
<1>9. PICK r : r = RemoveAt(seq, i)
  OBVIOUS
<1>10. r \in Seq(Approval) /\ Len(r) = Len(seq) - 1
  BY <1>4, <1>5, <1>9
<1>11. \A n \in 1..Len(r) : r[n] = seq[place[n]] /\ place[n] # i
  BY <1>4, <1>7, <1>9, <1>10
<1> HIDE DEF place
<1>12. \E p \in [1..Len(r) -> 1..Len(seq)] :
         /\ r \in Seq(Approval)
         /\ \A n \in 1..Len(r) : r[n] = seq[p[n]] /\ p[n] # i
         /\ \A m, n \in 1..Len(r) : p[m] = p[n] => m = n
  BY <1>6, <1>8, <1>10, <1>11
<1> QED
  BY <1>9, <1>12

-----------------------------------------------------------------------------
(* Grants: types, and what was let through. *)

GrantSpec == GrantInit /\ [][GrantNext]_grantVars

Judged  == {"reap", "consume", "challenge", "issue"}
Judging == [step : Judged, request : Request, policy : Policy, at : Nat,
            asker : Authority \cup {"nobody"}]
Grant   == [request : Request, authority : Authority \cup {"nobody"}, policy : Policy,
            expires : Nat]

\* A call that judges a request has found that the policy it read lets it through.
CallFits(c) ==
  /\ c.step = "approving" => c.approval \in Approval
  /\ c.step \in Judged => c \in Judging /\ Permits(c.policy, c.request.route, c.request.domains)

CallsFit == DOMAIN call = Thread /\ \A w \in Thread : CallFits(call[w])

\* A grant carries a policy that lets its request through.
GrantFits(g) == g \in Grant /\ Permits(g.policy, g.request.route, g.request.domains)

GrantsFit == DOMAIN grants = Token /\ \A t \in Token : grants[t] # None => GrantFits(grants[t])

GrantsType ==
  /\ entries \in [Secret -> Policy \cup {None}]
  /\ pending \in SUBSET Approval
  /\ approved \in Seq(Approval)
  /\ now \in Nat
  /\ next \in [challenge : Nat \ {0}, token : Nat \ {0}]
  /\ tally \in [uses : [Ids -> Nat], astray : BOOLEAN, redeemed : [Token -> Nat]]
  /\ CallsFit
  /\ GrantsFit

LEMMA Bounds ==
  /\ ApprovalTtl \in Nat /\ GrantTtl \in Nat /\ MaxChallenge \in Nat /\ MaxToken \in Nat
  BY GrantsAssumption

LEMMA IdleFits == CallFits(Idle)
  BY DEF CallFits, Idle, Judged

LEMMA GoesFits ==
  ASSUME CallsFit, NEW w \in Thread, NEW c, CallFits(c), Goes(w, c)
  PROVE  CallsFit'
<1>1. DOMAIN call' = Thread /\ \A v \in Thread : call'[v] = IF v = w THEN c ELSE call[v]
  BY DEF CallsFit, Goes
<1> QED
  BY <1>1 DEF CallsFit

LEMMA ReturnsFits ==
  ASSUME CallsFit, NEW w \in Thread, Returns(w) PROVE CallsFit'
  BY IdleFits, GoesFits DEF Returns

\* A judging call that goes on to its next step.
LEMMA StepFits ==
  ASSUME CallsFit, NEW w \in Thread, call[w].step \in Judged, NEW s \in Judged,
         call' = [call EXCEPT ![w].step = s]
  PROVE  CallsFit'
<1> DEFINE c == [call[w] EXCEPT !.step = s]
<1>1. call[w] \in Judging /\ Permits(call[w].policy, call[w].request.route, call[w].request.domains)
  BY DEF CallsFit, CallFits
<1>2. c \in Judging /\ c.policy = call[w].policy /\ c.request = call[w].request /\ c.step = s
  BY <1>1 DEF Judging
<1>3. CallFits(c)
  BY <1>1, <1>2 DEF CallFits, Judged
<1>4. Goes(w, c)
  BY DEF Goes
<1> QED
  BY <1>3, <1>4, GoesFits

LEMMA ReapingType ==
  ASSUME GrantsType
  PROVE  Reaped(approved) \in Seq(Approval) /\ Unexpired(pending) \in SUBSET Approval
  BY ReapedPlaces DEF GrantsType, Unexpired

LEMMA NewApproval ==
  ASSUME GrantsType, NEW q \in Request, NEW e \in Nat, next.challenge <= MaxChallenge
  PROVE  [id |-> next.challenge, request |-> q, expires |-> e] \in Approval
  BY Bounds DEF GrantsType, Approval, Ids

LEMMA ApprovingType ==
  ASSUME GrantsType, NEW w \in Thread, Approving(w) PROVE GrantsType'
<1>0. CallsFit /\ Reaped(approved) \in Seq(Approval) /\ Unexpired(pending) \in SUBSET Approval
  BY ReapingType DEF GrantsType
<1>1. ASSUME NEW c \in pending, GrantChallenge(w, c) PROVE GrantsType'
  <2>1. CASE c \in Unexpired(pending)
    <3>1. CallFits([step |-> "approving", approval |-> c])
      BY DEF CallFits, Judged, GrantsType
    <3>2. CallsFit'
      BY <1>0, <1>1, <2>1, <3>1, GoesFits DEF GrantChallenge
    <3> QED
      BY <1>0, <1>1, <3>2 DEF GrantChallenge, GrantsType, GrantsFit
  <2>2. CASE c \notin Unexpired(pending)
    BY <1>0, <1>1, <2>2 DEF GrantChallenge, GrantsType, GrantsFit, CallsFit
  <2> QED
    BY <2>1, <2>2
<1>2. ASSUME NEW q \in Request, ApproveRequest(w, q) PROVE GrantsType'
  <2> DEFINE a == [id |-> next.challenge, request |-> q, expires |-> now + ApprovalTtl]
  <2>1. now + ApprovalTtl \in Nat
    BY Bounds DEF GrantsType
  <2>2. a \in Approval
    BY <1>2, <2>1, NewApproval DEF ApproveRequest
  <2> HIDE DEF a
  <2>3. CallFits([step |-> "approving", approval |-> a])
    BY <2>2 DEF CallFits, Judged
  <2>4. CallsFit'
    BY <1>0, <1>2, <2>3, GoesFits DEF ApproveRequest, a
  <2>5. next' \in [challenge : Nat \ {0}, token : Nat \ {0}]
    BY <1>2 DEF ApproveRequest, GrantsType
  <2> QED
    BY <1>0, <1>2, <2>4, <2>5 DEF ApproveRequest, GrantsType, GrantsFit
<1>3. CASE Approved(w)
  <2>1. call[w].approval \in Approval
    BY <1>0, <1>3 DEF Approved, At, CallsFit, CallFits
  <2>2. approved' \in Seq(Approval)
    BY <1>3, <2>1 DEF Approved, GrantsType
  <2>3. CallsFit'
    BY <1>0, <1>3, ReturnsFits DEF Approved
  <2> QED
    BY <1>3, <2>2, <2>3 DEF Approved, GrantsType, GrantsFit
<1> QED
  BY <1>1, <1>2, <1>3 DEF Approving

\* The approval that is taken is one of those that fit.
LEMMA FirstFits ==
  ASSUME GrantsType, NEW q, Fitting(q) # {}
  PROVE  First(Fitting(q)) \in Fitting(q) /\ First(Fitting(q)) \in 1..Len(approved)
<1>1. Fitting(q) \in SUBSET (1..Len(approved)) /\ Len(approved) \in Nat
  BY DEF Fitting, GrantsType
<1> QED
  BY <1>1, FirstPlace

\* Two requests with one fingerprint are the same.
LEMMA SameFingerprint ==
  ASSUME NEW q \in Request, NEW r \in Request, Fingerprint(q) = Fingerprint(r)
  PROVE  SameRequest(q, r)
<1> DEFINE D(d) == IF d = NoDomain THEN One(<<>>) ELSE d
<1>1. /\ Fingerprint(q) = [q EXCEPT !.domains = D(q.domains)]
      /\ Fingerprint(r) = [r EXCEPT !.domains = D(r.domains)]
  BY DEF Fingerprint
<1>2. /\ Fingerprint(q).secret = q.secret /\ Fingerprint(r).secret = r.secret
      /\ Fingerprint(q).route = q.route /\ Fingerprint(r).route = r.route
      /\ Fingerprint(q).domains = D(q.domains) /\ Fingerprint(r).domains = D(r.domains)
  BY <1>1 DEF Request
<1>3. q.secret = r.secret /\ q.route = r.route /\ D(q.domains) = D(r.domains)
  BY <1>2
<1>4. q.domains = r.domains \/ {q.domains, r.domains} \subseteq {NoDomain, One(<<>>)}
  BY <1>3
<1>5. q.domains = r.domains => q = r
  BY <1>3 DEF Request
<1> QED
  BY <1>4, <1>5 DEF SameRequest

\* What consuming an approval does, when one fits.
LEMMA Consumed ==
  ASSUME GrantsType, NEW w \in Thread, Consume(w), Fitting(call[w].request) # {}
  PROVE  \E i \in 1..Len(approved), n \in Ids :
           /\ n = approved[i].id
           /\ approved' = RemoveAt(approved, i)
           /\ tally' = [tally EXCEPT !.uses[n] = @ + 1]
<1> DEFINE q == call[w].request
           i == First(Fitting(q))
<1>1. i \in Fitting(q) /\ i \in 1..Len(approved)
  BY FirstFits
<1>2. approved[i] \in Approval
  BY <1>1, ElementOfSeq DEF GrantsType
<1>3. q \in Request /\ approved[i].request \in Request /\ approved[i].id \in Ids
  BY <1>2 DEF Consume, At, GrantsType, CallsFit, CallFits, Judged, Judging, Approval
<1>4. Fingerprint(approved[i].request) = Fingerprint(q)
  BY <1>1 DEF Fitting
<1>5. SameRequest(approved[i].request, q)
  BY <1>3, <1>4, SameFingerprint
<1>6. /\ approved' = RemoveAt(approved, i)
      /\ tally' = [tally EXCEPT !.uses[approved[i].id] = @ + 1,
                                !.astray = @ \/ ~SameRequest(approved[i].request, q)]
  BY DEF Consume, TakesApproval
<1>7. (tally.astray \/ ~SameRequest(approved[i].request, q)) = tally.astray
  <2>1. tally.astray \in BOOLEAN
    BY DEF GrantsType
  <2> QED
    BY <1>5, <2>1
<1>8. tally' = [tally EXCEPT !.uses[approved[i].id] = @ + 1]
  <2>1. PICK n : n = approved[i].id
    OBVIOUS
  <2>2. tally' = [tally EXCEPT !.uses[n] = @ + 1, !.astray = tally.astray]
    BY <1>6, <1>7, <2>1
  <2> QED
    BY <2>1, <2>2 DEF GrantsType
<1> HIDE DEF i, q
<1> QED
  BY <1>1, <1>3, <1>6, <1>8

LEMMA FewerGrants ==
  ASSUME GrantsFit, DOMAIN grants' = Token,
         \A t \in Token : grants'[t] = None \/ grants'[t] = grants[t]
  PROVE  GrantsFit'
  BY DEF GrantsFit

LEMMA ReapedGrantsAre ==
  /\ DOMAIN ReapedGrants = Token
  /\ \A t \in Token : ReapedGrants[t] = None \/ ReapedGrants[t] = grants[t]
  BY DEF ReapedGrants

LEMMA WithoutAre ==
  ASSUME NEW T
  PROVE  /\ DOMAIN Without(T) = Token
         /\ \A t \in Token : Without(T)[t] = IF t \in T THEN None ELSE grants[t]
  BY DEF Without

LEMMA HandedType ==
  ASSUME GrantsType, NEW T
  PROVE  /\ Handed(T) \in [uses : [Ids -> Nat], astray : BOOLEAN, redeemed : [Token -> Nat]]
         /\ Handed(T).uses = tally.uses /\ Handed(T).astray = tally.astray
         /\ \A t \in Token : Handed(T).redeemed[t] =
              IF t \in T THEN tally.redeemed[t] + 1 ELSE tally.redeemed[t]
<1> DEFINE r == [t \in Token |-> IF t \in T THEN tally.redeemed[t] + 1 ELSE tally.redeemed[t]]
<1>1. tally \in [uses : [Ids -> Nat], astray : BOOLEAN, redeemed : [Token -> Nat]]
  BY DEF GrantsType
<1>2. r \in [Token -> Nat]
  BY <1>1
<1>3. Handed(T) = [tally EXCEPT !.redeemed = r]
  BY DEF Handed
<1>4. \A t \in Token : r[t] = IF t \in T THEN tally.redeemed[t] + 1 ELSE tally.redeemed[t]
  OBVIOUS
<1> HIDE DEF r
<1> QED
  BY <1>1, <1>2, <1>3, <1>4

\* Evaluating a request: what it leaves behind was let through by a policy.
LEMMA EvaluatingType ==
  ASSUME GrantsType, NEW w \in Thread, Evaluating(w) PROVE GrantsType'
<1>0. CallsFit /\ Reaped(approved) \in Seq(Approval) /\ Unexpired(pending) \in SUBSET Approval
  BY ReapingType DEF GrantsType
<1>1. ASSUME NEW q \in Request, NEW asker \in Authority \cup {"nobody"}, Evaluate(w, q, asker)
      PROVE  GrantsType'
  <2> DEFINE p == entries[q.secret]
  <2>1. p \in Policy
    BY <1>1 DEF Evaluate, GrantsType, Request
  <2>2. PICK c : c = [step |-> IF p.approval THEN "reap" ELSE "issue",
                      request |-> q, policy |-> p, at |-> now, asker |-> asker]
    OBVIOUS
  <2>3. c \in Judging /\ c.policy = p /\ c.request = q
    <3>1. (IF p.approval THEN "reap" ELSE "issue") \in Judged
      BY DEF Judged
    <3> QED
      BY <2>1, <2>2, <3>1 DEF Judging, GrantsType
  <2>4. Permits(p, q.route, q.domains) /\ Goes(w, c)
    BY <1>1, <2>2 DEF Evaluate
  <2>5. CallFits(c)
    BY <2>3, <2>4 DEF CallFits, Judged, Judging
  <2>6. CallsFit'
    BY <1>0, <2>4, <2>5, GoesFits
  <2> QED
    BY <1>1, <2>6 DEF Evaluate, GrantsType, GrantsFit
<1>2. CASE Reap(w)
  <2>1. call[w].step \in Judged /\ "consume" \in Judged
    BY <1>2 DEF Reap, At, Judged
  <2>2. call' = [call EXCEPT ![w].step = "consume"]
    BY <1>2 DEF Reap
  <2>3. CallsFit'
    BY <1>0, <2>1, <2>2, StepFits
  <2> QED
    BY <1>0, <1>2, <2>3 DEF Reap, GrantsType, GrantsFit
<1>3. CASE Consume(w)
  <2>1. call[w].step \in Judged /\ "challenge" \in Judged /\ "issue" \in Judged
    BY <1>3 DEF Consume, At, Judged
  <2>2. CallsFit'
    <3>1. \/ Returns(w)
          \/ call' = [call EXCEPT ![w].step = "challenge"]
          \/ call' = [call EXCEPT ![w].step = "issue"]
      BY <1>3 DEF Consume
    <3> QED
      BY <1>0, <2>1, <3>1, StepFits, ReturnsFits
  <2>3. approved' \in Seq(Approval)
        /\ tally' \in [uses : [Ids -> Nat], astray : BOOLEAN, redeemed : [Token -> Nat]]
    <3>1. CASE Fitting(call[w].request) = {}
      BY <1>3, <3>1 DEF Consume, GrantsType
    <3>2. CASE Fitting(call[w].request) # {}
      <4>1. PICK i \in 1..Len(approved), n \in Ids :
              /\ approved' = RemoveAt(approved, i)
              /\ tally' = [tally EXCEPT !.uses[n] = @ + 1]
        BY <1>3, <3>2, Consumed
      <4>2. RemoveAt(approved, i) \in Seq(Approval)
        BY TakenPlaces DEF GrantsType
      <4>3. tally' \in [uses : [Ids -> Nat], astray : BOOLEAN, redeemed : [Token -> Nat]]
        <5>1. tally \in [uses : [Ids -> Nat], astray : BOOLEAN, redeemed : [Token -> Nat]]
          BY DEF GrantsType
        <5>2. PICK u : u = [tally.uses EXCEPT ![n] = @ + 1]
          OBVIOUS
        <5>3. u \in [Ids -> Nat]
          BY <5>1, <5>2
        <5>4. tally' = [tally EXCEPT !.uses = u]
          BY <4>1, <5>1, <5>2
        <5> QED
          BY <5>1, <5>3, <5>4
      <4> QED
        BY <4>1, <4>2, <4>3
    <3> QED
      BY <3>1, <3>2
  <2> QED
    BY <1>3, <2>2, <2>3 DEF Consume, GrantsType, GrantsFit
<1>4. CASE Challenge(w)
  <2> DEFINE a == [id |-> next.challenge, request |-> call[w].request,
                   expires |-> call[w].at + ApprovalTtl]
  <2>1. call[w] \in Judging
    BY <1>0, <1>4 DEF Challenge, At, CallsFit, CallFits, Judged
  <2>2. call[w].request \in Request /\ call[w].at + ApprovalTtl \in Nat
    BY <2>1, Bounds DEF Judging
  <2>3. a \in Approval
    BY <1>4, <2>2, NewApproval DEF Challenge
  <2>4. pending' = Unexpired(pending) \cup {a}
    BY <1>4 DEF Challenge
  <2> HIDE DEF a
  <2>5. CallsFit'
    BY <1>0, <1>4, ReturnsFits DEF Challenge
  <2>6. next' \in [challenge : Nat \ {0}, token : Nat \ {0}]
    BY <1>4 DEF Challenge, GrantsType
  <2> QED
    BY <1>0, <1>4, <2>3, <2>4, <2>5, <2>6 DEF Challenge, GrantsType, GrantsFit
<1>5. CASE IssueGrant(w)
  <2> DEFINE c == call[w]
             g == [request |-> c.request, authority |-> c.asker, policy |-> c.policy,
                   expires |-> now + GrantTtl]
  <2>1. c \in Judging /\ Permits(c.policy, c.request.route, c.request.domains)
    BY <1>0, <1>5 DEF IssueGrant, At, CallsFit, CallFits, Judged
  <2>2. GrantFits(g)
    <3>1. g \in Grant /\ g.policy = c.policy /\ g.request = c.request
      BY <2>1, Bounds DEF Judging, Grant, GrantsType
    <3> QED
      BY <2>1, <3>1 DEF GrantFits
  <2>3. CallsFit'
    BY <1>0, <1>5, ReturnsFits DEF IssueGrant
  <2>4. GrantsFit' /\ next' \in [challenge : Nat \ {0}, token : Nat \ {0}]
    <3>1. CASE entries[c.request.secret] = None
      BY <1>5, <3>1 DEF IssueGrant, GrantsType, GrantsFit
    <3>2. CASE entries[c.request.secret] # None
      <4>1. grants' = [ReapedGrants EXCEPT ![next.token] = g]
        BY <1>5, <3>2 DEF IssueGrant
      <4> HIDE DEF g
      <4>2. DOMAIN grants' = Token /\
            \A t \in Token : grants'[t] = g \/ grants'[t] = None \/ grants'[t] = grants[t]
        BY <4>1, ReapedGrantsAre
      <4>3. GrantsFit'
        BY <2>2, <4>2 DEF GrantsType, GrantsFit
      <4>4. next' \in [challenge : Nat \ {0}, token : Nat \ {0}]
        <5>1. next' = [next EXCEPT !.token = @ + 1]
          BY <1>5, <3>2 DEF IssueGrant
        <5>2. next \in [challenge : Nat \ {0}, token : Nat \ {0}]
          BY DEF GrantsType
        <5> QED
          BY <5>1, <5>2
      <4> QED
        BY <4>3, <4>4
    <3> QED
      BY <3>1, <3>2
  <2> QED
    BY <1>5, <2>3, <2>4 DEF IssueGrant, GrantsType
<1>6. ASSUME NEW s \in Secret, ReadLimit(w, s) PROVE GrantsType'
  <2>1. PICK c : c = [step |-> "record", secret |-> s, limit |-> entries[s].limit, day |-> Today]
    OBVIOUS
  <2>2. CallFits(c) /\ Goes(w, c)
    BY <1>6, <2>1 DEF CallFits, Judged, ReadLimit
  <2>3. CallsFit'
    BY <1>0, <2>2, GoesFits
  <2> QED
    BY <1>6, <2>3 DEF ReadLimit, GrantsType, GrantsFit
<1>7. CASE RecordUse(w)
  <2>1. CallsFit'
    BY <1>0, <1>7, ReturnsFits DEF RecordUse
  <2> QED
    BY <1>7, <2>1 DEF RecordUse, GrantsType, GrantsFit
<1> QED
  BY <1>1, <1>2, <1>3, <1>4, <1>5, <1>6, <1>7 DEF Evaluating

\* What becomes of the grants when one or more are taken: those that are taken
\* stood in the table.
LEMMA BatchTaken ==
  ASSUME NEW w \in Thread, BatchRedeemed(w)
  PROVE  \/ \E T \in SUBSET Issued : grants' = Without(T) /\ tally' = Handed(T)
         \/ (\E T : grants' = Without(T) \/ grants' = grants) /\ tally' = tally
<1> DEFINE c == call[w]
           Expired(t) == grants[t] # None /\ grants[t].expires <= c.at
           Stands(x) == /\ grants[x.token] # None /\ ~Expired(x.token)
                        /\ Binding(grants[x.token]) = x.binding
           failing == {i \in DOMAIN c.batch : ~Stands(c.batch[i])}
           T == {c.batch[i].token : i \in DOMAIN c.batch}
<1>1. IF failing = {} THEN grants' = Without(T) /\ tally' = Handed(T)
      ELSE /\ grants' = IF Expired(c.batch[First(failing)].token)
                        THEN Without({t \in Token : Expired(t)}) ELSE grants
           /\ tally' = tally
  BY DEF BatchRedeemed
<1>2. CASE failing = {}
  <2> DEFINE U == T \cap Token
  <2>1. \A t \in U : grants[t] # None
    BY <1>2
  <2>2. U \in SUBSET Issued
    BY <2>1 DEF Issued
  <2>3. Without(T) = Without(U) /\ Handed(T) = Handed(U)
    BY DEF Without, Handed
  <2> HIDE DEF U
  <2> QED
    BY <1>1, <1>2, <2>2, <2>3
<1>3. CASE failing # {}
  <2> HIDE DEF failing
  <2>1. grants' = Without({t \in Token : Expired(t)}) \/ grants' = grants
    BY <1>1, <1>3
  <2> QED
    BY <1>1, <1>3, <2>1
<1> QED
  BY <1>2, <1>3

LEMMA RedeemingType ==
  ASSUME GrantsType, NEW w \in Thread, Redeeming(w) PROVE GrantsType'
<1>0. CallsFit /\ GrantsFit
  BY DEF GrantsType
<1>1. ASSUME NEW t \in Token, Redeem(w, t) PROVE GrantsType'
  <2>1. CallFits([step |-> "redeem", token |-> t])
    BY DEF CallFits, Judged
  <2>2. CallsFit'
    BY <1>0, <1>1, <2>1, GoesFits DEF Redeem
  <2>3. GrantsFit'
    BY <1>0, <1>1, ReapedGrantsAre, FewerGrants DEF Redeem
  <2> QED
    BY <1>1, <2>2, <2>3 DEF Redeem, GrantsType
<1>2. CASE Redeemed(w)
  <2> DEFINE T == {call[w].token} \cap Issued
  <2>1. grants' = Without(T) /\ tally' = Handed(T)
    BY <1>2 DEF Redeemed
  <2> HIDE DEF T
  <2>2. GrantsFit'
    BY <1>0, <2>1, WithoutAre, FewerGrants
  <2>3. CallsFit'
    BY <1>0, <1>2, ReturnsFits DEF Redeemed
  <2> QED
    BY <1>2, <2>1, <2>2, <2>3, HandedType DEF Redeemed, GrantsType
<1>3. ASSUME NEW batch, RedeemBatch(w, batch) PROVE GrantsType'
  <2>1. PICK c : c = [step |-> "batch", batch |-> batch, at |-> now]
    OBVIOUS
  <2>2. CallFits(c) /\ Goes(w, c)
    BY <1>3, <2>1 DEF CallFits, Judged, RedeemBatch
  <2>3. CallsFit'
    BY <1>0, <2>2, GoesFits
  <2> QED
    BY <1>3, <2>3 DEF RedeemBatch, GrantsType, GrantsFit
<1>4. CASE BatchRedeemed(w)
  <2>1. CallsFit'
    BY <1>0, <1>4, ReturnsFits DEF BatchRedeemed
  <2>2. GrantsFit' /\ tally' \in [uses : [Ids -> Nat], astray : BOOLEAN, redeemed : [Token -> Nat]]
    <3>1. CASE \E T \in SUBSET Issued : grants' = Without(T) /\ tally' = Handed(T)
      <4>1. PICK T \in SUBSET Issued : grants' = Without(T) /\ tally' = Handed(T)
        BY <3>1
      <4>2. GrantsFit'
        BY <1>0, <4>1, WithoutAre, FewerGrants
      <4> QED
        BY <4>1, <4>2, HandedType
    <3>2. CASE (\E T : grants' = Without(T) \/ grants' = grants) /\ tally' = tally
      <4>1. PICK T : grants' = Without(T) \/ grants' = grants
        BY <3>2
      <4>2. GrantsFit'
        <5>1. DOMAIN grants' = Token /\ \A t \in Token : grants'[t] = None \/ grants'[t] = grants[t]
          BY <1>0, <4>1, WithoutAre DEF GrantsFit
        <5> QED
          BY <1>0, <5>1, FewerGrants
      <4> QED
        BY <3>2, <4>2 DEF GrantsType
    <3> QED
      BY <1>4, <3>1, <3>2, BatchTaken
  <2> QED
    BY <1>4, <2>1, <2>2 DEF BatchRedeemed, GrantsType
<1> QED
  BY <1>1, <1>2, <1>3, <1>4 DEF Redeeming

LEMMA GrantsTypeNext ==
  GrantsType /\ [GrantNext]_grantVars => GrantsType'
<1> SUFFICES ASSUME GrantsType, [GrantNext]_grantVars PROVE GrantsType'
  OBVIOUS
<1>1. ASSUME NEW s \in Secret, NEW p \in Policy \cup {None}, Provision(s, p) PROVE GrantsType'
  BY <1>1 DEF Provision, GrantsType, GrantsFit, CallsFit
<1>2. CASE Tick
  BY <1>2 DEF Tick, GrantsType, GrantsFit, CallsFit
<1>3. CASE ListPending
  BY <1>3, ReapingType DEF ListPending, GrantsType, GrantsFit, CallsFit
<1>4. ASSUME NEW w \in Thread, Approving(w) \/ Evaluating(w) \/ Redeeming(w) PROVE GrantsType'
  BY <1>4, ApprovingType, EvaluatingType, RedeemingType
<1>5. ASSUME NEW T \in SUBSET Token, Discard(T) PROVE GrantsType'
  <2>1. GrantsFit'
    BY <1>5, WithoutAre, FewerGrants DEF Discard, GrantsType
  <2> QED
    BY <1>5, <2>1 DEF Discard, GrantsType, CallsFit
<1>6. CASE UNCHANGED grantVars
  BY <1>6 DEF grantVars, GrantsType, GrantsFit, CallsFit
<1> QED
  BY <1>1, <1>2, <1>3, <1>4, <1>5, <1>6 DEF GrantNext

LEMMA GrantsTypeInit == GrantInit => GrantsType
<1> SUFFICES ASSUME GrantInit PROVE GrantsType
  OBVIOUS
<1>1. CallsFit
  BY IdleFits DEF GrantInit, CallsFit
<1>2. GrantsFit
  BY DEF GrantInit, GrantsFit
<1>3. tally \in [uses : [Ids -> Nat], astray : BOOLEAN, redeemed : [Token -> Nat]]
  BY DEF GrantInit
<1>4. pending \in SUBSET Approval /\ approved \in Seq(Approval)
  BY DEF GrantInit
<1> QED
  BY <1>1, <1>2, <1>3, <1>4 DEF GrantInit, GrantsType

\* Whatever sites a grant lets its holder reach, the policy it was issued under
\* covers: invariant WithinReach.
THEOREM WithinReachHolds == GrantSpec => []WithinReach
<1>1. GrantsType => WithinReach
  <2> SUFFICES ASSUME GrantsType, NEW t \in Issued
               PROVE  Reach(grants[t].policy, grants[t].request.route, grants[t].request.domains)
    BY DEF WithinReach, Reach
  <2>1. GrantFits(grants[t])
    BY DEF Issued, GrantsType, GrantsFit
  <2>2. /\ grants[t].policy \in Policy /\ grants[t].request.domains \in Requested
        /\ Permits(grants[t].policy, grants[t].request.route, grants[t].request.domains)
    BY <2>1 DEF GrantFits, Grant, Request
  <2> QED
    BY <2>2, PermittedIsWithinReach
<1>2. GrantSpec => []GrantsType
  BY GrantsTypeInit, GrantsTypeNext, PTL DEF GrantSpec
<1> QED
  BY <1>1, <1>2, PTL

-----------------------------------------------------------------------------
(* Grants: an approval is in one place at a time, and a grant in none once it *)
(* was redeemed.                                                              *)

IdsOf(seq)    == {seq[i].id : i \in 1..Len(seq)}
Distinct(seq) == \A i, j \in 1..Len(seq) : seq[i].id = seq[j].id => i = j
Askers        == {w \in Thread : call[w].step = "approving"}
PendingIds    == {c.id : c \in pending}
CallIds       == {call[w].approval.id : w \in Askers}
Live          == PendingIds \cup IdsOf(approved) \cup CallIds

\* No two challenges, approvals or calls about to give one have an identifier in
\* common.
Single ==
  /\ Distinct(approved)
  /\ \A c, d \in pending : c.id = d.id => c = d
  /\ \A v, w \in Askers : call[v].approval.id = call[w].approval.id => v = w
  /\ PendingIds \cap IdsOf(approved) = {}
  /\ PendingIds \cap CallIds = {}
  /\ IdsOf(approved) \cap CallIds = {}

\* What can still be used was issued and was not used.
Unused ==
  /\ \A n \in Live : n < next.challenge /\ tally.uses[n] = 0
  /\ \A n \in Ids : tally.uses[n] <= 1 /\ (n >= next.challenge => tally.uses[n] = 0)
  /\ ~tally.astray

\* A grant that can still be redeemed was issued and was not redeemed.
Unredeemed ==
  \A t \in Token :
    /\ tally.redeemed[t] <= 1
    /\ grants[t] # None => tally.redeemed[t] = 0
    /\ t >= next.token => grants[t] = None /\ tally.redeemed[t] = 0

SpentInv == GrantsType /\ Single /\ Unused /\ Unredeemed

LEMMA ReapedIds ==
  ASSUME NEW seq \in Seq(Approval), Distinct(seq)
  PROVE  Distinct(Reaped(seq)) /\ IdsOf(Reaped(seq)) \in SUBSET IdsOf(seq)
<1>1. PICK place \in [1..Len(Reaped(seq)) -> 1..Len(seq)] :
        /\ \A n \in 1..Len(Reaped(seq)) : Reaped(seq)[n] = seq[place[n]]
        /\ \A m, n \in 1..Len(Reaped(seq)) : place[m] = place[n] => m = n
  BY ReapedPlaces
<1>2. \A n \in 1..Len(Reaped(seq)) : place[n] \in 1..Len(seq)
  BY <1>1
<1>3. Distinct(Reaped(seq))
  <2> SUFFICES ASSUME NEW m \in 1..Len(Reaped(seq)), NEW n \in 1..Len(Reaped(seq)),
                      Reaped(seq)[m].id = Reaped(seq)[n].id
               PROVE  m = n
    BY DEF Distinct
  <2>1. seq[place[m]].id = seq[place[n]].id
    BY <1>1
  <2> QED
    BY <1>1, <1>2, <2>1 DEF Distinct
<1>4. ASSUME NEW n \in 1..Len(Reaped(seq)) PROVE Reaped(seq)[n].id \in IdsOf(seq)
  BY <1>1, <1>2 DEF IdsOf
<1> QED
  BY <1>3, <1>4 DEF IdsOf

LEMMA TakenIds ==
  ASSUME NEW seq \in Seq(Approval), Distinct(seq), NEW i \in 1..Len(seq)
  PROVE  /\ Distinct(RemoveAt(seq, i))
         /\ IdsOf(RemoveAt(seq, i)) \in SUBSET (IdsOf(seq) \ {seq[i].id})
<1>1. PICK place \in [1..Len(RemoveAt(seq, i)) -> 1..Len(seq)] :
        /\ \A n \in 1..Len(RemoveAt(seq, i)) :
             RemoveAt(seq, i)[n] = seq[place[n]] /\ place[n] # i
        /\ \A m, n \in 1..Len(RemoveAt(seq, i)) : place[m] = place[n] => m = n
  BY TakenPlaces
<1>2. \A n \in 1..Len(RemoveAt(seq, i)) : place[n] \in 1..Len(seq)
  BY <1>1
<1>3. Distinct(RemoveAt(seq, i))
  <2> SUFFICES ASSUME NEW m \in 1..Len(RemoveAt(seq, i)), NEW n \in 1..Len(RemoveAt(seq, i)),
                      RemoveAt(seq, i)[m].id = RemoveAt(seq, i)[n].id
               PROVE  m = n
    BY DEF Distinct
  <2>1. seq[place[m]].id = seq[place[n]].id
    BY <1>1
  <2> QED
    BY <1>1, <1>2, <2>1 DEF Distinct
<1>4. ASSUME NEW n \in 1..Len(RemoveAt(seq, i))
      PROVE  RemoveAt(seq, i)[n].id \in IdsOf(seq) \ {seq[i].id}
  <2>1. RemoveAt(seq, i)[n].id = seq[place[n]].id /\ place[n] # i
    BY <1>1
  <2>2. place[n] \in 1..Len(seq)
    BY <1>2
  <2>3. seq[place[n]].id # seq[i].id
    BY <2>1, <2>2 DEF Distinct
  <2>4. seq[place[n]].id \in IdsOf(seq)
    BY <2>2 DEF IdsOf
  <2> QED
    BY <2>1, <2>3, <2>4
<1> QED
  BY <1>3, <1>4 DEF IdsOf

LEMMA AppendedIds ==
  ASSUME NEW seq \in Seq(Approval), Distinct(seq), NEW a \in Approval, a.id \notin IdsOf(seq)
  PROVE  Distinct(Append(seq, a)) /\ IdsOf(Append(seq, a)) = IdsOf(seq) \cup {a.id}
<1>1. PICK l \in Nat : l = Len(seq)
  OBVIOUS
<1>2. PICK s : s = Append(seq, a)
  OBVIOUS
<1>3. Len(s) = l + 1 /\ s[l + 1] = a /\ \A i \in 1..l : s[i] = seq[i]
  BY <1>1, <1>2
<1>4. \A i \in 1..(l + 1) : i \in 1..l \/ i = l + 1
  BY <1>1
<1>5. Distinct(s)
  BY <1>1, <1>3, <1>4 DEF Distinct, IdsOf
<1>6. IdsOf(s) = IdsOf(seq) \cup {a.id}
  BY <1>1, <1>3, <1>4 DEF IdsOf
<1> QED
  BY <1>2, <1>5, <1>6

\* No call begins to give an approval.
Calm == \A v \in Thread : call'[v].step = "approving" => call[v].step = "approving" /\ call'[v] = call[v]

LEMMA CalmGoes ==
  ASSUME GrantsType, NEW w \in Thread, NEW c, c.step # "approving", Goes(w, c)
  PROVE  Calm
  BY DEF GrantsType, CallsFit, Goes, Calm

LEMMA CalmReturns ==
  ASSUME GrantsType, NEW w \in Thread, Returns(w) PROVE Calm
  BY CalmGoes DEF Returns, Idle

LEMMA CalmStep ==
  ASSUME GrantsType, NEW w \in Thread, call[w].step \in Judged, NEW s, s # "approving",
         call' = [call EXCEPT ![w].step = s]
  PROVE  Calm
<1>1. call[w] \in Judging
  BY DEF GrantsType, CallsFit, CallFits
<1>2. PICK c : c = [call[w] EXCEPT !.step = s]
  OBVIOUS
<1>3. c.step = s
  BY <1>1, <1>2 DEF Judging
<1>4. Goes(w, c)
  BY <1>2 DEF Goes
<1> QED
  BY <1>3, <1>4, CalmGoes

LEMMA CalmSteps ==
  ASSUME GrantsType, NEW w \in Thread, Evaluating(w) \/ Redeeming(w)
  PROVE  Calm
<1>1. ASSUME NEW q \in Request, NEW asker \in Authority \cup {"nobody"}, Evaluate(w, q, asker)
      PROVE  Calm
  <2> DEFINE p == entries[q.secret]
  <2>1. PICK s : s = IF p.approval THEN "reap" ELSE "issue"
    OBVIOUS
  <2>2. PICK c : c = [step |-> s, request |-> q, policy |-> p, at |-> now, asker |-> asker]
    OBVIOUS
  <2>3. Goes(w, c) /\ c.step # "approving"
    BY <1>1, <2>1, <2>2 DEF Evaluate
  <2> QED
    BY <2>3, CalmGoes
<1>2. ASSUME Reap(w) \/ Consume(w) PROVE Calm
  <2>1. call[w].step \in Judged
    BY <1>2 DEF Reap, Consume, At, Judged
  <2>2. \/ Returns(w)
        \/ call' = [call EXCEPT ![w].step = "consume"]
        \/ call' = [call EXCEPT ![w].step = "challenge"]
        \/ call' = [call EXCEPT ![w].step = "issue"]
    BY <1>2 DEF Reap, Consume
  <2> QED
    BY <2>1, <2>2, CalmReturns, CalmStep
<1>3. ASSUME Challenge(w) \/ IssueGrant(w) \/ RecordUse(w) \/ Redeemed(w) \/ BatchRedeemed(w)
      PROVE  Calm
  BY <1>3, CalmReturns DEF Challenge, IssueGrant, RecordUse, Redeemed, BatchRedeemed
<1>4. ASSUME NEW s \in Secret, ReadLimit(w, s) PROVE Calm
  BY <1>4, CalmGoes DEF ReadLimit
<1>5. ASSUME NEW t \in Token, Redeem(w, t) PROVE Calm
  BY <1>5, CalmGoes DEF Redeem
<1>6. ASSUME NEW batch, RedeemBatch(w, batch) PROVE Calm
  BY <1>6, CalmGoes DEF RedeemBatch
<1> QED
  BY <1>1, <1>2, <1>3, <1>4, <1>5, <1>6 DEF Evaluating, Redeeming

\* Fewer approvals, and no new call that gives one.
LEMMA FewerLive ==
  ASSUME Single, pending' \in SUBSET pending, Distinct(approved'),
         IdsOf(approved') \in SUBSET IdsOf(approved), Calm
  PROVE  Single' /\ Live' \in SUBSET Live /\ PendingIds' \in SUBSET PendingIds
         /\ CallIds' \in SUBSET CallIds
<1>1. PendingIds' \in SUBSET PendingIds
  BY DEF PendingIds
<1>2. \A v \in Askers' : v \in Askers /\ call'[v] = call[v]
  BY DEF Askers, Calm
<1>3. CallIds' \in SUBSET CallIds
  BY <1>2 DEF CallIds
<1>4. Distinct(approved)' /\ IdsOf(approved)' \in SUBSET IdsOf(approved)
  BY DEF Distinct, IdsOf
<1>5. Single'
  BY <1>1, <1>2, <1>3, <1>4 DEF Single
<1>6. Live' \in SUBSET Live
  BY <1>1, <1>3, <1>4 DEF Live
<1> QED
  BY <1>1, <1>3, <1>5, <1>6

LEMMA ReapingLive ==
  ASSUME GrantsType, Single
  PROVE  Distinct(Reaped(approved)) /\ IdsOf(Reaped(approved)) \in SUBSET IdsOf(approved)
  BY ReapedIds DEF GrantsType, Single

\* The identifiers of approvals are those of the model.
LEMMA LiveIds ==
  ASSUME GrantsType PROVE Live \in SUBSET Ids
<1>1. \A i \in 1..Len(approved) : approved[i] \in Approval
  BY ElementOfSeq DEF GrantsType
<1>2. \A w \in Askers : call[w].approval \in Approval
  BY DEF Askers, GrantsType, CallsFit, CallFits
<1>3. \A c \in pending : c \in Approval
  BY DEF GrantsType
<1> QED
  BY <1>1, <1>2, <1>3 DEF Live, PendingIds, IdsOf, CallIds, Approval

LEMMA StillUnused ==
  ASSUME Unused, Live' \in SUBSET Live, next'.challenge = next.challenge,
         tally'.uses = tally.uses, tally'.astray = tally.astray
  PROVE  Unused'
  BY DEF Unused

\* A step that neither asks for an approval nor uses one.
LEMMA CalmStepKeeps ==
  ASSUME GrantsType, Single, Unused, Calm, pending' \in SUBSET pending,
         approved' = approved \/ approved' = Reaped(approved),
         next'.challenge = next.challenge,
         tally'.uses = tally.uses, tally'.astray = tally.astray
  PROVE  Single' /\ Unused'
<1>1. Distinct(approved') /\ IdsOf(approved') \in SUBSET IdsOf(approved)
  BY ReapingLive DEF Single
<1>2. Single' /\ Live' \in SUBSET Live
  BY <1>1, FewerLive
<1> QED
  BY <1>2, StillUnused

\* An approval that is asked for has an identifier of its own.
LEMMA AskedUnused ==
  ASSUME GrantsType, Unused, Live' \in SUBSET (Live \cup {next.challenge}),
         next.challenge <= MaxChallenge,
         next' = [next EXCEPT !.challenge = @ + 1], tally' = tally
  PROVE  Unused'
<1>1. next.challenge \in Ids /\ next'.challenge = next.challenge + 1
  BY Bounds DEF GrantsType, Ids
<1>2. Live \in SUBSET Ids /\ Ids \in SUBSET Int
  BY LiveIds DEF Ids
<1>3. tally.uses[next.challenge] = 0
  BY <1>1, <1>2 DEF Unused
<1>4. \A n \in Live' : n < next'.challenge /\ tally'.uses[n] = 0
  BY <1>1, <1>2, <1>3 DEF Unused
<1>5. \A n \in Ids : n >= next'.challenge => n >= next.challenge
  BY <1>1, <1>2
<1> QED
  BY <1>4, <1>5 DEF Unused

\* A challenge that is granted moves from the table to the call.
LEMMA GrantChallengeSingle ==
  ASSUME GrantsType, Single, Unused, NEW w \in Thread, NEW c \in pending, GrantChallenge(w, c)
  PROVE  Single' /\ Unused'
<1>0. /\ Distinct(Reaped(approved)) /\ IdsOf(Reaped(approved)) \in SUBSET IdsOf(approved)
      /\ approved' = Reaped(approved) /\ pending' = Unexpired(pending) \ {c}
      /\ pending' \in SUBSET pending
  BY ReapingLive DEF GrantChallenge, Unexpired
<1>1. next' = next /\ tally' = tally
  BY DEF GrantChallenge
<1>2. CASE c \notin Unexpired(pending)
  <2>1. Calm
    BY <1>2 DEF GrantChallenge, Calm
  <2> QED
    BY <1>0, <1>1, <2>1, CalmStepKeeps
<1>3. CASE c \in Unexpired(pending)
  <2>1. Goes(w, [step |-> "approving", approval |-> c]) /\ w \notin Askers
    BY <1>3 DEF GrantChallenge, At, Askers
  <2>2. \A v \in Thread : call'[v] = IF v = w THEN [step |-> "approving", approval |-> c] ELSE call[v]
    BY <2>1 DEF Goes, GrantsType, CallsFit
  <2>3. /\ call'[w].approval = c /\ Askers' = Askers \cup {w}
        /\ \A v \in Askers : call'[v] = call[v]
    BY <2>1, <2>2 DEF Askers
  <2>4. CallIds' = CallIds \cup {c.id}
    BY <2>3 DEF CallIds
  <2>5. c.id \in PendingIds /\ c.id \notin IdsOf(approved) /\ c.id \notin CallIds
    BY DEF Single, PendingIds
  <2>6. PendingIds' \in SUBSET (PendingIds \ {c.id})
    <3>1. \A d \in pending' : d \in pending /\ d # c
      BY <1>0
    <3> QED
      BY <3>1 DEF PendingIds, Single
  <2>7. Distinct(approved)' /\ IdsOf(approved)' \in SUBSET IdsOf(approved)
    BY <1>0 DEF Distinct, IdsOf
  <2>8. \A u, v \in Askers' : call'[u].approval.id = call'[v].approval.id => u = v
    <3>1. \A v \in Askers : call'[v].approval.id # c.id /\ call'[v] = call[v]
      BY <2>3, <2>5 DEF CallIds
    <3> QED
      BY <2>3, <3>1 DEF Single
  <2>9. \A d, e \in pending' : d.id = e.id => d = e
    BY <1>0 DEF Single
  <2>10. Single'
    BY <2>4, <2>5, <2>6, <2>7, <2>8, <2>9 DEF Single
  <2>11. Live' \in SUBSET Live
    BY <2>4, <2>5, <2>6, <2>7 DEF Live
  <2> QED
    BY <1>1, <2>10, <2>11, StillUnused
<1> QED
  BY <1>2, <1>3

\* An approval asked for without a challenge.
LEMMA ApproveRequestSingle ==
  ASSUME GrantsType, Single, Unused, NEW w \in Thread, NEW q \in Request, ApproveRequest(w, q)
  PROVE  Single' /\ Unused'
<1> DEFINE c == [id |-> next.challenge, request |-> q, expires |-> now + ApprovalTtl]
<1>0. /\ Distinct(Reaped(approved)) /\ IdsOf(Reaped(approved)) \in SUBSET IdsOf(approved)
      /\ approved' = Reaped(approved) /\ pending' \in SUBSET pending
  BY ReapingLive DEF ApproveRequest, Unexpired
<1>1. PICK a : a = c
  OBVIOUS
<1>2. a.id = next.challenge
  BY <1>1
<1>3. Goes(w, [step |-> "approving", approval |-> a]) /\ w \notin Askers
  BY <1>1 DEF ApproveRequest, At, Askers
<1>4. \A v \in Thread : call'[v] = IF v = w THEN [step |-> "approving", approval |-> a] ELSE call[v]
  BY <1>3 DEF Goes, GrantsType, CallsFit
<1>5. /\ call'[w].approval = a /\ Askers' = Askers \cup {w}
      /\ \A v \in Askers : call'[v] = call[v]
  BY <1>3, <1>4 DEF Askers
<1>6. CallIds' = CallIds \cup {next.challenge}
  BY <1>2, <1>5 DEF CallIds
<1>7. next.challenge \notin Live
  BY LiveIds DEF Unused, GrantsType, Ids
<1>8. PendingIds' \in SUBSET PendingIds
  BY <1>0 DEF PendingIds
<1>9. Distinct(approved)' /\ IdsOf(approved)' \in SUBSET IdsOf(approved)
  BY <1>0 DEF Distinct, IdsOf
<1>10. \A u, v \in Askers' : call'[u].approval.id = call'[v].approval.id => u = v
  <2>1. \A v \in Askers : call'[v].approval.id # next.challenge /\ call'[v] = call[v]
    BY <1>5, <1>7 DEF CallIds, Live
  <2> QED
    BY <1>2, <1>5, <2>1 DEF Single
<1>11. Single'
  <2>1. \A d, e \in pending' : d.id = e.id => d = e
    BY <1>0 DEF Single
  <2> QED
    BY <1>6, <1>7, <1>8, <1>9, <1>10, <2>1 DEF Single, Live
<1>12. Live' \in SUBSET (Live \cup {next.challenge})
  BY <1>6, <1>8, <1>9 DEF Live
<1> QED
  BY <1>11, <1>12, AskedUnused DEF ApproveRequest

\* An approval that was given moves from the call to the table.
LEMMA ApprovedSingle ==
  ASSUME GrantsType, Single, Unused, NEW w \in Thread, Approved(w)
  PROVE  Single' /\ Unused'
<1>1. PICK a : a = call[w].approval
  OBVIOUS
<1>2. w \in Askers /\ a \in Approval /\ a.id \in CallIds
  BY <1>1 DEF Approved, At, Askers, CallIds, GrantsType, CallsFit, CallFits
<1>3. a.id \notin IdsOf(approved) /\ a.id \notin PendingIds
  BY <1>2 DEF Single
<1>4. approved' = Append(approved, a) /\ pending' = pending
  BY <1>1 DEF Approved
<1>5. Distinct(Append(approved, a)) /\ IdsOf(Append(approved, a)) = IdsOf(approved) \cup {a.id}
  BY <1>2, <1>3, AppendedIds DEF GrantsType, Single
<1>6. Distinct(approved)' /\ IdsOf(approved)' = IdsOf(approved) \cup {a.id}
  BY <1>4, <1>5 DEF Distinct, IdsOf
<1>7. \A v \in Askers' : v \in Askers /\ v # w /\ call'[v] = call[v]
  BY DEF Approved, Returns, Goes, Idle, Askers, GrantsType, CallsFit
<1>8. CallIds' \in SUBSET (CallIds \ {a.id})
  BY <1>1, <1>2, <1>7 DEF CallIds, Single
<1>9. PendingIds' = PendingIds
  BY <1>4 DEF PendingIds
<1>10. Single'
  <2>1. \A u, v \in Askers' : call'[u].approval.id = call'[v].approval.id => u = v
    BY <1>7 DEF Single
  <2>2. \A d, e \in pending' : d.id = e.id => d = e
    BY <1>4 DEF Single
  <2> QED
    BY <1>3, <1>6, <1>8, <1>9, <2>1, <2>2 DEF Single
<1>11. Live' \in SUBSET Live
  BY <1>2, <1>6, <1>8, <1>9 DEF Live
<1> QED
  BY <1>10, <1>11, StillUnused DEF Approved

\* A challenge has an identifier of its own.
LEMMA ChallengeSingle ==
  ASSUME GrantsType, Single, Unused, NEW w \in Thread, Challenge(w)
  PROVE  Single' /\ Unused'
<1>1. PICK a : a = [id |-> next.challenge, request |-> call[w].request,
                    expires |-> call[w].at + ApprovalTtl]
  OBVIOUS
<1>2. a.id = next.challenge
  BY <1>1
<1>3. /\ pending' = Unexpired(pending) \cup {a} /\ Unexpired(pending) \in SUBSET pending
      /\ approved' = Reaped(approved)
      /\ Distinct(Reaped(approved)) /\ IdsOf(Reaped(approved)) \in SUBSET IdsOf(approved)
  BY <1>1, ReapingLive DEF Challenge, Unexpired
<1>4. Calm
  BY CalmReturns DEF Challenge
<1>5. \A v \in Askers' : v \in Askers /\ call'[v] = call[v]
  BY <1>4 DEF Askers, Calm
<1>6. CallIds' \in SUBSET CallIds
  BY <1>5 DEF CallIds
<1>7. Distinct(approved)' /\ IdsOf(approved)' \in SUBSET IdsOf(approved)
  BY <1>3 DEF Distinct, IdsOf
<1>8. PendingIds' \in SUBSET (PendingIds \cup {next.challenge})
  BY <1>2, <1>3 DEF PendingIds
<1>9. next.challenge \notin Live
  BY LiveIds DEF Unused, GrantsType, Ids
<1>10. Single'
  <2>1. \A u, v \in Askers' : call'[u].approval.id = call'[v].approval.id => u = v
    BY <1>5 DEF Single
  <2>2. \A d \in pending : d.id # next.challenge
    BY <1>9 DEF Live, PendingIds
  <2>3. \A d, e \in pending' : d.id = e.id => d = e
    BY <1>2, <1>3, <2>2 DEF Single
  <2> QED
    BY <1>6, <1>7, <1>8, <1>9, <2>1, <2>3 DEF Single, Live
<1>11. Live' \in SUBSET (Live \cup {next.challenge})
  BY <1>6, <1>7, <1>8 DEF Live
<1> QED
  BY <1>10, <1>11, AskedUnused DEF Challenge

\* An approval that lets an access through is in no place any more.
LEMMA ConsumeSingle ==
  ASSUME GrantsType, Single, Unused, NEW w \in Thread, Consume(w)
  PROVE  Single' /\ Unused'
<1>1. Calm
  BY CalmSteps DEF Evaluating
<1>2. CASE Fitting(call[w].request) = {}
  BY <1>1, <1>2, CalmStepKeeps DEF Consume
<1>3. CASE Fitting(call[w].request) # {}
  <2>1. PICK i \in 1..Len(approved), n \in Ids :
          /\ n = approved[i].id
          /\ approved' = RemoveAt(approved, i)
          /\ tally' = [tally EXCEPT !.uses[n] = @ + 1]
    BY <1>3, Consumed
  <2>2. Distinct(approved') /\ IdsOf(approved') \in SUBSET (IdsOf(approved) \ {n})
    BY <2>1, TakenIds DEF GrantsType, Single
  <2>3. /\ Single' /\ Live' \in SUBSET Live /\ PendingIds' \in SUBSET PendingIds
        /\ CallIds' \in SUBSET CallIds
    BY <1>1, <2>2, FewerLive DEF Consume
  <2>4. n \in IdsOf(approved) /\ n \in Live
    BY <2>1 DEF IdsOf, Live
  <2>5. n \notin Live'
    <3>1. IdsOf(approved)' = IdsOf(approved')
      BY DEF IdsOf
    <3>2. n \notin PendingIds /\ n \notin CallIds
      BY <2>4 DEF Single
    <3> QED
      BY <2>2, <2>3, <3>1, <3>2 DEF Live
  <2>6. tally.uses[n] = 0 /\ n < next.challenge
    BY <2>4 DEF Unused
  <2>7. \A m \in Ids : tally'.uses[m] = IF m = n THEN tally.uses[n] + 1 ELSE tally.uses[m]
    BY <2>1 DEF GrantsType
  <2>8. tally'.astray = tally.astray /\ next' = next
    BY <2>1 DEF GrantsType, Consume
  <2>9. Live \in SUBSET Ids
    BY LiveIds
  <2>10. \A m \in Live' : m < next'.challenge /\ tally'.uses[m] = 0
    BY <2>3, <2>5, <2>7, <2>8, <2>9 DEF Unused
  <2>11. \A m \in Ids : tally'.uses[m] <= 1 /\ (m >= next'.challenge => tally'.uses[m] = 0)
    <3> SUFFICES ASSUME NEW m \in Ids
                 PROVE  tally'.uses[m] <= 1 /\ (m >= next'.challenge => tally'.uses[m] = 0)
      OBVIOUS
    <3>1. CASE m = n
      <4>1. tally'.uses[m] = 1
        BY <2>6, <2>7, <3>1
      <4>2. ~(m >= next'.challenge)
        BY <2>6, <2>8, <3>1 DEF Ids, GrantsType
      <4> QED
        BY <4>1, <4>2
    <3>2. CASE m # n
      BY <2>7, <2>8, <3>2 DEF Unused
    <3> QED
      BY <3>1, <3>2
  <2>12. Unused'
    BY <2>8, <2>10, <2>11 DEF Unused
  <2> QED
    BY <2>3, <2>12
<1> QED
  BY <1>2, <1>3

\* A step that no approval depends on.
LEMMA OtherStepsSingle ==
  ASSUME GrantsType, Single, Unused, NEW w \in Thread, Evaluating(w) \/ Redeeming(w),
         ~Consume(w), ~Challenge(w)
  PROVE  Single' /\ Unused'
<1>1. Calm
  BY CalmSteps
<1>2. /\ pending' \in SUBSET pending
      /\ approved' = approved \/ approved' = Reaped(approved)
  BY DEF Evaluating, Redeeming, Evaluate, Reap, IssueGrant, ReadLimit, RecordUse, Redeem,
         Redeemed, RedeemBatch, BatchRedeemed, Unexpired
<1>3. next'.challenge = next.challenge
  <2>1. CASE IssueGrant(w)
    BY <2>1 DEF IssueGrant, GrantsType
  <2>2. CASE ~IssueGrant(w)
    BY <2>2 DEF Evaluating, Redeeming, Evaluate, Reap, ReadLimit, RecordUse, Redeem,
         Redeemed, RedeemBatch, BatchRedeemed
  <2> QED
    BY <2>1, <2>2
<1>4. tally'.uses = tally.uses /\ tally'.astray = tally.astray
  <2>1. CASE Redeemed(w)
    BY <2>1, HandedType DEF Redeemed
  <2>2. CASE BatchRedeemed(w)
    BY <2>2, BatchTaken, HandedType
  <2>3. CASE ~Redeemed(w) /\ ~BatchRedeemed(w)
    BY <2>3 DEF Evaluating, Redeeming, Evaluate, Reap, IssueGrant, ReadLimit, RecordUse, Redeem,
         RedeemBatch
  <2> QED
    BY <2>1, <2>2, <2>3
<1> QED
  BY <1>1, <1>2, <1>3, <1>4, CalmStepKeeps

\* Grants leave the table, those that were redeemed among them.
LEMMA FewerUnredeemed ==
  ASSUME Unredeemed, \A t \in Token : grants'[t] = None \/ grants'[t] = grants[t],
         next'.token = next.token, tally'.redeemed = tally.redeemed
  PROVE  Unredeemed'
  BY DEF Unredeemed

LEMMA HandedUnredeemed ==
  ASSUME GrantsType, Unredeemed, NEW T \in SUBSET Issued,
         grants' = Without(T), tally' = Handed(T), next' = next
  PROVE  Unredeemed'
<1>1. \A t \in Token : /\ grants'[t] = IF t \in T THEN None ELSE grants[t]
                       /\ tally'.redeemed[t] =
                            IF t \in T THEN tally.redeemed[t] + 1 ELSE tally.redeemed[t]
  BY WithoutAre, HandedType
<1>2. \A t \in T : t \in Token /\ grants[t] # None /\ tally.redeemed[t] = 0
  BY DEF Issued, Unredeemed
<1> SUFFICES ASSUME NEW t \in Token
             PROVE  /\ tally'.redeemed[t] <= 1
                    /\ grants'[t] # None => tally'.redeemed[t] = 0
                    /\ t >= next'.token => grants'[t] = None /\ tally'.redeemed[t] = 0
  BY DEF Unredeemed
<1>3. CASE t \in T
  <2>1. tally'.redeemed[t] = 1 /\ grants'[t] = None /\ ~(t >= next.token)
    BY <1>1, <1>2, <1>3 DEF Unredeemed
  <2> QED
    BY <2>1
<1>4. CASE t \notin T
  BY <1>1, <1>4 DEF Unredeemed
<1> QED
  BY <1>3, <1>4

\* The grant that is issued is a new one.
LEMMA IssueUnredeemed ==
  ASSUME GrantsType, Unredeemed, NEW w \in Thread, IssueGrant(w)
  PROVE  Unredeemed'
<1> DEFINE c == call[w]
<1>1. CASE entries[c.request.secret] = None
  BY <1>1 DEF IssueGrant, Unredeemed
<1>2. CASE entries[c.request.secret] # None
  <2>1. PICK g : g = [request |-> c.request, authority |-> c.asker, policy |-> c.policy,
                      expires |-> now + GrantTtl]
    OBVIOUS
  <2>2. PICK n \in Nat \ {0} : n = next.token
    BY DEF GrantsType
  <2>3. /\ grants' = [ReapedGrants EXCEPT ![n] = g]
        /\ next' = [next EXCEPT !.token = @ + 1] /\ n <= MaxToken /\ tally' = tally
    BY <1>2, <2>1, <2>2 DEF IssueGrant
  <2>4. next'.token = n + 1
    BY <2>2, <2>3 DEF GrantsType
  <2>5. n \in Token /\ \A t \in Token : t \in Int
    BY <2>2, <2>3, Bounds DEF Token
  <2>6. tally.redeemed[n] = 0
    BY <2>2, <2>5 DEF Unredeemed
  <2>7. \A t \in Token : t # n => grants'[t] = None \/ grants'[t] = grants[t]
    BY <2>3, ReapedGrantsAre
  <2> SUFFICES ASSUME NEW t \in Token
               PROVE  /\ tally'.redeemed[t] <= 1
                      /\ grants'[t] # None => tally'.redeemed[t] = 0
                      /\ t >= next'.token => grants'[t] = None /\ tally'.redeemed[t] = 0
    BY DEF Unredeemed
  <2>8. CASE t = n
    BY <2>3, <2>4, <2>5, <2>6, <2>8
  <2>9. CASE t # n
    <3>1. t >= n + 1 => t >= n
      BY <2>5
    <3>2. tally'.redeemed[t] = tally.redeemed[t]
      BY <2>3
    <3> QED
      BY <2>2, <2>4, <2>7, <2>9, <3>1, <3>2 DEF Unredeemed
  <2> QED
    BY <2>8, <2>9
<1> QED
  BY <1>1, <1>2

LEMMA CallsUnredeemed ==
  ASSUME GrantsType, Unredeemed, NEW w \in Thread,
         Approving(w) \/ Evaluating(w) \/ Redeeming(w)
  PROVE  Unredeemed'
<1>1. CASE IssueGrant(w)
  BY <1>1, IssueUnredeemed
<1>2. CASE Redeemed(w)
  <2>1. PICK T \in SUBSET Issued : grants' = Without(T) /\ tally' = Handed(T)
    BY <1>2 DEF Redeemed
  <2> QED
    BY <1>2, <2>1, HandedUnredeemed DEF Redeemed
<1>3. CASE BatchRedeemed(w)
  <2>1. CASE \E T \in SUBSET Issued : grants' = Without(T) /\ tally' = Handed(T)
    BY <1>3, <2>1, HandedUnredeemed DEF BatchRedeemed
  <2>2. CASE (\E T : grants' = Without(T) \/ grants' = grants) /\ tally' = tally
    <3>1. PICK T : grants' = Without(T) \/ grants' = grants
      BY <2>2
    <3>2. \A t \in Token : grants'[t] = None \/ grants'[t] = grants[t]
      BY <3>1, WithoutAre
    <3> QED
      BY <1>3, <2>2, <3>2, FewerUnredeemed DEF BatchRedeemed
  <2> QED
    BY <1>3, <2>1, <2>2, BatchTaken
<1>4. ASSUME NEW t \in Token, Redeem(w, t) PROVE Unredeemed'
  BY <1>4, ReapedGrantsAre, FewerUnredeemed DEF Redeem
<1>5. CASE Consume(w)
  <2>1. tally'.redeemed = tally.redeemed
    <3>1. CASE Fitting(call[w].request) = {}
      BY <1>5, <3>1 DEF Consume
    <3>2. CASE Fitting(call[w].request) # {}
      <4>1. PICK n \in Ids : tally' = [tally EXCEPT !.uses[n] = @ + 1]
        BY <1>5, <3>2, Consumed
      <4> QED
        BY <4>1 DEF GrantsType
    <3> QED
      BY <3>1, <3>2
  <2> QED
    BY <1>5, <2>1, FewerUnredeemed DEF Consume
<1>6. ASSUME Approving(w) \/ Challenge(w) PROVE Unredeemed'
  <2>1. grants' = grants /\ tally' = tally
    BY <1>6 DEF Approving, GrantChallenge, ApproveRequest, Approved, Challenge
  <2>2. next' = next \/ next' = [next EXCEPT !.challenge = @ + 1]
    BY <1>6 DEF Approving, GrantChallenge, ApproveRequest, Approved, Challenge
  <2>3. next'.token = next.token
    BY <2>2 DEF GrantsType
  <2> QED
    BY <2>1, <2>3, FewerUnredeemed
<1>7. ASSUME \/ \E q \in Request, asker \in Authority \cup {"nobody"} : Evaluate(w, q, asker)
             \/ Reap(w) \/ RecordUse(w) \/ \E s \in Secret : ReadLimit(w, s)
             \/ \E batch : RedeemBatch(w, batch)
      PROVE  Unredeemed'
  <2>1. grants' = grants /\ tally' = tally /\ next' = next
    BY <1>7 DEF Evaluate, Reap, RecordUse, ReadLimit, RedeemBatch
  <2> QED
    BY <2>1, FewerUnredeemed
<1> QED
  BY <1>1, <1>2, <1>3, <1>4, <1>5, <1>6, <1>7 DEF Evaluating, Redeeming

LEMMA SpentNext == SpentInv /\ [GrantNext]_grantVars => SpentInv'
<1> SUFFICES ASSUME SpentInv, [GrantNext]_grantVars PROVE SpentInv'
  OBVIOUS
<1>0. GrantsType /\ GrantsType' /\ Single /\ Unused /\ Unredeemed
  BY GrantsTypeNext DEF SpentInv
<1> SUFFICES Single' /\ Unused' /\ Unredeemed'
  BY <1>0 DEF SpentInv
<1>1. ASSUME \/ \E s \in Secret, p \in Policy \cup {None} : Provision(s, p)
             \/ Tick \/ ListPending
             \/ \E T \in SUBSET Token : Discard(T)
             \/ UNCHANGED grantVars
      PROVE  Single' /\ Unused' /\ Unredeemed'
  <2>1. /\ call' = call /\ next' = next /\ tally' = tally
        /\ pending' \in SUBSET pending
        /\ approved' = approved \/ approved' = Reaped(approved)
    BY <1>1 DEF Provision, Tick, ListPending, Discard, grantVars, Unexpired
  <2>2. Calm
    BY <2>1 DEF Calm
  <2>3. \A t \in Token : grants'[t] = None \/ grants'[t] = grants[t]
    BY <1>1, WithoutAre DEF Provision, Tick, ListPending, Discard, grantVars
  <2> QED
    BY <1>0, <2>1, <2>2, <2>3, CalmStepKeeps, FewerUnredeemed
<1>2. ASSUME NEW w \in Thread, Approving(w) \/ Evaluating(w) \/ Redeeming(w)
      PROVE  Single' /\ Unused' /\ Unredeemed'
  <2>1. Unredeemed'
    BY <1>0, <1>2, CallsUnredeemed
  <2>2. CASE Approving(w)
    BY <1>0, <2>1, <2>2, GrantChallengeSingle, ApproveRequestSingle, ApprovedSingle DEF Approving
  <2>3. CASE Consume(w) \/ Challenge(w)
    BY <1>0, <2>1, <2>3, ConsumeSingle, ChallengeSingle
  <2>4. CASE (Evaluating(w) \/ Redeeming(w)) /\ ~Consume(w) /\ ~Challenge(w)
    BY <1>0, <2>1, <2>4, OtherStepsSingle
  <2> QED
    BY <1>2, <2>1, <2>2, <2>3, <2>4
<1> QED
  BY <1>1, <1>2 DEF GrantNext

LEMMA SpentInit == GrantInit => SpentInv
<1> SUFFICES ASSUME GrantInit PROVE SpentInv
  OBVIOUS
<1>1. \A w \in Thread : call[w].step = "idle"
  BY DEF GrantInit, Idle
<1>2. PendingIds = {} /\ IdsOf(approved) = {} /\ Askers = {} /\ CallIds = {}
  BY <1>1 DEF GrantInit, PendingIds, IdsOf, Askers, CallIds
<1>3. Single
  BY <1>2 DEF GrantInit, Single, Distinct
<1>4. Unused
  BY <1>2 DEF GrantInit, Unused, Live
<1>5. Unredeemed
  BY DEF GrantInit, Unredeemed
<1> QED
  BY <1>3, <1>4, <1>5, GrantsTypeInit DEF SpentInv

\* No approval lets a second access through, none an access it was not given for,
\* and no grant is handed out twice: invariant SpentAtMostOnce.
THEOREM SpentAtMostOnceHolds == GrantSpec => []SpentAtMostOnce
<1>1. SpentInv => SpentAtMostOnce
  BY DEF SpentInv, Unused, Unredeemed, SpentAtMostOnce
<1>2. GrantSpec => []SpentInv
  BY SpentInit, SpentNext, PTL DEF GrantSpec
<1> QED
  BY <1>1, <1>2, PTL
-----------------------------------------------------------------------------
(* Captured sessions. *)

Contents == UNION {[K -> Nat] : K \in SUBSET (Cookie \cup Item)}
CapturedEntry == [generation : Nat, stale : BOOLEAN, created : Nat, content : Contents]
Merging == [origin : Origin, content : Contents, generation : Nat, since : Nat]
Target  == [origin : Origin, generation : Nat]

CapturedType ==
  /\ captured \in [Origin -> CapturedEntry \cup {NoEntry}]
  /\ merging \in [Capturer -> Merging \cup {NoEntry}]
  /\ DOMAIN lease = Replayer
  /\ \A w \in Replayer : lease[w] # NoEntry => lease[w].targets \subseteq Target
  /\ seconds \in Nat /\ captures \in Nat

\* What RejectsWhatWasUsed rests on: as long as an origin is undisturbed it keeps its
\* entry, whose generation only grows, and one generation has one content.
Lineage ==
  \A w \in Replayer :
    lease[w] # NoEntry =>
      \A t \in lease[w].targets : t.origin \notin disturbed =>
        /\ captured[t.origin] # NoEntry
        /\ t.generation <= captured[t.origin].generation
        /\ t.generation = captured[t.origin].generation =>
             captured[t.origin].content = lease[w].read[t.origin]

CapturedSpec == CapturedInit /\ [][CapturedNext]_capturedVars

LEMMA NoEntryApart == NoEntry \notin CapturedEntry
  BY CapturedAssumption DEF CapturedEntry, Contents

LEMMA ContentType ==
  ASSUME CapturedType, NEW o \in Origin PROVE Content(o) \in Contents
<1>1. CASE captured[o] = NoEntry
  <2>1. Blank \in [{} -> Nat]
    BY DEF Blank
  <2> QED
    BY <1>1, <2>1 DEF Content, Contents
<1>2. CASE captured[o] # NoEntry
  BY <1>2 DEF Content, CapturedType, CapturedEntry
<1> QED
  BY <1>1, <1>2

LEMMA KeptType ==
  ASSUME NEW c \in Contents, NEW keys PROVE Kept(c, keys) \in Contents
<1>1. PICK K \in SUBSET (Cookie \cup Item) : c \in [K -> Nat]
  BY DEF Contents
<1>2. Kept(c, keys) \in [K \cap keys -> Nat]
  BY <1>1 DEF Kept
<1> QED
  BY <1>2 DEF Contents

LEMMA OverlayType ==
  ASSUME NEW c \in Contents, NEW d \in Contents PROVE Over(c, d) \in Contents
<1>1. PICK K \in SUBSET (Cookie \cup Item), L \in SUBSET (Cookie \cup Item) :
        c \in [K -> Nat] /\ d \in [L -> Nat]
  BY DEF Contents
<1>2. Over(c, d) \in [K \cup L -> Nat]
  BY <1>1 DEF Over
<1> QED
  BY <1>2 DEF Contents

LEMMA GenerationType ==
  ASSUME CapturedType, NEW o \in Origin PROVE NextGeneration(o) \in Nat
  BY DEF NextGeneration, CapturedType, CapturedEntry

LEMMA CaptureType ==
  ASSUME CapturedType, NEW w \in Capturer, NEW o \in Origin, NEW c \in Contents, Capture(w, o, c)
  PROVE  CapturedType'
<1>1. [origin |-> o, content |-> c, generation |-> NextGeneration(o), since |-> seconds]
        \in Merging
  BY GenerationType DEF Merging, CapturedType
<1> QED
  BY <1>1 DEF Capture, CapturedType

LEMMA SeenType ==
  ASSUME CapturedType, NEW keys \in SUBSET (Cookie \cup Item)
  PROVE  [k \in keys |-> captures + 1] \in Contents
<1>1. [k \in keys |-> captures + 1] \in [keys -> Nat]
  BY DEF CapturedType
<1> QED
  BY <1>1 DEF Contents

LEMMA BothCapture ==
  ASSUME CapturedType, NEW w \in Capturer, NEW o \in Origin,
         NEW keys \in SUBSET (Cookie \cup Item),
         \/ CaptureTraffic(w, o, keys)
         \/ \E read \in SUBSET {"local", "session"} : CaptureBrowser(w, o, keys, read)
  PROVE  \E c \in Contents : Capture(w, o, c)
<1>1. CASE CaptureTraffic(w, o, keys)
  BY <1>1, SeenType, ContentType, OverlayType DEF CaptureTraffic, Merged
<1>2. ASSUME NEW read \in SUBSET {"local", "session"}, CaptureBrowser(w, o, keys, read)
      PROVE  \E c \in Contents : Capture(w, o, c)
  BY <1>2, SeenType, ContentType, KeptType, OverlayType DEF CaptureBrowser, Snapshot
<1> QED
  BY <1>1, <1>2

\* What an insertion leaves: the new entry and the entries that were there, of the
\* origins that survive.
LEMMA Inserted ==
  ASSUME CapturedType, NEW w \in Capturer, Insert(w)
  PROVE  \E m \in Merging, e \in CapturedEntry, S \in SUBSET Origin :
           /\ m = merging[w] /\ e.generation = m.generation
           /\ \A o \in S : o = m.origin \/ captured[o] # NoEntry
           /\ captured' = [o \in Origin |-> IF o \notin S THEN NoEntry
                             ELSE IF o = m.origin THEN e ELSE captured[o]]
           /\ \A o \in Origin \ S : captured[o] # NoEntry => o \in disturbed'
           /\ m.generation # NextGeneration(m.origin) => m.origin \in disturbed'
           /\ disturbed \subseteq disturbed'
<1> DEFINE m == merging[w]
           e(date) == [generation |-> m.generation, stale |-> FALSE, content |-> m.content,
                       created |-> date]
           table(date) == [captured EXCEPT ![m.origin] = e(date)]
<1>1. m \in Merging
  BY DEF Insert, CapturedType
<1>2. PICK date \in m.since..seconds, S \in SUBSET Origin :
        /\ S \in Survivors(table(date))
        /\ captured' = [o \in Origin |-> IF o \in S THEN table(date)[o] ELSE NoEntry]
        /\ disturbed' = disturbed \cup (Held(table(date)) \ S)
             \cup {o \in {m.origin} : m.generation # NextGeneration(o)}
  BY DEF Insert, Survivors, Held
<1>3. m.origin \in Origin /\ date \in Nat
  BY <1>1 DEF Merging, CapturedType
<1>4. e(date) \in CapturedEntry /\ e(date).generation = m.generation
  BY <1>1, <1>3 DEF CapturedEntry, Merging
<1>5. S \subseteq Held(table(date)) /\ S \in SUBSET Origin
  BY <1>2 DEF Survivors, Held
<1>6. \A o \in Origin : table(date)[o] = IF o = m.origin THEN e(date) ELSE captured[o]
  BY <1>3 DEF CapturedType
<1>7. e(date) # NoEntry
  BY <1>4, NoEntryApart
<1>8. \A o \in Origin : o \in Held(table(date)) <=> o = m.origin \/ captured[o] # NoEntry
  BY <1>6, <1>7 DEF Held
<1>9. captured' = [o \in Origin |-> IF o \notin S THEN NoEntry
                     ELSE IF o = m.origin THEN e(date) ELSE captured[o]]
  BY <1>2, <1>5, <1>6
<1>10. \A o \in Origin \ S : captured[o] # NoEntry => o \in disturbed'
  BY <1>2, <1>8
<1>11. m.generation # NextGeneration(m.origin) => m.origin \in disturbed'
  BY <1>2
<1>12. disturbed \subseteq disturbed'
  BY <1>2
<1>13. \A o \in S : o = m.origin \/ captured[o] # NoEntry
  BY <1>5, <1>8
<1> HIDE DEF m, e, table
<1> QED
  BY <1>1, <1>4, <1>5, <1>9, <1>10, <1>11, <1>12, <1>13 DEF m

LEMMA MarkedEntry ==
  ASSUME CapturedType, NEW w, NEW s \in BOOLEAN, NEW o \in Origin
  PROVE  /\ captured[o] = NoEntry => Marked(w, s)[o] = NoEntry
         /\ captured[o] # NoEntry =>
              /\ Marked(w, s)[o] \in CapturedEntry
              /\ Marked(w, s)[o].generation = captured[o].generation
              /\ Marked(w, s)[o].content = captured[o].content
<1>1. CASE captured[o] = NoEntry
  BY <1>1 DEF Marked
<1>2. CASE captured[o] # NoEntry
  <2>1. captured[o] \in CapturedEntry
    BY <1>2 DEF CapturedType
  <2>2. Marked(w, s)[o] \in {captured[o], [captured[o] EXCEPT !.stale = s]}
    BY <1>2 DEF Marked
  <2> QED
    BY <1>2, <2>1, <2>2 DEF CapturedEntry
<1> QED
  BY <1>1, <1>2

\* A lease is on the entries that are there.
LEMMA LeasedEntries ==
  ASSUME CapturedType, NEW w \in Replayer, NEW o \in Origin, NEW u \in Url, GetSession(w, o, u)
  PROVE  /\ DOMAIN lease' = Replayer
         /\ \A v \in Replayer \ {w} : lease'[v] = lease[v]
         /\ lease'[w].targets \subseteq Target
         /\ \A t \in lease'[w].targets :
              /\ captured[t.origin] # NoEntry /\ t.generation = captured[t.origin].generation
              /\ captured[t.origin].content = lease'[w].read[t.origin]
<1>1. PICK S : S = Sources(o, u)
  OBVIOUS
<1>2. \A f \in S : f \in Origin /\ captured[f] # NoEntry
  BY <1>1 DEF Sources, Held, Fresh
<1>3. \A f \in S : captured[f] \in CapturedEntry /\ Content(f) = captured[f].content
  BY <1>2 DEF Content, CapturedType
<1>4. /\ lease'[w].targets = {[origin |-> f, generation |-> captured[f].generation] : f \in S}
      /\ lease'[w].read = [f \in S |-> Content(f)]
  BY <1>1 DEF GetSession, CapturedType
<1>5. \A t \in lease'[w].targets :
        t \in Target /\ t.origin \in S /\ t.generation = captured[t.origin].generation
  BY <1>2, <1>3, <1>4 DEF Target, CapturedEntry
<1>6. DOMAIN lease' = Replayer /\ \A v \in Replayer \ {w} : lease'[v] = lease[v]
  BY DEF GetSession, CapturedType
<1> QED
  BY <1>2, <1>3, <1>4, <1>5, <1>6

LEMMA CapturedTypeNext ==
  ASSUME CapturedType, CapturedNext PROVE CapturedType'
<1>1. ASSUME NEW w \in Capturer, NEW o \in Origin, NEW keys \in SUBSET (Cookie \cup Item),
             \/ CaptureTraffic(w, o, keys)
             \/ \E read \in SUBSET {"local", "session"} : CaptureBrowser(w, o, keys, read)
      PROVE  CapturedType'
  BY <1>1, BothCapture, CaptureType
<1>2. ASSUME NEW w \in Capturer, Insert(w) PROVE CapturedType'
  <2>1. captured' \in [Origin -> CapturedEntry \cup {NoEntry}]
    BY <1>2, Inserted DEF CapturedType
  <2> QED
    BY <1>2, <2>1 DEF Insert, CapturedType
<1>3. ASSUME NEW S, Clear(S) PROVE CapturedType'
  BY <1>3 DEF Clear, CapturedType
<1>4. ASSUME NEW w \in Replayer, NEW o \in Origin, NEW u \in Url, GetSession(w, o, u)
      PROVE  CapturedType'
  <2>1. DOMAIN lease' = Replayer
          /\ \A v \in Replayer : lease'[v] # NoEntry => lease'[v].targets \subseteq Target
    BY <1>4, LeasedEntries DEF CapturedType
  <2> QED
    BY <1>4, <2>1 DEF GetSession, CapturedType
<1>5. ASSUME NEW w \in Replayer, NEW s \in BOOLEAN, Mark(w, s) PROVE CapturedType'
  <2>1. \A o \in Origin : Marked(w, s)[o] \in CapturedEntry \cup {NoEntry}
    BY MarkedEntry DEF CapturedType
  <2>2. captured' \in [Origin -> CapturedEntry \cup {NoEntry}]
    BY <1>5, <2>1 DEF Mark, Marked
  <2> QED
    BY <1>5, <2>2 DEF Mark, CapturedType
<1>6. ASSUME NEW w \in Replayer, Replayed(w) PROVE CapturedType'
  BY <1>6 DEF Replayed, CapturedType
<1>7. CASE Second
  BY <1>7 DEF Second, CapturedType
<1> QED
  BY <1>1, <1>2, <1>3, <1>4, <1>5, <1>6, <1>7 DEF CapturedNext

LEMMA LineageNext ==
  ASSUME CapturedType, Lineage, CapturedNext PROVE Lineage'
<1> SUFFICES ASSUME NEW w \in Replayer, lease'[w] # NoEntry, NEW t \in lease'[w].targets,
                    t.origin \notin disturbed'
             PROVE  /\ captured'[t.origin] # NoEntry
                    /\ t.generation <= captured'[t.origin].generation
                    /\ t.generation = captured'[t.origin].generation =>
                         captured'[t.origin].content = lease'[w].read[t.origin]
  BY DEF Lineage
<1> DEFINE o == t.origin
           \* What Lineage says of this target now.
           Now == /\ captured[o] # NoEntry /\ t.generation <= captured[o].generation
                  /\ t.generation = captured[o].generation =>
                       captured[o].content = lease[w].read[o]
<1>0. t \in Target /\ o \in Origin /\ t.generation \in Nat
  BY CapturedTypeNext DEF CapturedType, Target
<1>1. ASSUME lease'[w] = lease[w], disturbed \subseteq disturbed' PROVE Now
  BY <1>1 DEF Lineage
<1>3. ASSUME NEW v \in Capturer, NEW b \in Origin, NEW keys \in SUBSET (Cookie \cup Item),
             \/ CaptureTraffic(v, b, keys)
             \/ \E read \in SUBSET {"local", "session"} : CaptureBrowser(v, b, keys, read)
      PROVE  Lineage'
  <2>1. UNCHANGED <<captured, lease, disturbed>>
    BY <1>3, BothCapture DEF Capture
  <2> QED
    BY <2>1 DEF Lineage
<1>4. ASSUME NEW v \in Capturer, Insert(v)
      PROVE  /\ captured'[o] # NoEntry /\ t.generation <= captured'[o].generation
             /\ t.generation = captured'[o].generation =>
                  captured'[o].content = lease'[w].read[o]
  <2>1. PICK m \in Merging, e \in CapturedEntry, S \in SUBSET Origin :
           /\ m = merging[v] /\ e.generation = m.generation
           /\ \A b \in S : b = m.origin \/ captured[b] # NoEntry
           /\ captured' = [b \in Origin |-> IF b \notin S THEN NoEntry
                             ELSE IF b = m.origin THEN e ELSE captured[b]]
           /\ \A b \in Origin \ S : captured[b] # NoEntry => b \in disturbed'
           /\ m.generation # NextGeneration(m.origin) => m.origin \in disturbed'
           /\ disturbed \subseteq disturbed'
    BY <1>4, Inserted
  <2>2. lease' = lease
    BY <1>4 DEF Insert
  <2>3. Now
    BY <1>1, <2>1, <2>2
  <2>4. o \in S
    BY <1>0, <2>1, <2>3
  <2>5. CASE o = m.origin
    <3>1. e.generation = NextGeneration(o)
      BY <2>1, <2>5
    <3>2. captured[o].generation \in Nat /\ NextGeneration(o) = captured[o].generation + 1
      BY <1>0, <2>3 DEF NextGeneration, CapturedType, CapturedEntry
    <3>3. captured'[o] = e /\ e # NoEntry
      BY <1>0, <2>1, <2>4, <2>5, NoEntryApart
    <3> QED
      BY <1>0, <2>3, <3>1, <3>2, <3>3
  <2>6. CASE o # m.origin
    <3>1. captured'[o] = captured[o]
      BY <1>0, <2>1, <2>4, <2>6
    <3> QED
      BY <2>2, <2>3, <3>1
  <2> QED
    BY <2>5, <2>6
<1>5. ASSUME NEW S, Clear(S)
      PROVE  captured'[o] = captured[o] /\ lease' = lease /\ Now
  <2>1. lease' = lease /\ disturbed \subseteq disturbed'
    BY <1>5 DEF Clear
  <2>2. Now
    BY <1>1, <2>1
  <2>3. o \notin S
    BY <1>0, <1>5, <2>2 DEF Clear, Held
  <2> QED
    BY <1>0, <1>5, <2>1, <2>2, <2>3 DEF Clear
<1>6. ASSUME NEW v \in Replayer, NEW b \in Origin, NEW u \in Url, GetSession(v, b, u)
      PROVE  /\ captured'[o] # NoEntry /\ t.generation <= captured'[o].generation
             /\ t.generation = captured'[o].generation =>
                  captured'[o].content = lease'[w].read[o]
  <2>1. captured' = captured /\ disturbed' = disturbed
    BY <1>6 DEF GetSession
  <2>2. CASE v = w
    BY <1>0, <1>6, <2>1, <2>2, LeasedEntries
  <2>3. CASE v # w
    BY <1>1, <1>6, <2>1, <2>3, LeasedEntries
  <2> QED
    BY <2>2, <2>3
<1>7. ASSUME NEW v \in Replayer, NEW s \in BOOLEAN, Mark(v, s)
      PROVE  /\ captured'[o] # NoEntry /\ t.generation <= captured'[o].generation
             /\ t.generation = captured'[o].generation =>
                  captured'[o].content = lease'[w].read[o]
  <2>1. captured' = Marked(v, s) /\ lease' = lease /\ disturbed' = disturbed
    BY <1>7 DEF Mark
  <2>2. Now
    BY <1>1, <2>1
  <2>3. /\ Marked(v, s)[o] \in CapturedEntry
        /\ Marked(v, s)[o].generation = captured[o].generation
        /\ Marked(v, s)[o].content = captured[o].content
    BY <1>0, <2>2, MarkedEntry
  <2> QED
    BY <2>1, <2>2, <2>3, NoEntryApart
<1>8. ASSUME NEW v \in Replayer, Replayed(v)
      PROVE  captured' = captured /\ lease'[w] = lease[w] /\ Now
  <2>1. captured' = captured /\ disturbed' = disturbed /\ lease'[w] = lease[w]
    BY <1>8 DEF Replayed, CapturedType
  <2> QED
    BY <1>1, <2>1
<1>9. CASE Second
  BY <1>1, <1>9 DEF Second
<1> QED
  BY <1>3, <1>4, <1>5, <1>6, <1>7, <1>8, <1>9 DEF CapturedNext, Lineage

\* A rejected session marks stale what the replay used and nothing newer: while no
\* capture of the origin overlapped another and its entry was not removed, the entry of
\* the generation a lease names has the content the lease was read from (store.rs,
\* get_session and mark_stale_lease).
THEOREM RejectsWhatWasUsedHolds == CapturedSpec => []RejectsWhatWasUsed
<1>1. CapturedInit => CapturedType /\ Lineage
  BY DEF CapturedInit, CapturedType, Lineage
<1>2. CapturedType /\ Lineage /\ [CapturedNext]_capturedVars => (CapturedType /\ Lineage)'
  <2>1. ASSUME CapturedType, Lineage, UNCHANGED capturedVars PROVE (CapturedType /\ Lineage)'
    BY <2>1 DEF CapturedType, Lineage, capturedVars
  <2> QED
    BY <2>1, CapturedTypeNext, LineageNext
<1>3. CapturedType /\ Lineage => RejectsWhatWasUsed
  BY DEF Lineage, RejectsWhatWasUsed
<1> QED
  BY <1>1, <1>2, <1>3, PTL DEF CapturedSpec

-----------------------------------------------------------------------------
(* Plain ephemeral entries: values and deadlines stay in step, for any scopes *)
(* and inputs, names that join to one key, and any readings of the clock.     *)

Value  == [scope : Execution, input : Field, serial : Nat]
Answer == [serial : Nat, at : Nat]
Term   == Instants \cup {Nothing}
Serials == DOMAIN registered

EphemeralType ==
  /\ held \in [Cells -> Value \cup {Nothing}]
  /\ deadlines \in [Cells -> Term]
  /\ registered \in Seq(Term)
  /\ given \in Answer \cup {Nothing}

\* What HeldForItsTerm rests on: the maps hold values that were registered, under
\* the deadline each was registered with.
InStep ==
  /\ EphemeralType
  /\ \A k \in Cells : held[k] = Nothing => deadlines[k] = Nothing
  /\ \A k \in Cells : held[k] # Nothing =>
       held[k].serial \in Serials /\ deadlines[k] = registered[held[k].serial]
  /\ given # Nothing =>
       /\ given.serial \in Serials
       /\ registered[given.serial] # Nothing => given.at < registered[given.serial]

LEMMA Apart == Nothing \notin Nat /\ Nothing \notin Value /\ Nothing \notin Answer
  BY EphemeralAssumption DEF Value, Answer

LEMMA InstantsAreNat == Instants \subseteq Nat
  BY EphemeralAssumption DEF Instants

LEMMA CellType == \A s \in Execution, i \in Field : CellOf(s, i) \in Cells
<1> TAKE s \in Execution, i \in Field
<1>1. <<s, i>> \in Execution \X Field
  OBVIOUS
<1> QED
  BY <1>1 DEF Cells

\* Erasing the same keys of both maps keeps them in step.
LEMMA Erasing ==
  ASSUME InStep, NEW K \in SUBSET Cells,
         held' = Erased(held, K), deadlines' = Erased(deadlines, K),
         registered' = registered, given' = given
  PROVE  InStep'
<1>1. \A k \in Cells :
        /\ held'[k] = IF k \in K THEN Nothing ELSE held[k]
        /\ deadlines'[k] = IF k \in K THEN Nothing ELSE deadlines[k]
  BY DEF Erased
<1>2. EphemeralType'
  BY DEF InStep, EphemeralType, Erased, Term
<1> QED
  BY <1>1, <1>2 DEF InStep, Serials

LEMMA SweepKeepsStep ==
  ASSUME InStep, NEW at \in Instants, SweepDue(at), given' = given
  PROVE  InStep'
<1>1. Overdue(at) \in SUBSET Cells
  BY DEF Overdue
<1> QED
  BY <1>1, Erasing DEF SweepDue

\* A read hands out what is not due by the clock it brought.
LEMMA ReadKeepsStep ==
  ASSUME InStep, NEW at \in Instants,
         NEW found \in SUBSET {k \in Cells : Erased(held, Overdue(at))[k] # Nothing},
         Read(found, at)
  PROVE  InStep'
<1>1. CASE found = {}
  <2>1. SweepDue(at) /\ given' = given
    BY <1>1 DEF Read
  <2> QED
    BY <2>1, SweepKeepsStep
<1>2. CASE found # {}
  <2>1. PICK k \in found : given' = [serial |-> held[k].serial, at |-> at]
    BY <1>2 DEF Read
  <2>2. k \in Cells /\ k \notin Overdue(at) /\ held[k] # Nothing
    BY DEF Erased
  <2>3. held[k].serial \in Serials /\ deadlines[k] = registered[held[k].serial]
    BY <2>2 DEF InStep
  <2>4. registered[held[k].serial] # Nothing => at < registered[held[k].serial]
    <3>1. at \in Nat /\ deadlines[k] \in Nat \cup {Nothing}
      BY <2>2, InstantsAreNat DEF InStep, EphemeralType, Term
    <3>2. deadlines[k] = Nothing \/ ~(at >= deadlines[k])
      BY <2>2 DEF Overdue
    <3> QED
      BY <2>3, <3>1, <3>2
  <2>5. /\ held' = Erased(held, Overdue(at)) /\ deadlines' = Erased(deadlines, Overdue(at))
        /\ registered' = registered
    BY DEF Read, SweepDue
  <2>6. \A j \in Cells :
          /\ held'[j] = IF j \in Overdue(at) THEN Nothing ELSE held[j]
          /\ deadlines'[j] = IF j \in Overdue(at) THEN Nothing ELSE deadlines[j]
    BY <2>5 DEF Erased
  <2>7. given' \in Answer /\ given'.serial = held[k].serial /\ given'.at = at
    BY <2>1, <2>2, InstantsAreNat DEF InStep, EphemeralType, Value, Answer
  <2>8. EphemeralType'
    BY <2>5, <2>7 DEF InStep, EphemeralType, Erased, Term
  <2> QED
    BY <2>3, <2>4, <2>5, <2>6, <2>7, <2>8 DEF InStep, Serials
<1> QED
  BY <1>1, <1>2

\* A registration replaces both, whatever was there.
LEMMA RegisterKeepsStep ==
  ASSUME InStep, NEW s \in Execution, NEW i \in Field, NEW term \in Term,
         NEW at \in Instants, Register(s, i, term, at)
  PROVE  InStep'
<1> DEFINE c == CellOf(s, i)
           n == Len(registered) + 1
           v == [scope |-> s, input |-> i, serial |-> n]
<1>1. c \in Cells
  BY CellType
<1>2. n \in Nat /\ v \in Value /\ v # Nothing
  <2>1. n \in Nat
    BY DEF InStep, EphemeralType
  <2>2. v \in Value
    BY <2>1 DEF Value
  <2> QED
    BY <2>1, <2>2, Apart
<1>3. \A k \in Cells :
        /\ held'[k] = IF k = c THEN v ELSE IF k \in Overdue(at) THEN Nothing ELSE held[k]
        /\ deadlines'[k] = IF k = c THEN term
                           ELSE IF k \in Overdue(at) THEN Nothing ELSE deadlines[k]
  BY <1>1 DEF Register, Scheduled, Erased
<1>4. /\ registered' \in Seq(Term) /\ n \in Serials' /\ registered'[n] = term
      /\ \A m \in Serials : m \in Serials' /\ registered'[m] = registered[m]
  BY DEF Register, InStep, EphemeralType, Serials
<1>5. held' \in [Cells -> Value \cup {Nothing}]
  <2>1. held' = [k \in Cells |->
          IF k = c THEN v ELSE IF k \in Overdue(at) THEN Nothing ELSE held[k]]
    BY <1>1 DEF Register, Erased
  <2> QED
    BY <2>1, <1>2 DEF InStep, EphemeralType
<1>6. deadlines' \in [Cells -> Term]
  <2>1. deadlines' = [k \in Cells |->
          IF k = c THEN term ELSE IF k \in Overdue(at) THEN Nothing ELSE deadlines[k]]
    BY <1>1 DEF Register, Scheduled, Erased
  <2> QED
    BY <2>1 DEF InStep, EphemeralType, Term
<1>7. EphemeralType'
  BY <1>4, <1>5, <1>6 DEF InStep, EphemeralType, Register
<1>8. \A k \in Cells : held'[k] = Nothing => deadlines'[k] = Nothing
  BY <1>2, <1>3 DEF InStep
<1>9. \A k \in Cells : held'[k] # Nothing =>
        held'[k].serial \in Serials' /\ deadlines'[k] = registered'[held'[k].serial]
  <2> TAKE k \in Cells
  <2>1. CASE k = c
    BY <2>1, <1>2, <1>3, <1>4
  <2>2. CASE k # c
    BY <2>2, <1>3, <1>4 DEF InStep
  <2> QED
    BY <2>1, <2>2
<1>10. given' = given
  BY DEF Register
<1> QED
  BY <1>4, <1>7, <1>8, <1>9, <1>10 DEF InStep

LEMMA ClearKeepsStep ==
  ASSUME InStep, NEW s \in Execution, ClearScope(s)
  PROVE  InStep'
<1> DEFINE gone == {k \in Cells : held[k] # Nothing /\ held[k].scope = s}
           K == {k \in Cells : held'[k] = Nothing}
<1>1. held' = Erased(held, gone) /\ deadlines' = Erased(deadlines, K)
  BY DEF ClearScope
<1>2. \A k \in Cells : held'[k] = IF k \in gone THEN Nothing ELSE held[k]
  BY <1>1 DEF Erased
<1>3. held' = Erased(held, K)
  BY <1>1, <1>2 DEF Erased
<1> QED
  BY <1>1, <1>3, Erasing DEF ClearScope

LEMMA InStepHolds == EphemeralSpec => []InStep
<1>1. EphemeralInit => InStep
  BY DEF EphemeralInit, InStep, EphemeralType, Term, Serials
<1>2. InStep /\ [EphemeralNext]_ephemeralVars => InStep'
  <2> SUFFICES ASSUME InStep, [EphemeralNext]_ephemeralVars PROVE InStep'
    OBVIOUS
  <2>1. ASSUME NEW s \in Execution, NEW i \in Field, NEW at \in Instants,
               NEW term \in Instants \cup {Nothing}, Register(s, i, term, at)
        PROVE  InStep'
    BY <2>1, RegisterKeepsStep DEF Term
  <2>2. ASSUME NEW s \in Execution, NEW i \in Field, NEW at \in Instants,
               Read(InScope(Erased(held, Overdue(at)), s, i), at)
        PROVE  InStep'
    <3>1. InScope(Erased(held, Overdue(at)), s, i)
            \in SUBSET {k \in Cells : Erased(held, Overdue(at))[k] # Nothing}
      BY DEF InScope
    <3> QED
      BY <2>2, <3>1, ReadKeepsStep
  <2>3. ASSUME NEW i \in Field, NEW at \in Instants,
               Read(Anywhere(Erased(held, Overdue(at)), i), at)
        PROVE  InStep'
    <3>1. Anywhere(Erased(held, Overdue(at)), i)
            \in SUBSET {k \in Cells : Erased(held, Overdue(at))[k] # Nothing}
      BY DEF Anywhere
    <3> QED
      BY <2>3, <3>1, ReadKeepsStep
  <2>4. ASSUME NEW at \in Instants, SweepDue(at), UNCHANGED given
        PROVE  InStep'
    BY <2>4, SweepKeepsStep
  <2>5. ASSUME NEW s \in Execution, ClearScope(s)
        PROVE  InStep'
    BY <2>5, ClearKeepsStep
  <2>6. CASE UNCHANGED ephemeralVars
    BY <2>6 DEF ephemeralVars, InStep, EphemeralType, Serials
  <2> QED
    BY <2>1, <2>2, <2>3, <2>4, <2>5, <2>6 DEF EphemeralNext
<1> QED
  BY <1>1, <1>2, PTL DEF EphemeralSpec

\* A value typed for one run ends exactly at the deadline it was registered with.
THEOREM HeldForItsTermHolds == EphemeralSpec => []HeldForItsTerm
<1>1. InStep => HeldForItsTerm
  <2> SUFFICES ASSUME InStep PROVE HeldForItsTerm
    OBVIOUS
  <2>1. ASSUME NEW k \in Cells, held[k] # Nothing, NEW at \in Instants,
               registered[held[k].serial] = Nothing \/ at < registered[held[k].serial]
        PROVE  Pinned(held[k].scope, at)
    <3>1. deadlines[k] = registered[held[k].serial] /\ deadlines[k] \in Term
      BY <2>1 DEF InStep, EphemeralType
    <3>2. at \in Nat /\ deadlines[k] \in Nat \cup {Nothing}
      BY <3>1, InstantsAreNat DEF Term
    <3>3. deadlines[k] = Nothing \/ ~(at >= deadlines[k])
      BY <2>1, <3>1, <3>2
    <3>4. k \notin Overdue(at)
      BY <3>3 DEF Overdue
    <3> QED
      BY <2>1, <3>4 DEF Pinned
  <2> QED
    BY <2>1 DEF HeldForItsTerm, InStep
<1> QED
  BY <1>1, InStepHolds, PTL
=============================================================================
