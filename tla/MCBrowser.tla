------------------------------ MODULE MCBrowser ------------------------------
(* Instances of BrowserBroker small enough for TLC. *)
EXTENDS BrowserBroker, TLC

\* One document of each place: the page's own, and one with a foreign frame.
OnePlace  == [d \in 1..1 |-> Origin]
TwoPlaces == [d \in 1..2 |-> IF d = 1 THEN {CHOOSE x \in Origin : TRUE} ELSE Origin]

Symmetry == Permutations(Op) \cup Permutations(Conn)

\* The longer run follows two families of behaviours: two native connections and two
\* browser handles before any permission or target, or one handle with its targets
\* and fills, whose page may be replaced.
FirstPage == page = [h \in Handle |-> 1]
Family ==
  \/ ids.target = 1 /\ probe = None /\ admin = None /\ FirstPage
  \/ ids.handle <= 2 /\ \A k \in Conn : conn[k] = None
=============================================================================
