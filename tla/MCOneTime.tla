----------------------------- MODULE MCOneTime -----------------------------
(* Instances of OneTime small enough for TLC. *)
EXTENDS OneTime, TLC

\* Two executions and two inputs, of whose four pairs two have the same key.
JoinedScope == {<<"a">>, <<"a", "b">>}
JoinedInput == {<<"c">>, <<"b", "c">>}

OneScope == {<<"a">>}
OneInput == {<<"c">>}

\* A code is bound to a destination and a challenge; an attempt may name the
\* destination alone or with another challenge.
CONSTANTS d1, h1, h2
Sample(d, h) == [destination |-> d, challenge |-> h]
OneBinding == {Sample(d1, h1)}
TwoClaims == {Sample(d1, None), Sample(d1, h2)}

NoBindings == {Sample(None, None)}
=============================================================================
