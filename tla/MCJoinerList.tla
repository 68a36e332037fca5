---------------------------- MODULE MCJoinerList ----------------------------
(***************************************************************************)
(* Instances of JoinerList for TLC: two EUI64s that share a bit of the     *)
(* filter, the first of them written in lower or upper case.               *)
(***************************************************************************)
EXTENDS JoinerList

CONSTANTS lower, upper, other,   \* Names
          e1, e2,                \* Euis
          p1, p2                 \* Psks

MCEuis == {e1, e2}
MCPsks == {p1, p2}
MCBitsOf == [e \in MCEuis |-> IF e = e1 THEN {1, 2} ELSE {2, 3}]

Joiner(n, p) == [name |-> n, psk |-> p]

\* Two texts for e1.
AllNames == {lower, upper, other}
AllEuiOf == [n \in AllNames |-> IF n = other THEN e2 ELSE e1]

\* Lists that name no joiner twice, by its text.
DistinctBodies ==
  {<<Joiner(lower, p1)>>, <<Joiner(lower, p1), Joiner(other, p2)>>,
   <<Joiner(lower, p1), Joiner(upper, p2)>>,
   <<Joiner(other, p2), Bad>>, <<Bad>>, <<>>}
=============================================================================
