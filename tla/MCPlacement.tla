----------------------------- MODULE MCPlacement -----------------------------
(***************************************************************************)
(* Placement on the small instances TLC checks: the sets the configurations*)
(* give to its constants.                                                  *)
(***************************************************************************)
EXTENDS PlacementProperties, TLC

CONSTANTS r1, r2, r3, u1, u2, g1, g2, g3, g4, c1, c2, s1, s2, p1, p2

OneSpec   == [c \in Cat |-> s1]

\* The SPRM may refuse a call: for good with 422, for now with 503.
SomeRefusals == [create |-> {422, 503}, delete |-> {503}, deferred |-> {}]
NoRefusals   == [create |-> {}, delete |-> {}, deferred |-> {}]
FewRefusals  == [create |-> {422}, delete |-> {503}, deferred |-> {}]
\* It cannot even queue a deferred deletion.
NoDeferral   == [create |-> {503}, delete |-> {503}, deferred |-> {503}]

Symmetry == Permutations(Req) \cup Permutations(Provider)
            \cup Permutations(UserId) \cup Permutations(Id \ UserId)
=============================================================================
