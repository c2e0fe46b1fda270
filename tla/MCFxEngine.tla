---------------------------- MODULE MCFxEngine ----------------------------
(* Instances of FxEngine for TLC. *)
EXTENDS FxEngine

CONSTANTS e1, e2, d1, d2, a, b, cep1, cep2, cep3, k1, k2

\* Two entities; d1 is an output of each, d2 an input of each.
MCOutputs == [e \in Entities |-> {d1}]
MCInputs == [e \in Entities |-> {d2}]

MCAutoNames == <<cep1, cep2>>
MCLongAutoNames == <<cep1, cep2, cep3>>

MCNoAutoNames == <<>>

\* A configured Pub/Sub writer group with the coordinates of e2's output.
MCStaticWriters == {<<e2, d1>>}

MCOwnerTag(e, n) == <<"fx", e, n>>

\* The tags of entity "A" with connection "B/C" (here e1, a) and of entity
\* "A/B" with connection "C" (here e2, b) are both "fx:<component>/A/B/C".
MCSlashOwnerTag(e, n) == IF e = e2 /\ n = b THEN MCOwnerTag(e1, a) ELSE MCOwnerTag(e, n)
=============================================================================
