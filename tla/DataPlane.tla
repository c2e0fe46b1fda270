----------------------------- MODULE DataPlane -----------------------------
(***************************************************************************)
(* What the Pub/Sub engine promises the owners of its dynamic entities:    *)
(* while it is up it holds a set of entities, each a writer group or a     *)
(* reader on some wire coordinates under an owner tag; an entity is added  *)
(* only on free coordinates, and all entities of a tag go together.        *)
(* PubSubEngine.tla implements it; FxEngine.tla uses it.                   *)
(***************************************************************************)
CONSTANTS Kinds, Wires, OwnerTags

VARIABLES up, owned

planeStateVars == <<up, owned>>

Entity == [kind: Kinds, wire: Wires, tag: OwnerTags]

Free(kind, wire) == \A x \in owned : x.kind # kind \/ x.wire # wire

PlaneInit == up = FALSE /\ owned = {}

\* With the entities configured at startup, whatever they are.
Start ==
    /\ ~up
    /\ up' = TRUE
    /\ owned' \subseteq Entity

Add(x) ==
    /\ up
    /\ Free(x.kind, x.wire)
    /\ owned' = owned \cup {x}
    /\ UNCHANGED up

Remove(tag) ==
    /\ up
    /\ owned' = {x \in owned : x.tag # tag}
    /\ UNCHANGED up

Stop ==
    /\ up
    /\ up' = FALSE
    /\ owned' = {}

PlaneNext ==
    \/ Start
    \/ \E x \in Entity : Add(x)
    \/ \E tag \in OwnerTags : Remove(tag)
    \/ Stop

PlaneSpec == PlaneInit /\ [][PlaneNext]_planeStateVars
=============================================================================
