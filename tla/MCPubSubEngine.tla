-------------------------- MODULE MCPubSubEngine --------------------------
(* Instances of PubSubEngine for TLC. *)
EXTENDS PubSubEngine, TLC

CONSTANTS c1, c2, k1, k2, a1, a2, t1, t2

MCGroup == [kind |-> "group", wire |-> c1]
MCReader == [kind |-> "reader", wire |-> k1, addr |-> a1]

\* Configurations staged at startup: one group, one reader, or one of each.
MCWriterConfig == <<MCGroup>>
MCReaderConfig == <<MCReader>>
MCConfig == <<MCGroup, MCReader>>

\* Owner tags are only compared with each other.
MCTagSymmetry == Permutations(Tags)
=============================================================================
