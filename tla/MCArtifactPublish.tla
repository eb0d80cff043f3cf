--------------------------- MODULE MCArtifactPublish ---------------------------
(* Two publishers, two generations that share one of two shards.             *)
EXTENDS ArtifactPublish, TLC
CONSTANTS p1, p2, g1, g2, s1, s2, absent

MCPublishers == {p1, p2}
MCGenerations == {g1, g2}
MCShards == {s1, s2}
MCShardsOf == (g1 :> {s1}) @@ (g2 :> {s1, s2})
PublisherSymmetry == Permutations(MCPublishers)
================================================================================
