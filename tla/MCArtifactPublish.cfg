SPECIFICATION Spec
CONSTANTS
    p1 = p1
    p2 = p2
    g1 = g1
    g2 = g2
    s1 = s1
    s2 = s2
    absent = absent
    Publishers <- MCPublishers
    Generations <- MCGenerations
    Shards <- MCShards
    ShardsOf <- MCShardsOf
    Absent = absent
    PowerFails = TRUE
SYMMETRY PublisherSymmetry
INVARIANTS RacingPublishersSucceed GenerationsWhole StagedIsDurable
PROPERTIES NoPoisonedObjects DeploymentServed

