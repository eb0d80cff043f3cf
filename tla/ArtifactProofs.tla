----------------------------- MODULE ArtifactProofs -----------------------------
(***************************************************************************)
(* Proofs about the artifact store, for everybody who uses it.             *)
(*                                                                         *)
(* Publication, for any publishers, generations and shards: no generation  *)
(* is ever visible in part, a staged one is on disk before it is named,    *)
(* racing publishers do not fail each other, no object is damaged, and the *)
(* descriptor names a whole generation.  The inductive invariant adds what *)
(* a publisher knows of its stage once it is verified and synchronized,    *)
(* that every directory is synchronized, and what each publisher has seen. *)
(*                                                                         *)
(* Admission, for any modules, inputs, dependencies and number of edits: a *)
(* descriptor describes one moment, a module is admitted while its         *)
(* descriptor holds, and selected sources run only with facts that agree.  *)
(* The argument is that contents do not come back: an input that is the    *)
(* same at two moments was so between them, so a pass over the inputs that *)
(* finds each as it was read shows them all at the moment the pass began.  *)
(***************************************************************************)
EXTENDS ArtifactPublish, ArtifactLoad, SequenceTheorems, TLAPS

\* The steps are first-order over sets and functions and left to Zenon; the
\* ones with arithmetic, sequences or larger records name an SMT solver.
USE ZenonT(30)

(* Publication.                                                             *)

\* A publisher at work has a generation, and a shard while it handles one.
LocalsSet ==
    \A p \in Publishers :
      /\ pc[p] # "idle" => gen[p] \in Generations
      /\ pc[p] \in {"object", "persist", "syncobjects", "link"} => shard[p] \in Shards

\* Nothing unsynchronized has a generation's name.
DestSynced == \A g \in Generations : dest[g] # Absent => dest[g].synced

\* What is about to be renamed is whole and synchronized.
StageReady ==
    \A p \in Publishers : pc[p] \in {"rename", "raced"} =>
      Whole(stage[p], gen[p]) /\ stage[p].synced

\* What has been renamed, or verified after a lost race, is whole.
Landed == \A p \in Publishers : pc[p] = "syncroot" => Whole(dest[gen[p]], gen[p])

IInv == /\ TypeOK /\ LocalsSet /\ DestSynced /\ StageReady /\ Landed
        /\ GenerationsWhole /\ StagedIsDurable

--------------------------------------------------------------------------------
\* The initial stores, damaged or not, satisfy the invariant.
LEMMA InitIInv == Init => IInv
<1> SUFFICES ASSUME Init PROVE IInv
  OBVIOUS
<1>1. ForeignDir \in Dirs /\ ForeignDir.synced
  BY DEF ForeignDir, Dirs
<1>2. TypeOK
  BY <1>1, PublishAssumption DEF Init, TypeOK, Steps
<1>3. LocalsSet /\ StageReady /\ Landed /\ StagedIsDurable
  BY DEF Init, LocalsSet, StageReady, Landed, StagedIsDurable
<1>4. DestSynced /\ GenerationsWhole
  BY <1>1 DEF Init, DestSynced, GenerationsWhole
<1> QED
  BY <1>2, <1>3, <1>4 DEF IInv

\* A directory that survives the power is one, and a synchronized one is unchanged.
LEMMA SurvivingDirs ==
    ASSUME NEW d \in Dirs
    PROVE  /\ Surviving(d) \subseteq Dirs
           /\ d.synced => Surviving(d) = {d}
<1>1. CASE d.synced
  BY <1>1 DEF Surviving
<1>2. CASE ~d.synced
  BY <1>2 DEF Surviving, Dirs
<1> QED
  BY <1>1, <1>2

\* What a publisher does to its stage leaves it a directory.
LEMMA StageTypes ==
    ASSUME TypeOK, NEW p \in Publishers, stage[p] # Absent
    PROVE  /\ stage[p] \in Dirs
           /\ \A s \in Shards : [stage[p] EXCEPT !.shards = @ \cup {s}] \in Dirs
           /\ [stage[p] EXCEPT !.manifest = TRUE] \in Dirs
           /\ [stage[p] EXCEPT !.synced = TRUE] \in Dirs
           /\ [stage[p] EXCEPT !.synced = TRUE].shards = stage[p].shards
           /\ [stage[p] EXCEPT !.synced = TRUE].manifest = stage[p].manifest
           /\ [stage[p] EXCEPT !.synced = TRUE].synced
<1>1. stage[p] \in Dirs
  BY DEF TypeOK
<1> QED
  BY <1>1 DEF Dirs

--------------------------------------------------------------------------------
\* Every step keeps the invariant.
LEMMA NextIInv == IInv /\ [Next]_vars => IInv'
<1> SUFFICES ASSUME IInv, [Next]_vars PROVE IInv'
  OBVIOUS
<1> USE PublishAssumption
<1>0. TypeOK /\ LocalsSet /\ DestSynced /\ StageReady /\ Landed /\ GenerationsWhole /\ StagedIsDurable
  BY DEF IInv
<1>1. ASSUME NEW p \in Publishers, Start(p) PROVE IInv'
  <2>1. TypeOK'
    BY <1>0, <1>1, SMTT(20) DEF Start, At, Go, disk, TypeOK, LocalsSet, Steps
  <2>2. LocalsSet'
    BY <1>0, <1>1 DEF Start, At, Go, disk, TypeOK, LocalsSet
  <2>3. DestSynced' /\ GenerationsWhole'
    BY <1>0, <1>1 DEF Start, At, disk, TypeOK, LocalsSet, DestSynced, GenerationsWhole, StageReady, Whole
  <2>4. StageReady'
    BY <1>0, <1>1 DEF Start, At, Go, disk, TypeOK, LocalsSet, StageReady, Whole
  <2>5. Landed' /\ StagedIsDurable'
    BY <1>0, <1>1, SMTT(20) DEF Start, At, Go, disk, TypeOK, LocalsSet, StageReady, Landed, StagedIsDurable, Whole
  <2> QED
    BY <2>1, <2>2, <2>3, <2>4, <2>5 DEF IInv
<1>2. ASSUME NEW p \in Publishers, LookDestination(p) PROVE IInv'
  <2>0. EmptyDir \in Dirs
    BY DEF EmptyDir, Dirs
  <2>1. TypeOK'
    BY <1>0, <1>2, <2>0, SMTT(20) DEF LookDestination, At, Go, disk, TypeOK, LocalsSet, Steps
  <2>2. LocalsSet'
    BY <1>0, <1>2, SMTT(20) DEF LookDestination, At, Go, disk, TypeOK, LocalsSet
  <2>3. DestSynced' /\ GenerationsWhole'
    BY <1>0, <1>2 DEF LookDestination, At, disk, TypeOK, LocalsSet, DestSynced, GenerationsWhole, StageReady, Whole
  <2>4. StageReady'
    BY <1>0, <1>2, SMTT(20) DEF LookDestination, At, Go, disk, TypeOK, LocalsSet, StageReady, Whole
  <2>5. Landed' /\ StagedIsDurable'
    BY <1>0, <1>2, SMTT(20) DEF LookDestination, At, Go, disk, TypeOK, LocalsSet, StageReady, Landed, StagedIsDurable, Whole
  <2> QED
    BY <2>1, <2>2, <2>3, <2>4, <2>5 DEF IInv
<1>3. ASSUME NEW p \in Publishers, VerifyExisting(p) PROVE IInv'
  <2>1. TypeOK'
    BY <1>0, <1>3 DEF VerifyExisting, At, Go, disk, TypeOK, LocalsSet, Steps
  <2>2. LocalsSet'
    BY <1>0, <1>3 DEF VerifyExisting, At, Go, disk, TypeOK, LocalsSet
  <2>3. DestSynced' /\ GenerationsWhole'
    BY <1>0, <1>3 DEF VerifyExisting, At, disk, TypeOK, LocalsSet, DestSynced, GenerationsWhole, StageReady, Whole
  <2>4. StageReady'
    BY <1>0, <1>3 DEF VerifyExisting, At, Go, disk, TypeOK, LocalsSet, StageReady, Whole
  <2>5. Landed' /\ StagedIsDurable'
    BY <1>0, <1>3 DEF VerifyExisting, At, Go, disk, TypeOK, LocalsSet, StageReady, Landed, StagedIsDurable, Whole
  <2> QED
    BY <2>1, <2>2, <2>3, <2>4, <2>5 DEF IInv
<1>4. ASSUME NEW p \in Publishers, TakeShard(p) PROVE IInv'
  <2>1. TypeOK'
    BY <1>0, <1>4, SMTT(20) DEF TakeShard, At, Go, disk, TypeOK, LocalsSet, Steps
  <2>2. LocalsSet'
    BY <1>0, <1>4, SMTT(20) DEF TakeShard, At, Go, disk, TypeOK, LocalsSet
  <2>3. DestSynced' /\ GenerationsWhole'
    BY <1>0, <1>4 DEF TakeShard, At, disk, TypeOK, LocalsSet, DestSynced, GenerationsWhole, StageReady, Whole
  <2>4. StageReady'
    BY <1>0, <1>4, SMTT(20) DEF TakeShard, At, Go, disk, TypeOK, LocalsSet, StageReady, Whole
  <2>5. Landed' /\ StagedIsDurable'
    BY <1>0, <1>4, SMTT(20) DEF TakeShard, At, Go, disk, TypeOK, LocalsSet, StageReady, Landed, StagedIsDurable, Whole
  <2> QED
    BY <2>1, <2>2, <2>3, <2>4, <2>5 DEF IInv
<1>5. ASSUME NEW p \in Publishers, WriteObject(p) PROVE IInv'
  <2>1. TypeOK'
    BY <1>0, <1>5 DEF WriteObject, At, Go, disk, TypeOK, LocalsSet, Steps
  <2>2. LocalsSet'
    BY <1>0, <1>5 DEF WriteObject, At, Go, disk, TypeOK, LocalsSet
  <2>3. DestSynced' /\ GenerationsWhole'
    BY <1>0, <1>5 DEF WriteObject, At, disk, TypeOK, LocalsSet, DestSynced, GenerationsWhole, StageReady, Whole
  <2>4. StageReady'
    BY <1>0, <1>5 DEF WriteObject, At, Go, disk, TypeOK, LocalsSet, StageReady, Whole
  <2>5. Landed' /\ StagedIsDurable'
    BY <1>0, <1>5 DEF WriteObject, At, Go, disk, TypeOK, LocalsSet, StageReady, Landed, StagedIsDurable, Whole
  <2> QED
    BY <2>1, <2>2, <2>3, <2>4, <2>5 DEF IInv
<1>6. ASSUME NEW p \in Publishers, PersistObject(p) PROVE IInv'
  <2>1. TypeOK'
    BY <1>0, <1>6, SMTT(20) DEF PersistObject, At, Go, disk, TypeOK, LocalsSet, Steps
  <2>2. LocalsSet'
    BY <1>0, <1>6, SMTT(20) DEF PersistObject, At, Go, disk, TypeOK, LocalsSet
  <2>3. DestSynced' /\ GenerationsWhole'
    BY <1>0, <1>6 DEF PersistObject, At, disk, TypeOK, LocalsSet, DestSynced, GenerationsWhole, StageReady, Whole
  <2>4. StageReady'
    BY <1>0, <1>6, SMTT(20) DEF PersistObject, At, Go, disk, TypeOK, LocalsSet, StageReady, Whole
  <2>5. Landed' /\ StagedIsDurable'
    BY <1>0, <1>6, SMTT(20) DEF PersistObject, At, Go, disk, TypeOK, LocalsSet, StageReady, Landed, StagedIsDurable, Whole
  <2> QED
    BY <2>1, <2>2, <2>3, <2>4, <2>5 DEF IInv
<1>7. ASSUME NEW p \in Publishers, SyncObjects(p) PROVE IInv'
  <2>1. TypeOK'
    BY <1>0, <1>7 DEF SyncObjects, At, Go, disk, TypeOK, LocalsSet, Steps
  <2>2. LocalsSet'
    BY <1>0, <1>7 DEF SyncObjects, At, Go, disk, TypeOK, LocalsSet
  <2>3. DestSynced' /\ GenerationsWhole'
    BY <1>0, <1>7 DEF SyncObjects, At, disk, TypeOK, LocalsSet, DestSynced, GenerationsWhole, StageReady, Whole
  <2>4. StageReady'
    BY <1>0, <1>7 DEF SyncObjects, At, Go, disk, TypeOK, LocalsSet, StageReady, Whole
  <2>5. Landed' /\ StagedIsDurable'
    BY <1>0, <1>7 DEF SyncObjects, At, Go, disk, TypeOK, LocalsSet, StageReady, Landed, StagedIsDurable, Whole
  <2> QED
    BY <2>1, <2>2, <2>3, <2>4, <2>5 DEF IInv
<1>8. ASSUME NEW p \in Publishers, Link(p) PROVE IInv'
  <2> DEFINE staged == [stage[p] EXCEPT !.shards = @ \cup {shard[p]}]
  <2>a. stage[p] # Absent /\ shard[p] \in Shards
    BY <1>0, <1>8 DEF Link, At, TypeOK, LocalsSet
  <2>b. staged \in Dirs
    BY <1>0, <2>a, StageTypes
  <2>c. stage' = [stage EXCEPT ![p] = staged]
    BY <1>8 DEF Link
  <2> HIDE DEF staged
  <2>1. TypeOK'
    <3>1. /\ pc[p] = "link" /\ pc' = [pc EXCEPT ![p] = "shards"]
          /\ UNCHANGED <<objects, objectsDisk, dest, destDisk, deployment, deployDisk, foreign>>
          /\ UNCHANGED <<gen, todo, shard, faulted>>
      BY <1>8 DEF Link, At, Go, disk
    <3> QED
      BY <1>0, <2>b, <2>c, <3>1 DEF TypeOK, Steps
  <2>2. LocalsSet'
    BY <1>0, <1>8 DEF Link, At, Go, disk, TypeOK, LocalsSet
  <2>3. DestSynced' /\ GenerationsWhole'
    BY <1>0, <1>8 DEF Link, At, disk, TypeOK, LocalsSet, DestSynced, GenerationsWhole, StageReady, Whole
  <2>4. StageReady'
    BY <1>0, <1>8, <2>c DEF Link, At, Go, disk, TypeOK, LocalsSet, StageReady, Whole
  <2>5. Landed' /\ StagedIsDurable'
    BY <1>0, <1>8 DEF Link, At, Go, disk, TypeOK, LocalsSet, StageReady, Landed, StagedIsDurable, Whole
  <2> QED
    BY <2>1, <2>2, <2>3, <2>4, <2>5 DEF IInv
<1>9. ASSUME NEW p \in Publishers, WriteManifest(p) PROVE IInv'
  <2> DEFINE staged == [stage[p] EXCEPT !.manifest = TRUE]
  <2>a. stage[p] # Absent
    BY <1>0, <1>9 DEF WriteManifest, At, TypeOK, LocalsSet
  <2>b. staged \in Dirs
    BY <1>0, <2>a, StageTypes
  <2>c. stage' = [stage EXCEPT ![p] = staged]
    BY <1>9 DEF WriteManifest
  <2> HIDE DEF staged
  <2>1. TypeOK'
    <3>1. /\ pc[p] = "shards" /\ pc' = [pc EXCEPT ![p] = "sync"]
          /\ UNCHANGED <<objects, objectsDisk, dest, destDisk, deployment, deployDisk, foreign>>
          /\ UNCHANGED <<gen, todo, shard, faulted>>
      BY <1>9 DEF WriteManifest, At, Go, disk
    <3> QED
      BY <1>0, <2>b, <2>c, <3>1 DEF TypeOK, Steps
  <2>2. LocalsSet'
    BY <1>0, <1>9 DEF WriteManifest, At, Go, disk, TypeOK, LocalsSet
  <2>3. DestSynced' /\ GenerationsWhole'
    BY <1>0, <1>9 DEF WriteManifest, At, disk, TypeOK, LocalsSet, DestSynced, GenerationsWhole, StageReady, Whole
  <2>4. StageReady'
    BY <1>0, <1>9, <2>c DEF WriteManifest, At, Go, disk, TypeOK, LocalsSet, StageReady, Whole
  <2>5. Landed' /\ StagedIsDurable'
    BY <1>0, <1>9 DEF WriteManifest, At, Go, disk, TypeOK, LocalsSet, StageReady, Landed, StagedIsDurable, Whole
  <2> QED
    BY <2>1, <2>2, <2>3, <2>4, <2>5 DEF IInv
<1>10. ASSUME NEW p \in Publishers, SyncStage(p) PROVE IInv'
  <2> DEFINE staged == [stage[p] EXCEPT !.synced = TRUE]
  <2>a. stage[p] # Absent
    BY <1>0, <1>10 DEF SyncStage, At, TypeOK, LocalsSet
  <2>b. staged \in Dirs
    BY <1>0, <2>a, StageTypes
  <2>c. stage' = [stage EXCEPT ![p] = staged]
    BY <1>10 DEF SyncStage
  <2>d. Whole(staged, gen[p]) /\ staged.synced
    BY <1>0, <1>10, <2>a, <2>b, StageTypes DEF SyncStage, Whole
  <2> HIDE DEF staged
  <2>1. TypeOK'
    <3>1. /\ pc[p] = "sync" /\ pc' = [pc EXCEPT ![p] = "rename"]
          /\ UNCHANGED <<objects, objectsDisk, dest, destDisk, deployment, deployDisk, foreign>>
          /\ UNCHANGED <<gen, todo, shard, faulted>>
      BY <1>10 DEF SyncStage, At, Go, disk
    <3> QED
      BY <1>0, <2>b, <2>c, <3>1 DEF TypeOK, Steps
  <2>2. LocalsSet'
    BY <1>0, <1>10 DEF SyncStage, At, Go, disk, TypeOK, LocalsSet
  <2>3. DestSynced' /\ GenerationsWhole'
    BY <1>0, <1>10 DEF SyncStage, At, disk, TypeOK, LocalsSet, DestSynced, GenerationsWhole, StageReady, Whole
  <2>4. StageReady'
    BY <1>0, <1>10, <2>c, <2>d DEF SyncStage, At, Go, disk, TypeOK, LocalsSet, StageReady
  <2>5. Landed' /\ StagedIsDurable'
    BY <1>0, <1>10 DEF SyncStage, At, Go, disk, TypeOK, LocalsSet, StageReady, Landed, StagedIsDurable, Whole
  <2> QED
    BY <2>1, <2>2, <2>3, <2>4, <2>5 DEF IInv
<1>11. ASSUME NEW p \in Publishers, Rename(p) PROVE IInv'
  <2>1. TypeOK'
    BY <1>0, <1>11, StageTypes, SMTT(20) DEF Rename, At, Go, disk, TypeOK, LocalsSet, Steps
  <2>2. LocalsSet'
    BY <1>0, <1>11, SMTT(20) DEF Rename, At, Go, disk, TypeOK, LocalsSet
  <2>3. DestSynced' /\ GenerationsWhole'
    BY <1>0, <1>11, SMTT(20) DEF Rename, At, disk, TypeOK, LocalsSet, DestSynced, GenerationsWhole, StageReady, Whole
  <2>4. StageReady'
    BY <1>0, <1>11, StageTypes, SMTT(20) DEF Rename, At, Go, disk, TypeOK, LocalsSet, StageReady, Whole
  <2>5. Landed' /\ StagedIsDurable'
    BY <1>0, <1>11, SMTT(20) DEF Rename, At, Go, disk, TypeOK, LocalsSet, StageReady, Landed, StagedIsDurable, Whole
  <2> QED
    BY <2>1, <2>2, <2>3, <2>4, <2>5 DEF IInv
<1>12. ASSUME NEW p \in Publishers, VerifyRaced(p) PROVE IInv'
  <2>1. TypeOK'
    BY <1>0, <1>12 DEF VerifyRaced, At, Go, disk, TypeOK, LocalsSet, Steps
  <2>2. LocalsSet'
    BY <1>0, <1>12 DEF VerifyRaced, At, Go, disk, TypeOK, LocalsSet
  <2>3. DestSynced' /\ GenerationsWhole'
    BY <1>0, <1>12 DEF VerifyRaced, At, disk, TypeOK, LocalsSet, DestSynced, GenerationsWhole, StageReady, Whole
  <2>4. StageReady'
    BY <1>0, <1>12 DEF VerifyRaced, At, Go, disk, TypeOK, LocalsSet, StageReady, Whole
  <2>5. Landed' /\ StagedIsDurable'
    BY <1>0, <1>12 DEF VerifyRaced, At, Go, disk, TypeOK, LocalsSet, StageReady, Landed, StagedIsDurable, Whole
  <2> QED
    BY <2>1, <2>2, <2>3, <2>4, <2>5 DEF IInv
<1>13. ASSUME NEW p \in Publishers, SyncRoot(p) PROVE IInv'
  <2>1. TypeOK'
    BY <1>0, <1>13 DEF SyncRoot, At, Go, disk, TypeOK, LocalsSet, Steps
  <2>2. LocalsSet'
    BY <1>0, <1>13 DEF SyncRoot, At, Go, disk, TypeOK, LocalsSet
  <2>3. DestSynced' /\ GenerationsWhole'
    BY <1>0, <1>13 DEF SyncRoot, At, disk, TypeOK, LocalsSet, DestSynced, GenerationsWhole, StageReady, Whole
  <2>4. StageReady'
    BY <1>0, <1>13 DEF SyncRoot, At, Go, disk, TypeOK, LocalsSet, StageReady, Whole
  <2>5. Landed' /\ StagedIsDurable'
    BY <1>0, <1>13 DEF SyncRoot, At, Go, disk, TypeOK, LocalsSet, StageReady, Landed, StagedIsDurable, Whole
  <2> QED
    BY <2>1, <2>2, <2>3, <2>4, <2>5 DEF IInv
<1>14. ASSUME NEW p \in Publishers, PersistDeployment(p) PROVE IInv'
  <2>1. TypeOK'
    BY <1>0, <1>14 DEF PersistDeployment, At, Go, disk, TypeOK, LocalsSet, Steps
  <2>2. LocalsSet'
    BY <1>0, <1>14 DEF PersistDeployment, At, Go, disk, TypeOK, LocalsSet
  <2>3. DestSynced' /\ GenerationsWhole'
    BY <1>0, <1>14 DEF PersistDeployment, At, disk, TypeOK, LocalsSet, DestSynced, GenerationsWhole, StageReady, Whole
  <2>4. StageReady'
    BY <1>0, <1>14 DEF PersistDeployment, At, Go, disk, TypeOK, LocalsSet, StageReady, Whole
  <2>5. Landed' /\ StagedIsDurable'
    BY <1>0, <1>14 DEF PersistDeployment, At, Go, disk, TypeOK, LocalsSet, StageReady, Landed, StagedIsDurable, Whole
  <2> QED
    BY <2>1, <2>2, <2>3, <2>4, <2>5 DEF IInv
<1>15. ASSUME NEW p \in Publishers, SyncDeployment(p) PROVE IInv'
  <2>1. TypeOK'
    BY <1>0, <1>15 DEF SyncDeployment, At, Go, disk, TypeOK, LocalsSet, Steps
  <2>2. LocalsSet'
    BY <1>0, <1>15 DEF SyncDeployment, At, Go, disk, TypeOK, LocalsSet
  <2>3. DestSynced' /\ GenerationsWhole'
    BY <1>0, <1>15 DEF SyncDeployment, At, disk, TypeOK, LocalsSet, DestSynced, GenerationsWhole, StageReady, Whole
  <2>4. StageReady'
    BY <1>0, <1>15 DEF SyncDeployment, At, Go, disk, TypeOK, LocalsSet, StageReady, Whole
  <2>5. Landed' /\ StagedIsDurable'
    BY <1>0, <1>15 DEF SyncDeployment, At, Go, disk, TypeOK, LocalsSet, StageReady, Landed, StagedIsDurable, Whole
  <2> QED
    BY <2>1, <2>2, <2>3, <2>4, <2>5 DEF IInv
<1>16. ASSUME NEW p \in Publishers, Fail(p) PROVE IInv'
  <2>1. TypeOK'
    BY <1>0, <1>16 DEF Fail, At, Go, disk, TypeOK, LocalsSet, Steps, Working
  <2>2. LocalsSet'
    BY <1>0, <1>16 DEF Fail, At, Go, disk, TypeOK, LocalsSet, Working
  <2>3. DestSynced' /\ GenerationsWhole'
    BY <1>0, <1>16 DEF Fail, At, disk, TypeOK, LocalsSet, DestSynced, GenerationsWhole, StageReady, Whole
  <2>4. StageReady'
    BY <1>0, <1>16 DEF Fail, At, Go, disk, TypeOK, LocalsSet, StageReady, Whole
  <2>5. Landed' /\ StagedIsDurable'
    BY <1>0, <1>16 DEF Fail, At, Go, disk, TypeOK, LocalsSet, StageReady, Landed, StagedIsDurable, Whole
  <2> QED
    BY <2>1, <2>2, <2>3, <2>4, <2>5 DEF IInv
<1>17. ASSUME NEW p \in Publishers, Rerun(p) PROVE IInv'
  <2>1. TypeOK'
    BY <1>0, <1>17 DEF Rerun, At, Go, disk, TypeOK, LocalsSet, Steps
  <2>2. LocalsSet'
    BY <1>0, <1>17 DEF Rerun, At, Go, disk, TypeOK, LocalsSet
  <2>3. DestSynced' /\ GenerationsWhole'
    BY <1>0, <1>17 DEF Rerun, At, disk, TypeOK, LocalsSet, DestSynced, GenerationsWhole, StageReady, Whole
  <2>4. StageReady'
    BY <1>0, <1>17 DEF Rerun, At, Go, disk, TypeOK, LocalsSet, StageReady, Whole
  <2>5. Landed' /\ StagedIsDurable'
    BY <1>0, <1>17 DEF Rerun, At, Go, disk, TypeOK, LocalsSet, StageReady, Landed, StagedIsDurable, Whole
  <2> QED
    BY <2>1, <2>2, <2>3, <2>4, <2>5 DEF IInv
<1>18. ASSUME NEW g \in Generations, Deposit(g) PROVE IInv'
  <2>1. ForeignDir \in Dirs /\ ForeignDir.synced
    BY DEF ForeignDir, Dirs
  <2>2. TypeOK' /\ LocalsSet' /\ StageReady'
    BY <1>0, <1>18, <2>1 DEF Deposit, locals, TypeOK, LocalsSet, StageReady
  <2>3. DestSynced' /\ GenerationsWhole'
    BY <1>0, <1>18, <2>1 DEF Deposit, TypeOK, DestSynced, GenerationsWhole
  <2>4. Landed' /\ StagedIsDurable'
    BY <1>0, <1>18 DEF Deposit, locals, TypeOK, LocalsSet, Landed, StagedIsDurable, Whole
  <2> QED
    BY <2>2, <2>3, <2>4 DEF IInv
<1>19. ASSUME PowerLoss PROVE IInv'
  <2>1. \A g \in Generations : AfterLoss(g) \subseteq {dest[g], Absent}
    BY <1>0, SurvivingDirs, SMTT(20) DEF AfterLoss, TypeOK, DestSynced
  <2>2. dest' \in [Generations -> Dirs \cup {Absent}]
        /\ \A g \in Generations : dest'[g] \in {dest[g], Absent}
    BY <1>0, <1>19, <2>1 DEF PowerLoss, TypeOK
  <2>3. TypeOK'
    BY <1>0, <1>19, <2>2 DEF PowerLoss, TypeOK, Steps
  <2>4. LocalsSet' /\ StageReady' /\ Landed' /\ StagedIsDurable'
    BY <1>19 DEF PowerLoss, LocalsSet, StageReady, Landed, StagedIsDurable
  <2>5. DestSynced' /\ GenerationsWhole'
    BY <1>0, <1>19, <2>2 DEF PowerLoss, DestSynced, GenerationsWhole, Whole
  <2> QED
    BY <2>3, <2>4, <2>5 DEF IInv
<1>20. CASE UNCHANGED vars
  BY <1>0, <1>20 DEF vars, disk, locals, IInv, TypeOK, LocalsSet, DestSynced, StageReady, Landed,
     GenerationsWhole, StagedIsDurable, Whole
<1> QED
  BY <1>1, <1>2, <1>3, <1>4, <1>5, <1>6, <1>7, <1>8, <1>9, <1>10, <1>11, <1>12, <1>13, <1>14, <1>15, <1>16, <1>17, <1>18, <1>19, <1>20 DEF Next

\* The inductive invariant holds in every behaviour.
THEOREM Inductive == Spec => []IInv
  BY InitIInv, NextIInv, PTL DEF Spec

\* Every variable keeps its type, and no error path of publish leaves a stage behind.
THEOREM TypeCorrect == Spec => []TypeOK
  BY Inductive, PTL DEF IInv

\* No generation is ever visible in part, through races, deaths and power losses.
THEOREM GenerationsWholeHolds == Spec => []GenerationsWhole
  BY Inductive, PTL DEF IInv

\* A publisher that staged its generation names it only once it is on disk.
THEOREM StagedIsDurableHolds == Spec => []StagedIsDurable
  BY Inductive, PTL DEF IInv
--------------------------------------------------------------------------------
(* Races, damage and the deployment descriptor.                             *)

\* What a publisher has seen stays true of the shared directories: a generation
\* found in place is still there, the shards are those of its manifest, and the
\* generation it verified is whole.
Seen(p) ==
    /\ pc[p] \in {"existing", "raced"} => dest[gen[p]] # Absent
    /\ pc[p] \in {"shards", "object", "persist", "syncobjects", "link"} => todo[p] \subseteq ShardsOf[gen[p]]
    /\ pc[p] \in {"object", "persist", "syncobjects", "link"} => shard[p] \in ShardsOf[gen[p]]
    /\ pc[p] = "found" => Whole(dest[gen[p]], gen[p])

Excused(p) ==
    pc[p] = "error" => \/ p \in faulted \/ gen[p] \in foreign
                       \/ \E s \in ShardsOf[gen[p]] : objects[s] = "bad"

AllSeen == \A p \in Publishers : Seen(p) /\ Excused(p)

\* What no step but a loss of power undoes.
Lasting ==
    /\ \A g \in Generations : dest[g] # Absent => dest'[g] = dest[g]
    /\ \A s \in Shards : objects[s] = "bad" => objects'[s] = "bad"
    /\ \A s \in Shards : objects'[s] = "bad" => objects[s] = "bad"
    /\ foreign \subseteq foreign'

Moves(p) ==
    \/ Start(p) \/ LookDestination(p) \/ VerifyExisting(p)
    \/ TakeShard(p) \/ WriteObject(p) \/ PersistObject(p) \/ SyncObjects(p) \/ Link(p)
    \/ WriteManifest(p) \/ SyncStage(p) \/ Rename(p) \/ VerifyRaced(p) \/ SyncRoot(p)
    \/ PersistDeployment(p) \/ SyncDeployment(p)
    \/ Fail(p) \/ Rerun(p)

\* A step of p leaves the locals of q alone.
Leaves(q) == /\ pc'[q] = pc[q] /\ gen'[q] = gen[q] /\ todo'[q] = todo[q] /\ shard'[q] = shard[q]
             /\ q \in faulted' <=> q \in faulted

\* A publisher adds to the shared directories, and leaves the other publishers
\* alone.
LEMMA MovesLast ==
    ASSUME IInv, NEW p \in Publishers, Moves(p)
    PROVE  Lasting /\ \A q \in Publishers \ {p} : Leaves(q)
<1>0. TypeOK /\ LocalsSet
  BY DEF IInv
<1>1. Lasting
  <2>1. CASE PersistObject(p)
    <3>1. shard[p] \in Shards
      BY <1>0, <2>1 DEF PersistObject, At, LocalsSet
    <3> QED  BY <1>0, <2>1, <3>1 DEF PersistObject, Lasting, TypeOK
  <2>2. CASE Rename(p)
    BY <1>0, <2>2 DEF Rename, Lasting, TypeOK
  <2>3. CASE UNCHANGED <<objects, dest, foreign>>
    BY <2>3 DEF Lasting
  <2> QED  BY <2>1, <2>2, <2>3 DEF Moves, Start, LookDestination, VerifyExisting, TakeShard, WriteObject, SyncObjects,
              Link, WriteManifest, SyncStage, VerifyRaced, SyncRoot, PersistDeployment, SyncDeployment, Fail, Rerun, disk
<1>2. ASSUME NEW q \in Publishers \ {p} PROVE Leaves(q)
  <2>1. pc'[q] = pc[q]
    <3>1. CASE Start(p) \/ LookDestination(p) \/ TakeShard(p) \/ PersistObject(p)
      BY <1>0, <3>1, SMTT(20) DEF Start, LookDestination, TakeShard, PersistObject, Go, TypeOK
    <3>2. CASE \/ VerifyExisting(p) \/ WriteObject(p) \/ SyncObjects(p) \/ Link(p) \/ WriteManifest(p) \/ SyncStage(p)
               \/ Rename(p) \/ VerifyRaced(p) \/ SyncRoot(p) \/ PersistDeployment(p) \/ SyncDeployment(p) \/ Fail(p) \/ Rerun(p)
      BY <1>0, <3>2 DEF VerifyExisting, WriteObject, SyncObjects, Link, WriteManifest, SyncStage, Rename, VerifyRaced,
                        SyncRoot, PersistDeployment, SyncDeployment, Fail, Rerun, Go, TypeOK
    <3> QED  BY <3>1, <3>2 DEF Moves
  <2>2. gen'[q] = gen[q] /\ todo'[q] = todo[q] /\ shard'[q] = shard[q] /\ (q \in faulted' <=> q \in faulted)
    BY <1>0 DEF Moves, Start, LookDestination, VerifyExisting, TakeShard, WriteObject, PersistObject, SyncObjects, Link,
       WriteManifest, SyncStage, Rename, VerifyRaced, SyncRoot, PersistDeployment, SyncDeployment, Fail, Rerun, TypeOK
  <2> QED  BY <2>1, <2>2 DEF Leaves
<1> QED  BY <1>1, <1>2

\* What a publisher has seen survives the steps of the others.
LEMMA SeenFrame ==
    ASSUME IInv, Lasting, NEW q \in Publishers, Leaves(q), Seen(q), Excused(q)
    PROVE  Seen(q)' /\ Excused(q)'
<1>1. pc[q] # "idle" => gen[q] \in Generations
  BY DEF IInv, LocalsSet
<1>2. pc[q] # "idle" => ShardsOf[gen[q]] \subseteq Shards
  BY <1>1, PublishAssumption
<1>3. Seen(q)'
  BY <1>1 DEF Seen, Leaves, Lasting, Whole
<1>4. Excused(q)'
  BY <1>1, <1>2 DEF Excused, Leaves, Lasting
<1> QED  BY <1>3, <1>4

\* And what it sees in its own.
LEMMA SeenOwn ==
    ASSUME IInv, Lasting, NEW p \in Publishers, Moves(p), Seen(p), Excused(p)
    PROVE  Seen(p)' /\ Excused(p)'
<1>0. TypeOK /\ LocalsSet /\ GenerationsWhole
  BY DEF IInv
<1>1. CASE Start(p) \/ Rerun(p)
  BY <1>0, <1>1 DEF Start, Rerun, Go, Seen, Excused, TypeOK
<1>2. CASE LookDestination(p)
  <2>1. gen[p] \in Generations
    BY <1>0, <1>2 DEF LookDestination, At, LocalsSet
  <2> QED  BY <1>0, <1>2, <2>1, SMTT(20) DEF LookDestination, At, Go, disk, Seen, Excused, TypeOK
<1>3. CASE VerifyExisting(p)
  <2>1. gen[p] \in Generations /\ dest[gen[p]] # Absent
    BY <1>0, <1>3 DEF VerifyExisting, At, LocalsSet, Seen
  <2>2. Whole(dest[gen[p]], gen[p]) \/ gen[p] \in foreign
    BY <1>0, <2>1 DEF GenerationsWhole
  <2>3. /\ pc'[p] = (IF Whole(dest[gen[p]], gen[p]) THEN "found" ELSE "error")
        /\ UNCHANGED <<dest, foreign, gen>>
    BY <1>0, <1>3 DEF VerifyExisting, Go, TypeOK, disk
  <2> QED  BY <2>2, <2>3 DEF Seen, Excused, Whole
<1>4. CASE TakeShard(p)
  <2>1. PICK s \in todo[p] :
           /\ shard' = [shard EXCEPT ![p] = s] /\ todo' = [todo EXCEPT ![p] = @ \ {s}]
           /\ \/ pc' = [pc EXCEPT ![p] = "object"] \/ pc' = [pc EXCEPT ![p] = "link"]
              \/ objects[s] = "bad" /\ pc' = [pc EXCEPT ![p] = "error"]
    BY <1>4 DEF TakeShard, Go
  <2>2. todo[p] \subseteq ShardsOf[gen[p]]
    BY <1>4 DEF TakeShard, At, Seen
  <2>3. UNCHANGED <<objects, gen>>
    BY <1>4 DEF TakeShard, disk
  <2> QED  BY <1>0, <2>1, <2>2, <2>3 DEF Seen, Excused, TypeOK
<1>5. CASE PersistObject(p)
  <2>1. shard[p] \in ShardsOf[gen[p]] /\ todo[p] \subseteq ShardsOf[gen[p]]
    BY <1>5 DEF PersistObject, At, Seen
  <2>2. \/ pc'[p] \in {"syncobjects", "link"}
        \/ objects'[shard[p]] = "bad" /\ pc'[p] = "error"
    BY <1>0, <1>5 DEF PersistObject, Go, TypeOK
  <2>3. UNCHANGED <<gen, todo, shard>>
    BY <1>5 DEF PersistObject
  <2> QED  BY <2>1, <2>2, <2>3 DEF Seen, Excused
<1>6. CASE WriteObject(p) \/ SyncObjects(p) \/ Link(p)
  <2>1. UNCHANGED <<gen, todo, shard>>
    BY <1>6 DEF WriteObject, SyncObjects, Link
  <2>2. pc'[p] \in {"persist", "link", "shards"} /\ pc[p] \in {"object", "syncobjects", "link"}
    BY <1>0, <1>6 DEF WriteObject, SyncObjects, Link, At, Go, TypeOK
  <2> QED  BY <2>1, <2>2 DEF Seen, Excused
<1>7. CASE WriteManifest(p) \/ SyncStage(p) \/ SyncRoot(p) \/ PersistDeployment(p) \/ SyncDeployment(p)
  <2>1. pc'[p] \in {"sync", "rename", "published", "syncdeploy", "done"}
    BY <1>0, <1>7 DEF WriteManifest, SyncStage, SyncRoot, PersistDeployment, SyncDeployment, Go, TypeOK
  <2> QED  BY <2>1 DEF Seen, Excused
<1>8. CASE Rename(p)
  <2>1. pc'[p] = "syncroot" \/ (pc'[p] = "raced" /\ dest[gen[p]] # Absent /\ UNCHANGED <<dest, gen>>)
    BY <1>0, <1>8 DEF Rename, Go, TypeOK
  <2> QED  BY <2>1 DEF Seen, Excused
<1>9. CASE VerifyRaced(p)
  <2>1. gen[p] \in Generations /\ dest[gen[p]] # Absent
    BY <1>0, <1>9 DEF VerifyRaced, At, LocalsSet, Seen
  <2>2. Whole(dest[gen[p]], gen[p]) \/ gen[p] \in foreign
    BY <1>0, <2>1 DEF GenerationsWhole
  <2>3. /\ pc'[p] = (IF Whole(dest[gen[p]], gen[p]) THEN "syncroot" ELSE "error")
        /\ UNCHANGED <<foreign, gen>>
    BY <1>0, <1>9 DEF VerifyRaced, Go, TypeOK
  <2> QED  BY <2>2, <2>3 DEF Seen, Excused
<1>10. CASE Fail(p)
  <2>1. pc'[p] = "error" /\ p \in faulted'
    BY <1>0, <1>10 DEF Fail, Go, TypeOK
  <2> QED  BY <2>1 DEF Seen, Excused
<1> QED  BY <1>1, <1>2, <1>3, <1>4, <1>5, <1>6, <1>7, <1>8, <1>9, <1>10 DEF Moves

\* Somebody's deposit takes a name nobody has.
LEMMA DepositLasts == ASSUME IInv, NEW g \in Generations, Deposit(g) PROVE Lasting /\ \A q \in Publishers : Leaves(q)
BY DEF IInv, TypeOK, Deposit, Lasting, Leaves, locals

\* The steps are those of the publishers and of their surroundings.
LEMMA StepKinds ==
    ASSUME [Next]_vars
    PROVE  (\E p \in Publishers : Moves(p)) \/ (\E g \in Generations : Deposit(g)) \/ PowerLoss \/ UNCHANGED vars
BY DEF Next, Moves

\* Every step keeps what the publishers have seen.
LEMMA NextSeen == IInv /\ AllSeen /\ [Next]_vars => AllSeen'
<1> SUFFICES ASSUME IInv, AllSeen, [Next]_vars PROVE AllSeen'
  OBVIOUS
<1>1. ASSUME NEW p \in Publishers, Moves(p) PROVE AllSeen'
  <2>1. Lasting /\ \A q \in Publishers \ {p} : Leaves(q)
    BY <1>1, MovesLast
  <2>2. Seen(p)' /\ Excused(p)'
    BY <1>1, <2>1, SeenOwn DEF AllSeen
  <2>3. \A q \in Publishers \ {p} : Seen(q)' /\ Excused(q)'
    BY <2>1, SeenFrame DEF AllSeen
  <2> QED  BY <2>2, <2>3 DEF AllSeen
<1>2. ASSUME NEW g \in Generations, Deposit(g) PROVE AllSeen'
  <2>1. \A q \in Publishers : Seen(q)' /\ Excused(q)'
    BY <1>2, DepositLasts, SeenFrame DEF AllSeen
  <2> QED  BY <2>1 DEF AllSeen
<1>3. CASE PowerLoss
  BY <1>3 DEF PowerLoss, AllSeen, Seen, Excused
<1>4. CASE UNCHANGED vars
  BY <1>4 DEF vars, disk, locals, AllSeen, Seen, Excused, Whole
<1> QED  BY <1>1, <1>2, <1>3, <1>4, StepKinds

\* Publishers that race for shards, for a generation or for its name never make
\* each other fail: an error is an I/O error, a changed input or found damage.
THEOREM RacingPublishersSucceedHolds == Spec => []RacingPublishersSucceed
<1>1. Init => AllSeen
  BY DEF Init, AllSeen, Seen, Excused
<1>2. AllSeen => RacingPublishersSucceed
  BY DEF AllSeen, Excused, RacingPublishersSucceed
<1> QED  BY <1>1, <1>2, Inductive, NextSeen, PTL DEF Spec

\* No publisher damages a shard, whenever it dies or loses its race.
THEOREM NoPoisonedObjectsHolds == Spec => NoPoisonedObjects
<1>1. IInv /\ [Next]_vars => [\A s \in Shards : objects'[s] = "bad" => objects[s] = "bad"]_vars
  <2> SUFFICES ASSUME IInv, [Next]_vars, NEW s \in Shards, objects'[s] = "bad" PROVE objects[s] = "bad"
    OBVIOUS
  <2>1. ASSUME NEW p \in Publishers, Moves(p) PROVE objects[s] = "bad"
    BY <2>1, MovesLast DEF Lasting
  <2>2. ASSUME NEW g \in Generations, Deposit(g) PROVE objects[s] = "bad"
    BY <2>2, DepositLasts DEF Lasting
  <2>3. CASE PowerLoss
    BY <2>3 DEF PowerLoss
  <2>4. CASE UNCHANGED vars
    BY <2>4 DEF vars, disk
  <2> QED  BY <2>1, <2>2, <2>3, <2>4, StepKinds
<1> QED  BY <1>1, Inductive, PTL DEF Spec, NoPoisonedObjects

\* The descriptor names a whole generation whenever it is written, and what it
\* names stays whole until the power is lost.
THEOREM DeploymentServedHolds == Spec => DeploymentServed
<1>1. Init => AllSeen
  BY DEF Init, AllSeen, Seen, Excused
<1>2. IInv /\ AllSeen /\ [Next]_vars => [Served \/ deployment' # deployment => Served' \/ PowerLoss]_vars
  <2> SUFFICES ASSUME IInv, AllSeen, [Next]_vars, Served \/ deployment' # deployment, ~PowerLoss PROVE Served'
    OBVIOUS
  <2>0. TypeOK
    BY DEF IInv
  <2>1. ASSUME Served, Lasting, deployment' = deployment PROVE Served'
    BY <2>0, <2>1 DEF Served, Lasting, Whole, TypeOK
  <2>2. ASSUME NEW p \in Publishers, Moves(p) PROVE Served'
    <3>1. Lasting
      BY <2>2, MovesLast
    <3>2. CASE PersistDeployment(p)
      <4>1. gen[p] \in Generations /\ Whole(dest[gen[p]], gen[p]) /\ deployment' = gen[p] /\ dest' = dest
        BY <3>2 DEF PersistDeployment, IInv, LocalsSet, AllSeen, Seen, StagedIsDurable
      <4> QED  BY <4>1 DEF Served, Whole
    <3>3. CASE ~PersistDeployment(p)
      <4>1. deployment' = deployment
        BY <2>2, <3>3 DEF Moves, Start, LookDestination, VerifyExisting, TakeShard, WriteObject, PersistObject, SyncObjects,
           Link, WriteManifest, SyncStage, Rename, VerifyRaced, SyncRoot, SyncDeployment, Fail, Rerun, disk
      <4> QED  BY <2>1, <3>1, <4>1
    <3> QED  BY <3>2, <3>3
  <2>3. ASSUME NEW g \in Generations, Deposit(g) PROVE Served'
    BY <2>1, <2>3, DepositLasts DEF Deposit
  <2>4. CASE UNCHANGED vars
    BY <2>4 DEF vars, disk, Served, Whole
  <2> QED  BY <2>2, <2>3, <2>4, StepKinds
<1> QED  BY <1>1, <1>2, Inductive, NextSeen, PTL DEF Spec, DeploymentServed

--------------------------------------------------------------------------------
(* Admission.                                                               *)

In(i, s) == \E k \in 1..Len(s) : s[k] = i
Versions == [InputSet -> Nat]
Now == Len(history)

\* Versions are numbered by when they were written, and none comes back.
HistoryInv ==
    /\ history \in Seq(Versions) /\ Now \in Nat /\ Now >= 1
    /\ \A k \in 1..Now : history[k] \in Versions
    /\ \A k \in 1..Now, i \in InputSet : history[k][i] < k
    /\ \A j, l, k \in 1..Now : j <= l /\ l <= k =>
         \A i \in InputSet : history[j][i] = history[k][i] => history[l][i] = history[j][i]

\* All of g was on disk at moment k or before, input by input.
SeenBy(g, k) == \A i \in InputSet : \E r \in 1..k : history[r][i] = g[i]

\* At moment k every input of g that is not in the rest of the pass was as in g.
PassedAt(g, k, rest) == \A i \in InputSet : ~In(i, rest) => history[k][i] = g[i]

CheckerInv ==
    /\ seen \in [InputSet -> Nat \cup {None}]
    /\ cpc \in {"idle", "analyse", "snapshot", "derived", "renamed", "published", "persist"}
    /\ checks \in Seq(InputSet)
    /\ cpc \in {"idle", "analyse"} =>
         /\ checks = <<>>
         /\ \A i \in InputSet : seen[i] # None => \E r \in 1..Now : history[r][i] = seen[i]
    /\ cpc = "snapshot" => \E k \in 1..Now : SeenBy(seen, k) /\ PassedAt(seen, k, checks)
    /\ cpc \in {"derived", "renamed", "published", "persist"} => \E k \in 1..Now : history[k] = seen
    /\ DescribesOneMoment

LoaderInv ==
    /\ DOMAIN run = Modules /\ unread \in Seq(InputSet)
    /\ lpc \in {"idle", "capture", "open", "select", "read", "inputs", "shard"}
    /\ lpc \in {"idle", "select", "read"} => unread = <<>>
    /\ lpc # "idle" => startup # None /\ request.path \in Modules
    /\ startup # None =>
         /\ \E k \in 1..Now : history[k] = startup
         /\ \A m \in Modules : run[m] # None => run[m].facts = startup /\ run[m].version = startup[m]
    /\ lpc = "shard" =>
         /\ source = startup[request.path] /\ since \in 1..Now
         /\ \E k \in 1..since : history[k] = startup
         /\ PassedAt(startup, since, unread)

LoadIInv == HistoryInv /\ CheckerInv /\ LoaderInv

--------------------------------------------------------------------------------
\* The initial state has one moment.
LEMMA LoadInitIInv == LoadInit => LoadIInv
<1> SUFFICES ASSUME LoadInit PROVE LoadIInv
  OBVIOUS
<1>1. [i \in InputSet |-> 0] \in Versions
  BY DEF Versions
<1>2. HistoryInv
  BY <1>1, SMTT(20) DEF LoadInit, HistoryInv, Now
<1>3. CheckerInv
  BY SMTT(20) DEF LoadInit, CheckerInv, Unread, DescribesOneMoment
<1>4. LoaderInv
  <2>1. /\ DOMAIN run = Modules /\ unread = <<>> /\ lpc = "idle" /\ startup = None
    BY DEF LoadInit, Idle
  <2>2. unread \in Seq(InputSet)
    BY <2>1, SMTT(20)
  <2> QED
    BY <2>1, <2>2 DEF LoaderInv
<1> QED
  BY <1>2, <1>3, <1>4 DEF LoadIInv

\* What a sequence without its head still holds.
LEMMA TailIn ==
    ASSUME NEW S, NEW s \in Seq(S), s # <<>>
    PROVE  /\ Tail(s) \in Seq(S) /\ Head(s) \in S
           /\ \A i : In(i, s) => i = Head(s) \/ In(i, Tail(s))
<1>1. Tail(s) \in Seq(S) /\ Head(s) \in S
  BY SMTT(20)
<1>2. ASSUME NEW i, In(i, s), i # Head(s) PROVE In(i, Tail(s))
  <2>1. PICK k \in 1..Len(s) : s[k] = i
    BY <1>2 DEF In
  <2>2. k # 1 /\ k - 1 \in 1..Len(Tail(s)) /\ Tail(s)[k - 1] = i
    BY <1>2, <2>1, SMTT(20)
  <2> QED
    BY <2>2 DEF In
<1> QED
  BY <1>1, <1>2

\* A pass that finds the next input as it was read goes on with the rest: the
\* input was so at the moment the pass began.
LEMMA PassStep ==
    ASSUME HistoryInv, NEW g, NEW k \in 1..Now, NEW rest \in Seq(InputSet), rest # <<>>,
           NEW r \in 1..k, history[r][Head(rest)] = g[Head(rest)],
           file[Head(rest)] = g[Head(rest)], PassedAt(g, k, rest)
    PROVE  PassedAt(g, k, Tail(rest))
<1>1. Head(rest) \in InputSet /\ \A i : In(i, rest) => i = Head(rest) \/ In(i, Tail(rest))
  BY TailIn
<1>2. history[Now][Head(rest)] = history[r][Head(rest)]
  BY DEF file, Now
<1>3. history[k][Head(rest)] = g[Head(rest)]
  <2>1. Now \in 1..Now /\ r \in 1..Now /\ r <= k /\ k <= Now
    BY SMTT(20) DEF HistoryInv
  <2> QED
    BY <1>1, <1>2, <2>1 DEF HistoryInv
<1> QED
  BY <1>1, <1>3 DEF PassedAt

\* A pass that is over has seen everything at the moment it began.
LEMMA PassDone ==
    ASSUME HistoryInv, NEW g \in [InputSet -> Nat \cup {None}], NEW k \in 1..Now,
           PassedAt(g, k, <<>>)
    PROVE  history[k] = g
<1>1. \A i \in InputSet : history[k][i] = g[i]
  BY SMTT(20) DEF PassedAt, In
<1>2. history[k] \in Versions
  BY DEF HistoryInv
<1> QED
  BY <1>1, <1>2, SMTT(20) DEF Versions

--------------------------------------------------------------------------------
\* An edit adds a moment with one version never used before.
LEMMA EditHistory ==
    ASSUME HistoryInv, NEW i \in InputSet, Edit(i)
    PROVE  /\ HistoryInv' /\ Now' = Now + 1
           /\ \A k \in 1..Now : history'[k] = history[k]
<1> DEFINE e == [file EXCEPT ![i] = Now]
<1>1. Now \in Nat /\ Now \in 1..Now /\ file = history[Now] /\ file \in Versions
  BY SMTT(20) DEF HistoryInv, Now, file
<1>2. /\ e \in Versions /\ e[i] = Now
      /\ \A n \in InputSet : n # i => e[n] = history[Now][n]
  BY <1>1 DEF Versions
<1> HIDE DEF e
<1>3. history' = Append(history, e)
  BY DEF Edit, Now, e
<1>4. /\ history' \in Seq(Versions) /\ Now' = Now + 1
      /\ history'[Now + 1] = e /\ \A k \in 1..Now : history'[k] = history[k]
  BY <1>1, <1>2, <1>3, SMTT(20) DEF HistoryInv, Now
<1>5. \A k \in 1..(Now + 1) : k \in 1..Now \/ k = Now + 1
  BY <1>1, SMTT(20)
<1>6. \A k \in 1..(Now + 1) : history'[k] \in Versions
  BY <1>2, <1>4, <1>5 DEF HistoryInv
<1>7. \A k \in 1..(Now + 1), n \in InputSet : history'[k][n] < k
  <2>1. \A n \in InputSet : history[Now][n] \in Nat /\ history[Now][n] < Now
    BY <1>1 DEF HistoryInv, Versions
  <2>2. \A n \in InputSet : e[n] < Now + 1
    BY <1>1, <1>2, <2>1, SMTT(20)
  <2> QED
    BY <1>4, <1>5, <2>2 DEF HistoryInv
<1>8. ASSUME NEW j \in 1..(Now + 1), NEW l \in 1..(Now + 1), NEW k \in 1..(Now + 1),
             j <= l, l <= k, NEW n \in InputSet, history'[j][n] = history'[k][n]
      PROVE  history'[l][n] = history'[j][n]
  <2>1. CASE k \in 1..Now
    <3>1. j \in 1..Now /\ l \in 1..Now
      BY <1>1, <1>8, <2>1, SMTT(20)
    <3> QED
      <4>1. history[j][n] = history[k][n]
        BY <1>4, <1>8, <2>1, <3>1
      <4>2. history[l][n] = history[j][n]
        BY <1>8, <2>1, <3>1, <4>1 DEF HistoryInv
      <4> QED
        BY <1>4, <3>1, <4>2
  <2>2. CASE k = Now + 1 /\ l \in 1..Now
    <3>1. j \in 1..Now
      BY <1>1, <1>8, <2>2, SMTT(20)
    <3>2. history[j][n] = e[n] /\ history[j][n] < j /\ history[j][n] \in Nat
      BY <1>4, <1>8, <2>2, <3>1 DEF HistoryInv, Versions
    <3>3. e[n] # Now
      BY <1>1, <3>1, <3>2, SMTT(20)
    <3>4. history[j][n] = history[Now][n]
      BY <1>2, <3>2, <3>3
    <3>5. history[l][n] = history[j][n]
      BY <1>1, <1>8, <2>2, <3>1, <3>4, SMTT(20) DEF HistoryInv
    <3> QED
      BY <1>4, <2>2, <3>1, <3>5
  <2>3. CASE k = Now + 1 /\ l = Now + 1
    BY <1>8, <2>3
  <2> QED
    BY <1>5, <2>1, <2>2, <2>3
<1>9. (Now + 1) \in Nat /\ Now + 1 >= 1
  BY <1>1, SMTT(20)
<1>10. \A j, l, k \in 1..(Now + 1) : j <= l /\ l <= k =>
         \A n \in InputSet : history'[j][n] = history'[k][n] => history'[l][n] = history'[j][n]
  BY <1>8, SMTT(20)
<1>11. HistoryInv'
  BY <1>4, <1>6, <1>7, <1>9, <1>10, SMTT(20) DEF HistoryInv
<1> QED
  BY <1>4, <1>11

\* What held at past moments still does when a moment is added.
LEMMA EditKeeps ==
    ASSUME LoadIInv, NEW i \in InputSet, Edit(i)
    PROVE  CheckerInv' /\ LoaderInv'
<1>1. Now' = Now + 1 /\ Now \in Nat /\ \A k \in 1..Now : history'[k] = history[k]
  BY EditHistory DEF LoadIInv, HistoryInv
<1>2. \A k \in 1..Now : k \in 1..Now' /\ \A r \in 1..k : r \in 1..Now /\ history'[r] = history[r]
  BY <1>1, SMTT(20)
<1>3. UNCHANGED <<descriptor, seen, cpc, checks, run, unread, lpc, startup, request, source, since>>
  BY DEF Edit, checker, import
<1>4. CheckerInv'
  <2>1. cpc = "snapshot" => \E k \in 1..Now' : SeenBy(seen, k)' /\ PassedAt(seen, k, checks)'
    <3> SUFFICES ASSUME cpc = "snapshot" PROVE \E k \in 1..Now' : SeenBy(seen, k)' /\ PassedAt(seen, k, checks)'
      OBVIOUS
    <3>1. PICK k \in 1..Now : SeenBy(seen, k) /\ PassedAt(seen, k, checks)
      BY DEF LoadIInv, CheckerInv
    <3>2. SeenBy(seen, k)' /\ PassedAt(seen, k, checks)'
      BY <1>2, <1>3, <3>1, SMTT(20) DEF SeenBy, PassedAt
    <3> QED
      BY <1>2, <3>2
  <2>2. DescribesOneMoment'
    BY <1>2, <1>3, SMTT(20) DEF LoadIInv, CheckerInv, DescribesOneMoment, Now
  <2>3. \A n \in InputSet : (\E r \in 1..Now : history[r][n] = seen[n]) =>
                           (\E r \in 1..Now' : history'[r][n] = seen[n])
    BY <1>2, SMTT(20)
  <2>4. (\E k \in 1..Now : history[k] = seen) => (\E k \in 1..Now' : history'[k] = seen)
    BY <1>2, SMTT(20)
  <2> QED
    BY <1>3, <2>1, <2>2, <2>3, <2>4 DEF LoadIInv, CheckerInv
<1>5. LoaderInv'
  <2>1. startup # None => \E k \in 1..Now' : history'[k] = startup
    <3>1. startup # None => \E k \in 1..Now : history[k] = startup
      BY DEF LoadIInv, LoaderInv
    <3> QED
      BY <1>2, <3>1, SMTT(20)
  <2>2. lpc = "shard" => /\ since \in 1..Now' /\ \E k \in 1..since : history'[k] = startup
                         /\ PassedAt(startup, since, unread)'
    <3> SUFFICES ASSUME lpc = "shard"
                 PROVE  /\ since \in 1..Now' /\ \E k \in 1..since : history'[k] = startup
                        /\ PassedAt(startup, since, unread)'
      OBVIOUS
    <3>1. /\ since \in 1..Now /\ PassedAt(startup, since, unread)
          /\ \E k \in 1..since : history[k] = startup
      BY DEF LoadIInv, LoaderInv
    <3>2. history'[since] = history[since] /\ since \in 1..Now'
      BY <1>2, <3>1, SMTT(20)
    <3>3. PassedAt(startup, since, unread)'
      BY <1>3, <3>1, <3>2 DEF PassedAt
    <3> QED
      BY <1>2, <3>1, <3>2, <3>3
  <2> QED
    BY <1>3, <2>1, <2>2 DEF LoadIInv, LoaderInv
<1> QED
  BY <1>4, <1>5

--------------------------------------------------------------------------------
CheckerStep ==
    \/ \E i \in InputSet : Record(i)
    \/ Check \/ Snapshot \/ VerifyInput \/ Derive \/ Publish \/ SyncStore \/ WriteDeployment
    \/ Persist \/ CheckerDies

LoaderStep ==
    \/ Boot \/ \E name \in Modules \cup {Other}, path \in Modules : CreateModule(name, path)
    \/ ObserveInput \/ ReadConsumed \/ OpenGeneration \/ SelectSource \/ ReadSource
    \/ CheckSource \/ Admit

\* A checker that gives up forgets what it observed.
LEMMA GivingUp ==
    ASSUME CheckFails, DescribesOneMoment'
    PROVE  CheckerInv'
<1>1. checks' \in Seq(InputSet) /\ checks' = <<>> /\ cpc' = "idle"
  BY SMTT(20) DEF CheckFails
<1>2. seen' \in [InputSet -> Nat \cup {None}] /\ \A i \in InputSet : seen'[i] = None
  BY DEF CheckFails, Unread
<1> QED
  BY <1>1, <1>2 DEF CheckerInv

\* A descriptor that described one moment still does if nothing is edited.
LEMMA SameDescriptor ==
    ASSUME CheckerInv, UNCHANGED <<history, descriptor>>
    PROVE  DescribesOneMoment'
  BY DEF CheckerInv, DescribesOneMoment

\* Without an edit the history is as good as it was.
LEMMA SameHistory ==
    ASSUME HistoryInv, UNCHANGED history
    PROVE  HistoryInv'
  BY SMTT(20) DEF HistoryInv, Now

\* Each step of the checker keeps what it knows of its observations.
LEMMA CheckerKeeps ==
    ASSUME HistoryInv, CheckerInv, CheckerStep
    PROVE  CheckerInv' /\ UNCHANGED <<history, startup, loader, import, run>>
<1>0. UNCHANGED <<history, startup, loader, import, run>>
  BY DEF CheckerStep, Record, Check, Snapshot, VerifyInput, Derive, Publish, SyncStore,
         WriteDeployment, Persist, CheckerDies, CheckerOnly
<1>a. Now' = Now /\ Now \in Nat /\ Now \in 1..Now /\ history[Now] = file /\ file \in Versions
  BY <1>0, SMTT(20) DEF Now, HistoryInv, file
<1>1. ASSUME NEW i \in InputSet, Record(i) PROVE CheckerInv'
  <2>1. CASE seen[i] \in {None, file[i]}
    <3>1. /\ seen' = [seen EXCEPT ![i] = file[i]] /\ UNCHANGED <<cpc, checks, descriptor>>
          /\ cpc = "analyse"
      BY <1>1, <2>1 DEF Record
    <3>2. /\ file[i] \in Nat /\ seen' \in [InputSet -> Nat \cup {None}]
          /\ seen'[i] = file[i] /\ \A n \in InputSet : n # i => seen'[n] = seen[n]
      BY <1>a, <3>1 DEF Versions, CheckerInv
    <3>3. \A n \in InputSet : seen'[n] # None => \E r \in 1..Now : history[r][n] = seen'[n]
      BY <1>a, <3>1, <3>2 DEF CheckerInv
    <3> QED
      BY <1>0, <1>a, <3>1, <3>2, <3>3 DEF CheckerInv, DescribesOneMoment
  <2>2. CASE seen[i] \notin {None, file[i]}
    BY <1>0, <1>1, <2>2, SameDescriptor, GivingUp DEF Record
  <2> QED
    BY <2>1, <2>2
<1>2. CASE Check
  BY <1>0, <1>a, <1>2 DEF Check, CheckerInv, DescribesOneMoment
<1>3. CASE Snapshot
  <2>1. /\ cpc = "analyse" /\ cpc' = "snapshot" /\ checks' = Inputs /\ UNCHANGED <<seen, descriptor>>
        /\ \A i \in InputSet : seen[i] # None
    BY <1>3 DEF Snapshot
  <2>2. SeenBy(seen, Now)'
    BY <1>0, <1>a, <2>1 DEF CheckerInv, SeenBy
  <2>3. PassedAt(seen, Now, checks)'
    <3>1. \A i \in InputSet : In(i, Inputs)
      BY DEF InputSet, In
    <3> QED
      BY <2>1, <3>1 DEF PassedAt
  <2>4. checks' \in Seq(InputSet)
    BY <2>1, LoadAssumption
  <2> QED
    BY <1>0, <1>a, <2>1, <2>2, <2>3, <2>4 DEF CheckerInv, DescribesOneMoment
<1>4. CASE VerifyInput
  <2> DEFINE i == Head(checks)
  <2>1. checks # <<>> /\ i \in InputSet /\ Tail(checks) \in Seq(InputSet)
    BY <1>4, TailIn DEF VerifyInput, CheckerInv
  <2>2. CASE file[i] = seen[i]
    <3>1. checks' = Tail(checks) /\ UNCHANGED <<cpc, seen, descriptor>>
      BY <1>4, <2>2 DEF VerifyInput
    <3>2. cpc \notin {"idle", "analyse"}
      BY <2>1 DEF CheckerInv
    <3>3. ASSUME cpc = "snapshot"
          PROVE  \E k \in 1..Now : SeenBy(seen, k) /\ PassedAt(seen, k, Tail(checks))
      <4>1. PICK k \in 1..Now : SeenBy(seen, k) /\ PassedAt(seen, k, checks)
        BY <3>3 DEF CheckerInv
      <4>2. PICK r \in 1..k : history[r][i] = seen[i]
        BY <2>1, <4>1 DEF SeenBy
      <4>3. PassedAt(seen, k, Tail(checks))
        BY <2>1, <2>2, <4>1, <4>2, PassStep DEF CheckerInv
      <4> QED
        BY <4>1, <4>3
    <3>4. cpc' = "snapshot" => \E k \in 1..Now' : SeenBy(seen, k)' /\ PassedAt(seen, k, checks)'
      <4> SUFFICES ASSUME cpc' = "snapshot"
                   PROVE  \E k \in 1..Now' : SeenBy(seen, k)' /\ PassedAt(seen, k, checks)'
        OBVIOUS
      <4>1. PICK k \in 1..Now : SeenBy(seen, k) /\ PassedAt(seen, k, Tail(checks))
        BY <3>1, <3>3
      <4>2. k \in 1..Now' /\ SeenBy(seen, k)' /\ PassedAt(seen, k, checks)'
        BY <1>0, <1>a, <3>1, <4>1 DEF SeenBy, PassedAt
      <4> QED
        BY <4>2
    <3>5. checks' \in Seq(InputSet)
      BY <2>1, <3>1
    <3> QED
      BY <1>0, <1>a, <3>1, <3>2, <3>4, <3>5 DEF CheckerInv, DescribesOneMoment
  <2>3. CASE file[i] # seen[i]
    BY <1>0, <1>4, <2>3, SameDescriptor, GivingUp DEF VerifyInput
  <2> QED
    BY <2>2, <2>3
<1>5. CASE Derive
  <2>1. /\ cpc = "snapshot" /\ checks = <<>> /\ cpc' = "derived" /\ checks' = Inputs
        /\ UNCHANGED <<seen, descriptor>>
    BY <1>5 DEF Derive
  <2>2. \E k \in 1..Now : history[k] = seen
    BY <2>1, PassDone DEF CheckerInv
  <2>3. checks' \in Seq(InputSet)
    BY <2>1, LoadAssumption
  <2> QED
    BY <1>0, <1>a, <2>1, <2>2, <2>3 DEF CheckerInv, DescribesOneMoment
<1>6. CASE Publish
  <2>1. CASE CheckFails /\ UNCHANGED descriptor
    BY <1>0, <2>1, SameDescriptor, GivingUp
  <2>2. CASE /\ cpc = "derived" /\ cpc' \in {"renamed", "published"}
             /\ checks' \in {checks, Inputs} /\ UNCHANGED <<seen, descriptor>>
    <3>1. checks' \in Seq(InputSet)
      BY <2>2, LoadAssumption DEF CheckerInv
    <3> QED
      BY <1>0, <1>a, <2>2, <3>1 DEF CheckerInv, DescribesOneMoment
  <2> QED
    BY <1>6, <2>1, <2>2 DEF Publish
<1>7. CASE SyncStore \/ WriteDeployment
  <2>1. /\ cpc \in {"renamed", "published"} /\ cpc' \in {"published", "persist"}
        /\ checks' = Inputs /\ UNCHANGED <<seen, descriptor>>
    BY <1>7 DEF SyncStore, WriteDeployment
  <2>2. checks' \in Seq(InputSet)
    BY <2>1, LoadAssumption
  <2> QED
    BY <1>0, <1>a, <2>1, <2>2 DEF CheckerInv, DescribesOneMoment
<1>8. CASE Persist
  <2>1. cpc = "persist" /\ descriptor' = seen /\ CheckFails
    BY <1>8 DEF Persist
  <2>2. DescribesOneMoment'
    BY <1>0, <1>a, <2>1 DEF CheckerInv, DescribesOneMoment, Now
  <2> QED
    BY <1>0, <2>1, <2>2, GivingUp
<1>9. CASE CheckerDies
  BY <1>0, <1>9, SameDescriptor, GivingUp DEF CheckerDies
<1> QED
  BY <1>0, <1>1, <1>2, <1>3, <1>4, <1>5, <1>6, <1>7, <1>8, <1>9 DEF CheckerStep

--------------------------------------------------------------------------------
\* A refused or finished import, and a fresh interpreter, are idle.
LEMMA RefusalKeeps ==
    ASSUME LoaderInv, Refuse, UNCHANGED history
    PROVE  LoaderInv'
<1>1. lpc' = "idle" /\ unread' = <<>> /\ UNCHANGED <<startup, run>> /\ unread' \in Seq(InputSet)
  BY SMTT(20) DEF Refuse
<1> QED
  BY <1>1 DEF LoaderInv, Now

\* Each step of an import keeps what the loader knows.
LEMMA LoaderKeeps ==
    ASSUME LoadIInv, LoaderStep
    PROVE  LoaderInv' /\ UNCHANGED <<history, store, descriptor, checker>>
<1>0. UNCHANGED <<history, store, descriptor, checker>>
  BY DEF LoaderStep, Boot, CreateModule, ObserveInput, ReadConsumed, OpenGeneration, SelectSource,
         ReadSource, CheckSource, Admit, LoaderOnly
<1>a. /\ Now' = Now /\ Now \in Nat /\ Now \in 1..Now
      /\ Inputs \in Seq(InputSet) /\ Sources \in Seq(InputSet)
      /\ \A m \in Modules : Deps[m] \in Seq(InputSet)
  <2>1. Now' = Now /\ Now \in Nat /\ Now \in 1..Now
    BY <1>0, SMTT(20) DEF Now, LoadIInv, HistoryInv
  <2>2. Inputs \in Seq(InputSet) /\ Sources \in Seq(InputSet)
    BY LoadAssumption, SeqMonotonic
  <2>3. ASSUME NEW m \in Modules PROVE Deps[m] \in Seq(InputSet)
    <3>1. Deps[m] \in Seq(Modules \ {m}) /\ Modules \ {m} \subseteq InputSet
      BY LoadAssumption
    <3> QED
      BY <3>1, SeqMonotonic
  <2> QED
    BY <2>1, <2>2, <2>3
<1>b. LoaderInv
  BY DEF LoadIInv
<1>1. CASE Boot
  <2>1. /\ lpc' = "idle" /\ unread' = <<>> /\ startup' = descriptor
        /\ run' = [m \in Modules |-> None]
    BY <1>1 DEF Boot
  <2>2. startup' # None => \E k \in 1..Now : history[k] = startup'
    BY <2>1 DEF LoadIInv, CheckerInv, DescribesOneMoment, Now
  <2>3. unread' \in Seq(InputSet)
    BY <2>1, SMTT(20)
  <2> QED
    BY <1>0, <1>a, <2>1, <2>2, <2>3 DEF LoaderInv
<1>2. ASSUME NEW name \in Modules \cup {Other}, NEW path \in Modules, CreateModule(name, path)
      PROVE  LoaderInv'
  <2>1. lpc = "idle" /\ UNCHANGED startup /\ unread = <<>>
    BY <1>2, <1>b DEF CreateModule, LoaderInv
  <2>2. CASE startup = None
    <3>1. UNCHANGED <<lpc, unread>> /\ DOMAIN run' = Modules
      BY <1>2, <1>b, <2>2 DEF CreateModule, LoaderInv
    <3> QED
      BY <1>b, <2>1, <2>2, <3>1 DEF LoaderInv
  <2>3. CASE startup # None
    <3>1. /\ request' = [name |-> name, path |-> path] /\ UNCHANGED run
          /\ IF loader THEN lpc' = "select" /\ UNCHANGED unread
                       ELSE lpc' = "capture" /\ unread' = Inputs
      BY <1>2, <2>3 DEF CreateModule
    <3>2. /\ request'.path = path /\ lpc' \in {"select", "capture"}
          /\ unread' \in Seq(InputSet) /\ (lpc' = "select" => unread' = <<>>)
      BY <1>a, <1>b, <2>1, <3>1 DEF LoaderInv
    <3> QED
      BY <1>0, <1>a, <1>b, <2>1, <2>3, <3>1, <3>2 DEF LoaderInv
  <2> QED
    BY <2>2, <2>3
<1>3. CASE ObserveInput
  <2> DEFINE i == Head(unread)
  <2>1. unread # <<>> /\ i \in InputSet /\ Tail(unread) \in Seq(InputSet) /\ lpc \notin {"idle", "select", "read"}
    BY <1>3, <1>b, TailIn DEF ObserveInput, LoaderInv
  <2>2. CASE file[i] = startup[i]
    <3>1. unread' = Tail(unread) /\ UNCHANGED <<lpc, request, source, since, startup, run>>
      BY <1>3, <2>2 DEF ObserveInput
    <3>2. ASSUME lpc = "shard" PROVE PassedAt(startup, since, Tail(unread))
      <4>1. since \in 1..Now /\ PassedAt(startup, since, unread)
        BY <1>b, <3>2 DEF LoaderInv
      <4>2. PICK k \in 1..since : history[k] = startup
        BY <1>b, <3>2 DEF LoaderInv
      <4> QED
        BY <1>b, <2>1, <2>2, <4>1, <4>2, PassStep DEF LoadIInv, LoaderInv
    <3>3. PassedAt(startup, since, Tail(unread)) => PassedAt(startup, since, unread)'
      BY <1>0, <3>1 DEF PassedAt
    <3>4. unread' \in Seq(InputSet)
      BY <2>1, <3>1
    <3> QED
      BY <1>0, <1>a, <1>b, <2>1, <3>1, <3>2, <3>3, <3>4 DEF LoaderInv
  <2>3. CASE file[i] # startup[i]
    BY <1>0, <1>3, <1>b, <2>3, RefusalKeeps DEF ObserveInput
  <2> QED
    BY <2>2, <2>3
<1>4. CASE ReadConsumed
  <2>1. /\ lpc = "capture" /\ lpc' = "open" /\ unread' = Sources
        /\ UNCHANGED <<request, source, since, startup, run>>
    BY <1>4 DEF ReadConsumed
  <2>2. unread' \in Seq(InputSet)
    BY <1>a, <2>1
  <2> QED
    BY <1>0, <1>a, <1>b, <2>1, <2>2 DEF LoaderInv
<1>5. CASE OpenGeneration \/ SelectSource
  <2>1. CASE Refuse
    BY <1>0, <1>b, <2>1, RefusalKeeps
  <2>2. CASE /\ lpc \in {"open", "select"} /\ lpc' \in {"select", "read"} /\ unread = <<>>
             /\ UNCHANGED <<request, source, since, unread, startup, run>>
    BY <1>0, <1>a, <1>b, <2>2 DEF LoaderInv
  <2> QED
    BY <1>5, <1>b, <2>1, <2>2 DEF OpenGeneration, SelectSource, KeepLoader, HostMatches, LoaderInv
<1>6. CASE ReadSource
  <2>1. lpc = "read" /\ lpc' = "inputs" /\ unread' = Inputs /\ UNCHANGED <<request, startup, run>>
    BY <1>6 DEF ReadSource
  <2> QED
    BY <1>0, <1>a, <1>b, <2>1 DEF LoaderInv
<1>7. CASE CheckSource
  <2>1. CASE Refuse
    BY <1>0, <1>b, <2>1, RefusalKeeps
  <2>2. CASE /\ source = startup[request.path] /\ lpc' = "shard"
             /\ unread' = Dependencies(request.path) /\ since' = Len(history)
             /\ UNCHANGED <<request, source, startup, run>>
    <3>1. request.path \in Modules /\ startup # None /\ lpc = "inputs"
      BY <1>7, <1>b DEF CheckSource, LoaderInv
    <3>2. Deps[request.path] \in Seq(InputSet)
      BY <1>a, <3>1
    <3>3. unread' \in Seq(InputSet) /\ \A i \in InputSet : In(i, unread')
      <4> DEFINE d == Deps[request.path]
      <4>1. /\ Inputs \o d \in Seq(InputSet) /\ Len(Inputs \o d) = Len(Inputs) + Len(d)
            /\ Len(Inputs) \in Nat /\ Len(d) \in Nat
            /\ \A k \in 1..Len(Inputs) : (Inputs \o d)[k] = Inputs[k]
        BY <1>a, <3>2, SMTT(20)
      <4>2. \A k \in 1..Len(Inputs) : k \in 1..Len(Inputs \o d)
        BY <4>1, SMTT(20)
      <4> QED
        BY <2>2, <4>1, <4>2 DEF Dependencies, In, InputSet
    <3>4. PassedAt(startup, since, unread)'
      BY <3>3 DEF PassedAt
    <3>5. since' = Now /\ since' \in 1..Now' /\ \E k \in 1..since' : history'[k] = startup'
      BY <1>0, <1>a, <1>b, <2>2, <3>1 DEF LoaderInv, Now
    <3> QED
      BY <1>0, <1>a, <1>b, <2>2, <3>1, <3>3, <3>4, <3>5 DEF LoaderInv
  <2> QED
    BY <1>7, <2>1, <2>2 DEF CheckSource
<1>8. CASE Admit
  <2>1. CASE Refuse
    BY <1>0, <1>b, <2>1, RefusalKeeps
  <2>2. CASE /\ run' = [run EXCEPT ![request.path] = [version |-> source, facts |-> startup]]
             /\ lpc' = "idle" /\ UNCHANGED <<unread, startup>>
    <3>1. /\ lpc = "shard" /\ unread = <<>> /\ request.path \in Modules
          /\ source = startup[request.path] /\ startup # None /\ DOMAIN run = Modules
      BY <1>8, <1>b DEF Admit, LoaderInv
    <3>2. /\ DOMAIN run' = Modules
          /\ \A m \in Modules : run'[m] # None => run'[m].facts = startup /\ run'[m].version = startup[m]
      BY <1>b, <2>2, <3>1 DEF LoaderInv
    <3> QED
      BY <1>0, <1>a, <1>b, <2>2, <3>1, <3>2 DEF LoaderInv
  <2> QED
    BY <1>8, <2>1, <2>2 DEF Admit
<1> QED
  BY <1>0, <1>1, <1>2, <1>3, <1>4, <1>5, <1>6, <1>7, <1>8 DEF LoaderStep

--------------------------------------------------------------------------------
\* Every step, a fault included, keeps the invariant.
LEMMA LoadNextIInv == LoadIInv /\ [LoadNext]_loadVars => LoadIInv'
<1> SUFFICES ASSUME LoadIInv, [LoadNext]_loadVars PROVE LoadIInv'
  OBVIOUS
<1>1. ASSUME NEW i \in InputSet, Edit(i) PROVE LoadIInv'
  BY <1>1, EditHistory, EditKeeps DEF LoadIInv
<1>2. CASE CheckerStep
  <2>1. CheckerInv' /\ UNCHANGED <<history, startup, loader, import, run>>
    BY <1>2, CheckerKeeps DEF LoadIInv
  <2>2. HistoryInv' /\ LoaderInv'
    BY <2>1, SMTT(20) DEF LoadIInv, HistoryInv, LoaderInv, PassedAt, Now, import
  <2> QED
    BY <2>1, <2>2 DEF LoadIInv
<1>3. CASE LoaderStep
  <2>1. LoaderInv' /\ UNCHANGED <<history, store, descriptor, checker>>
    BY <1>3, LoaderKeeps
  <2>2. HistoryInv' /\ CheckerInv'
    BY <2>1, SMTT(20) DEF LoadIInv, HistoryInv, CheckerInv, SeenBy, PassedAt, Now, checker, DescribesOneMoment
  <2> QED
    BY <2>1, <2>2 DEF LoadIInv
<1>4. CASE UNCHANGED <<history, descriptor, checker, startup, loader, import, run>>
  <2>1. HistoryInv'
    BY <1>4, SameHistory DEF LoadIInv
  <2>2. CheckerInv'
    <3>1. UNCHANGED <<history, descriptor, cpc, seen, checks>> /\ CheckerInv
      BY <1>4 DEF LoadIInv, checker
    <3> QED
      BY <3>1 DEF CheckerInv, SeenBy, PassedAt, Now, DescribesOneMoment
  <2>3. LoaderInv'
    BY <1>4 DEF LoadIInv, LoaderInv, PassedAt, Now, import
  <2> QED
    BY <2>1, <2>2, <2>3 DEF LoadIInv
<1>5. CASE LosePower
  <2>1. /\ UNCHANGED <<history, descriptor>> /\ CheckFails
        /\ lpc' = "idle" /\ unread' = <<>> /\ startup' = None /\ run' = [m \in Modules |-> None]
    BY <1>5 DEF LosePower
  <2>2. HistoryInv' /\ CheckerInv'
    <3>1. HistoryInv /\ CheckerInv
      BY DEF LoadIInv
    <3>2. HistoryInv'
      BY <2>1, <3>1, SameHistory
    <3> QED
      BY <2>1, <3>1, <3>2, SameDescriptor, GivingUp
  <2>3. unread' \in Seq(InputSet)
    BY <2>1, SMTT(20)
  <2>4. LoaderInv'
    BY <2>1, <2>3 DEF LoaderInv
  <2> QED
    BY <2>2, <2>4 DEF LoadIInv
<1> QED
  BY <1>1, <1>2, <1>3, <1>4, <1>5 DEF LoadNext, CheckerStep, LoaderStep, Damage, loadVars

\* The invariant holds in every behaviour.
LEMMA Invariance == LoadSpec => []LoadIInv
  BY LoadInitIInv, LoadNextIInv, PTL DEF LoadSpec

\* Whatever is edited while the checker reads, what its descriptor says of the
\* inputs was true of all of them at one moment (check, verify_analysis_inputs).
THEOREM OneMoment == LoadSpec => []DescribesOneMoment
<1>1. LoadIInv => DescribesOneMoment
  BY DEF LoadIInv, CheckerInv
<1> QED
  BY <1>1, Invariance, PTL

\* Selected sources run only with facts about the bytes that run, and agree with
\* their dependents (create_module, load_verified).
THEOREM RunsVerified == LoadSpec => []SelectedRunsVerified
<1>1. LoadIInv => SelectedRunsVerified
  BY DEF LoadIInv, LoaderInv, SelectedRunsVerified, Consumed
<1> QED
  BY <1>1, Invariance, PTL

\* A module is admitted only if its descriptor held at one moment since its source
\* was compared (load_verified, verified_analysis_dependencies).
THEOREM AdmissionCurrent == LoadSpec => AdmittedWhileCurrent
<1> DEFINE Admitted(m) == run[m] = None /\ run'[m] # None /\ startup # None
           Held == \E k \in since..Len(history) : k > 0 /\ history[k] = startup
<1>1. ASSUME LoadIInv, [LoadNext]_loadVars, NEW m \in Modules, Admitted(m) PROVE Held
  <2>1. Admit \/ Boot \/ LosePower \/ run' = run \/ startup = None
    BY <1>1 DEF LoadNext, loadVars, Edit, Record, Check, Snapshot, VerifyInput, Derive, Publish, SyncStore,
                WriteDeployment, Persist, CheckerDies, CheckerOnly, CreateModule, ObserveInput,
                ReadConsumed, OpenGeneration, SelectSource, ReadSource, CheckSource, Refuse, Damage
  <2>2. Admit
    BY <1>1, <2>1 DEF Boot, LosePower
  <2>3. lpc = "shard" /\ unread = <<>>
    BY <2>2 DEF Admit
  <2>4. since \in 1..Now /\ PassedAt(startup, since, <<>>)
    BY <1>1, <2>3 DEF LoadIInv, LoaderInv
  <2>5. startup \in [InputSet -> Nat \cup {None}]
    <3>1. PICK k \in 1..Now : history[k] = startup
      BY <1>1 DEF LoadIInv, LoaderInv
    <3> QED
      BY <1>1, <3>1 DEF LoadIInv, HistoryInv, Versions
  <2>6. history[since] = startup
    BY <1>1, <2>4, <2>5, PassDone DEF LoadIInv
  <2>7. since \in since..Len(history) /\ since > 0
    BY <1>1, <2>4, SMTT(20) DEF LoadIInv, HistoryInv, Now
  <2> QED
    BY <2>6, <2>7
<1>2. LoadIInv /\ [LoadNext]_loadVars => [\A m \in Modules : Admitted(m) => Held]_loadVars
  BY <1>1
<1> QED
  BY <1>2, Invariance, PTL DEF LoadSpec, AdmittedWhileCurrent
================================================================================
