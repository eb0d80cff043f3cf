---------------------------- MODULE ArtifactPublish ----------------------------
(***************************************************************************)
(* Publication of signed type artifacts by the offline checker,            *)
(* tools/ty/src/publish.rs: concurrent publishers share a content-         *)
(* addressed object store and a directory of immutable generations, and    *)
(* name the one to use in a deployment descriptor.  Publishers fail, die   *)
(* at any step, and lose unsynchronized directory entries with the power.  *)
(***************************************************************************)
CONSTANTS Publishers,   \* runs of the checker
          Generations,  \* manifests, by fingerprint
          Shards,       \* module shards, by digest
          ShardsOf,     \* the shards each manifest indexes
          Absent,       \* no such directory, no descriptor, no generation chosen
          PowerFails    \* whether the machine may lose power

Dirs == [shards : SUBSET Shards, manifest : BOOLEAN, synced : BOOLEAN]

ASSUME PublishAssumption ==
    /\ ShardsOf \in [Generations -> SUBSET Shards]
    /\ Absent \notin Generations /\ Absent \notin Shards /\ Absent \notin Dirs
    /\ PowerFails \in BOOLEAN

VARIABLES objects,     \* objects/: what each content-addressed file holds
          objectsDisk, \* entries of objects/ that are on disk
          dest,        \* the generation directories
          destDisk,    \* their entries in the artifact root that are on disk
          deployment,  \* the generation the deployment descriptor names
          deployDisk,  \* ... and those it may name once the power is lost
          foreign,     \* generations whose directory somebody else left partial
          stage,       \* each publisher's private .generation- directory
          gen, todo, shard, pc, \* each publisher's locals
          faulted      \* publishers that met an I/O error or a changed input

disk == <<objects, objectsDisk, dest, destDisk, deployment, deployDisk>>
locals == <<stage, gen, todo, shard, pc, faulted>>
vars == <<disk, foreign, locals>>

EmptyDir == [shards |-> {}, manifest |-> FALSE, synced |-> FALSE]
ForeignDir == [shards |-> {}, manifest |-> FALSE, synced |-> TRUE]

\* verify_complete_generation over the directory's own files.
Whole(d, g) == d # Absent /\ d.shards = ShardsOf[g] /\ d.manifest

\* A store may already hold a damaged object or a partial generation.
Init == /\ foreign \in SUBSET Generations
        /\ objects \in [Shards -> {"none", "bad"}] /\ objectsDisk = Shards
        /\ dest = [g \in Generations |-> IF g \in foreign THEN ForeignDir ELSE Absent]
        /\ destDisk = foreign
        /\ deployment = Absent /\ deployDisk = {Absent}
        /\ stage = [p \in Publishers |-> Absent]
        /\ gen = [p \in Publishers |-> Absent] /\ todo = [p \in Publishers |-> {}]
        /\ shard = [p \in Publishers |-> Absent]
        /\ pc = [p \in Publishers |-> "idle"] /\ faulted = {}

At(p, l) == pc[p] = l
Go(p, l) == pc' = [pc EXCEPT ![p] = l]

--------------------------------------------------------------------------------
(* publish: the existing generation, or a private stage.                    *)

Start(p) ==
    /\ At(p, "idle") /\ Go(p, "look")
    /\ \E g \in Generations : gen' = [gen EXCEPT ![p] = g]
    /\ UNCHANGED <<disk, foreign, stage, todo, shard, faulted>>

LookDestination(p) ==
    /\ At(p, "look")
    /\ IF dest[gen[p]] # Absent
       THEN Go(p, "existing") /\ UNCHANGED <<stage, todo>>
       ELSE /\ Go(p, "shards") /\ stage' = [stage EXCEPT ![p] = EmptyDir]
            /\ todo' = [todo EXCEPT ![p] = ShardsOf[gen[p]]]
    /\ UNCHANGED <<disk, foreign, gen, shard, faulted>>

\* Mutant: an existing directory is taken for a published generation.
TrustExisting(p) ==
    /\ At(p, "existing") /\ Go(p, "found")
    /\ UNCHANGED <<disk, foreign, stage, gen, todo, shard, faulted>>

\* verify_existing, before any staging: the root is not synchronized again.
VerifyExisting(p) ==
    /\ At(p, "existing")
    /\ Go(p, IF Whole(dest[gen[p]], gen[p]) THEN "found" ELSE "error")
    /\ UNCHANGED <<disk, foreign, stage, gen, todo, shard, faulted>>

--------------------------------------------------------------------------------
(* The shards: reuse an object, or publish it without replacing.            *)

\* The loop over the manifest's shards, in any order.
TakeShard(p) ==
    /\ At(p, "shards")
    /\ \E s \in todo[p] :
         /\ shard' = [shard EXCEPT ![p] = s]
         /\ todo' = [todo EXCEPT ![p] = @ \ {s}]
         /\ \/ objects[s] = "none" /\ Go(p, "object") /\ UNCHANGED stage
            \/ objects[s] = "good" /\ Go(p, "link") /\ UNCHANGED stage
            \/ /\ objects[s] = "bad" /\ Go(p, "error")
               /\ stage' = [stage EXCEPT ![p] = Absent]
    /\ UNCHANGED <<disk, foreign, gen, faulted>>

\* Mutant: the object is written in place.
WriteInPlace(p) ==
    /\ At(p, "object") /\ Go(p, "persist")
    /\ objects' = [objects EXCEPT ![shard[p]] = IF @ = "none" THEN "bad" ELSE @]
    /\ UNCHANGED <<objectsDisk, dest, destDisk, deployment, deployDisk, foreign>>
    /\ UNCHANGED <<stage, gen, todo, shard, faulted>>

\* publish_object fills and synchronizes a private temporary file.
WriteObject(p) ==
    /\ At(p, "object") /\ Go(p, "persist")
    /\ UNCHANGED <<disk, foreign, stage, gen, todo, shard, faulted>>

\* Mutant: losing the race to another publisher of the same shard is an error.
PersistExclusive(p) ==
    /\ At(p, "persist")
    /\ LET s == shard[p] IN
       IF objects[s] = "none"
       THEN /\ objects' = [objects EXCEPT ![s] = "good"]
            /\ objectsDisk' = objectsDisk \ {s}
            /\ Go(p, "syncobjects") /\ UNCHANGED stage
       ELSE /\ Go(p, "error") /\ stage' = [stage EXCEPT ![p] = Absent]
            /\ UNCHANGED <<objects, objectsDisk>>
    /\ UNCHANGED <<dest, destDisk, deployment, deployDisk, foreign, gen, todo, shard, faulted>>

\* persist_noclobber; a publisher that loses the race reuses equal bytes.
PersistObject(p) ==
    /\ At(p, "persist")
    /\ LET s == shard[p] IN
       \/ /\ objects[s] = "none"
          /\ objects' = [objects EXCEPT ![s] = "good"]
          /\ objectsDisk' = objectsDisk \ {s}
          /\ Go(p, "syncobjects") /\ UNCHANGED stage
       \/ /\ objects[s] = "good" /\ Go(p, "link")
          /\ UNCHANGED <<objects, objectsDisk, stage>>
       \/ /\ objects[s] = "bad" /\ Go(p, "error")
          /\ stage' = [stage EXCEPT ![p] = Absent]
          /\ UNCHANGED <<objects, objectsDisk>>
    /\ UNCHANGED <<dest, destDisk, deployment, deployDisk, foreign, gen, todo, shard, faulted>>

\* The store's directory is synchronized; an error here finds the object in
\* place and goes on without.
SyncObjects(p) ==
    /\ At(p, "syncobjects") /\ Go(p, "link")
    /\ \/ objectsDisk' = objectsDisk \cup {s \in Shards : objects[s] # "none"}
       \/ UNCHANGED objectsDisk
    /\ UNCHANGED <<objects, dest, destDisk, deployment, deployDisk, foreign>>
    /\ UNCHANGED <<stage, gen, todo, shard, faulted>>

\* The staged shard is a hard link, or a synchronized copy of the bytes.
Link(p) ==
    /\ At(p, "link") /\ Go(p, "shards")
    /\ stage' = [stage EXCEPT ![p].shards = @ \cup {shard[p]}]
    /\ UNCHANGED <<disk, foreign, gen, todo, shard, faulted>>

--------------------------------------------------------------------------------
(* The manifest, the verification and the rename.                           *)

WriteManifest(p) ==
    /\ At(p, "shards") /\ todo[p] = {} /\ Go(p, "sync")
    /\ stage' = [stage EXCEPT ![p].manifest = TRUE]
    /\ UNCHANGED <<disk, foreign, gen, todo, shard, faulted>>

\* Mutant: the staged directories are renamed unsynchronized.
SkipSync(p) ==
    /\ At(p, "sync") /\ Whole(stage[p], gen[p]) /\ Go(p, "rename")
    /\ UNCHANGED <<disk, foreign, stage, gen, todo, shard, faulted>>

\* verify_complete_generation, then module_dir and the stage are synchronized.
SyncStage(p) ==
    /\ At(p, "sync") /\ Whole(stage[p], gen[p]) /\ Go(p, "rename")
    /\ stage' = [stage EXCEPT ![p].synced = TRUE]
    /\ UNCHANGED <<disk, foreign, gen, todo, shard, faulted>>

\* renameat2 with NOREPLACE.
Rename(p) ==
    /\ At(p, "rename")
    /\ IF dest[gen[p]] = Absent
       THEN /\ dest' = [dest EXCEPT ![gen[p]] = stage[p]] /\ destDisk' = destDisk \ {gen[p]}
            /\ Go(p, "syncroot") /\ stage' = [stage EXCEPT ![p] = Absent]
       ELSE Go(p, "raced") /\ UNCHANGED <<dest, destDisk, stage>>
    /\ UNCHANGED <<objects, objectsDisk, deployment, deployDisk, foreign, gen, todo, shard, faulted>>

\* Another publisher's directory is verified; the stage is removed on return.
VerifyRaced(p) ==
    /\ At(p, "raced")
    /\ Go(p, IF Whole(dest[gen[p]], gen[p]) THEN "syncroot" ELSE "error")
    /\ stage' = [stage EXCEPT ![p] = Absent]
    /\ UNCHANGED <<disk, foreign, gen, todo, shard, faulted>>

\* Mutant: the root is not synchronized after the rename.
SkipRootSync(p) ==
    /\ At(p, "syncroot") /\ Go(p, "published")
    /\ UNCHANGED <<disk, foreign, stage, gen, todo, shard, faulted>>

SyncRoot(p) ==
    /\ At(p, "syncroot") /\ Go(p, "published")
    /\ destDisk' = {g \in Generations : dest[g] # Absent}
    /\ UNCHANGED <<objects, objectsDisk, dest, deployment, deployDisk, foreign>>
    /\ UNCHANGED <<stage, gen, todo, shard, faulted>>

--------------------------------------------------------------------------------
(* write_deployment: a synchronized temporary replaces the descriptor.      *)

PersistDeployment(p) ==
    /\ pc[p] \in {"found", "published"} /\ Go(p, "syncdeploy")
    /\ deployment' = gen[p] /\ deployDisk' = deployDisk \cup {gen[p]}
    /\ UNCHANGED <<objects, objectsDisk, dest, destDisk, foreign>>
    /\ UNCHANGED <<stage, gen, todo, shard, faulted>>

SyncDeployment(p) ==
    /\ At(p, "syncdeploy") /\ Go(p, "done")
    /\ deployDisk' = {deployment}
    /\ UNCHANGED <<objects, objectsDisk, dest, destDisk, deployment, foreign>>
    /\ UNCHANGED <<stage, gen, todo, shard, faulted>>

--------------------------------------------------------------------------------
(* Errors, process death and power loss.                                    *)

Working(p) == pc[p] \notin {"idle", "done", "error"}

\* An I/O error, or an analysis input that changed; the stage is removed.
Fail(p) ==
    /\ Working(p) /\ Go(p, "error")
    /\ faulted' = faulted \cup {p} /\ stage' = [stage EXCEPT ![p] = Absent]
    /\ UNCHANGED <<disk, foreign, gen, todo, shard>>

\* The process dies, or is run again; an abandoned stage has a name of its own
\* that nothing reads.
Rerun(p) ==
    /\ pc[p] # "idle" /\ Go(p, "idle")
    /\ stage' = [stage EXCEPT ![p] = Absent] /\ gen' = [gen EXCEPT ![p] = Absent]
    /\ todo' = [todo EXCEPT ![p] = {}] /\ shard' = [shard EXCEPT ![p] = Absent]
    /\ faulted' = faulted \ {p}
    /\ UNCHANGED <<disk, foreign>>

\* External: somebody leaves a partial directory under a generation's name.
Deposit(g) ==
    /\ dest[g] = Absent
    /\ dest' = [dest EXCEPT ![g] = ForeignDir] /\ destDisk' = destDisk \cup {g}
    /\ foreign' = foreign \cup {g}
    /\ UNCHANGED <<objects, objectsDisk, deployment, deployDisk, locals>>

\* What a directory may hold after the power is lost.
Surviving(d) ==
    IF d.synced THEN {d}
    ELSE [shards : SUBSET d.shards, manifest : {FALSE, d.manifest}, synced : {TRUE}]

\* What may become of generation g: its entry is lost only while the root that
\* holds it is not synchronized.
AfterLoss(g) ==
    IF dest[g] = Absent THEN {Absent}
    ELSE Surviving(dest[g]) \cup (IF g \in destDisk THEN {} ELSE {Absent})

\* External: unsynchronized entries may or may not be on disk; file contents
\* are synchronized before any of them gets its name, and the artifact root and
\* objects/ themselves stay.
PowerLoss ==
    /\ PowerFails
    /\ \E lost \in SUBSET (Shards \ objectsDisk) :
         objects' = [s \in Shards |-> IF s \in lost THEN "none" ELSE objects[s]]
    /\ dest' \in {d \in [Generations -> UNION {AfterLoss(g) : g \in Generations}] :
                    \A g \in Generations : d[g] \in AfterLoss(g)}
    /\ deployment' \in deployDisk /\ deployDisk' = {deployment'}
    /\ objectsDisk' = Shards /\ destDisk' = {g \in Generations : dest'[g] # Absent}
    /\ stage' = [p \in Publishers |-> Absent] /\ gen' = [p \in Publishers |-> Absent]
    /\ todo' = [p \in Publishers |-> {}] /\ shard' = [p \in Publishers |-> Absent]
    /\ pc' = [p \in Publishers |-> "idle"] /\ faulted' = {}
    /\ UNCHANGED foreign

Next ==
    \/ \E p \in Publishers :
         \/ Start(p) \/ LookDestination(p) \/ VerifyExisting(p)
         \/ TakeShard(p) \/ WriteObject(p) \/ PersistObject(p) \/ SyncObjects(p) \/ Link(p)
         \/ WriteManifest(p) \/ SyncStage(p) \/ Rename(p) \/ VerifyRaced(p) \/ SyncRoot(p)
         \/ PersistDeployment(p) \/ SyncDeployment(p)
         \/ Fail(p) \/ Rerun(p)
    \/ \E g \in Generations : Deposit(g)
    \/ PowerLoss

Spec == Init /\ [][Next]_vars

--------------------------------------------------------------------------------
(* Properties.                                                              *)

Steps == {"idle", "look", "existing", "shards", "object", "persist", "syncobjects", "link",
          "sync", "rename", "raced", "syncroot", "found", "published", "syncdeploy", "done", "error"}

\* Every variable keeps its type; a publisher owns a stage exactly while it fills,
\* verifies and renames it, so that no error path leaves one behind.
TypeOK ==
    /\ objects \in [Shards -> {"none", "good", "bad"}] /\ objectsDisk \subseteq Shards
    /\ dest \in [Generations -> Dirs \cup {Absent}] /\ destDisk \subseteq Generations
    /\ deployment \in Generations \cup {Absent} /\ deployDisk \subseteq Generations \cup {Absent}
    /\ foreign \subseteq Generations /\ stage \in [Publishers -> Dirs \cup {Absent}]
    /\ gen \in [Publishers -> Generations \cup {Absent}] /\ todo \in [Publishers -> SUBSET Shards]
    /\ shard \in [Publishers -> Shards \cup {Absent}] /\ pc \in [Publishers -> Steps]
    /\ faulted \subseteq Publishers
    /\ \A p \in Publishers :
         stage[p] # Absent <=>
           pc[p] \in {"shards", "object", "persist", "syncobjects", "link", "sync", "rename", "raced"}

\* A generation directory is never visible half filled, whatever publishers race,
\* die or lose power while filling it: what is not whole somebody else left there.
GenerationsWhole ==
    \A g \in Generations \ foreign : dest[g] = Absent \/ Whole(dest[g], g)

\* A shard in the object store is damaged only if it was found so: no publisher
\* that dies while writing poisons later publications of the same shard.
NoPoisonedObjects ==
    [][\A s \in Shards : objects'[s] = "bad" => objects[s] = "bad"]_vars

\* Publishers of the same shards or the same generation never fail each other: one
\* that reports an error met an I/O error, a changed input, or somebody's damage.
RacingPublishersSucceed ==
    \A p \in Publishers : pc[p] = "error" =>
      \/ p \in faulted \/ gen[p] \in foreign
      \/ \E s \in ShardsOf[gen[p]] : objects[s] = "bad"

Served == deployment # Absent => Whole(dest[deployment], deployment)

\* The descriptor names a generation that is there and whole, whichever publisher
\* wrote last and whoever died in between; only a loss of power can take away what it
\* names, and whoever writes it next names a whole generation again.
DeploymentServed ==
    [][Served \/ deployment' # deployment => Served' \/ PowerLoss]_vars

\* A publisher that staged its generation, and won or lost the rename, names it
\* only once the directory is whole and its entry is on disk.
StagedIsDurable ==
    \A p \in Publishers : pc[p] = "published" =>
      gen[p] \in destDisk /\ Whole(dest[gen[p]], gen[p])
================================================================================
