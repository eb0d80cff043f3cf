------------------------------ MODULE ArtifactLoad ------------------------------
(***************************************************************************)
(* Admission of strict modules: the offline checker (tools/ty/src/main.rs,  *)
(* inputs.rs) observes its inputs, publishes the facts it derives from them *)
(* and names them in a deployment descriptor; an interpreter captures that  *)
(* descriptor once (soac_jit/src/strict_loading.rs, session.rs) and admits  *)
(* each selected module only against it.  Nothing locks the inputs: they    *)
(* are edited while the one derives facts and the other checks them, and    *)
(* the generation's files may be lost or damaged.                           *)
(***************************************************************************)
EXTENDS Naturals, Sequences, FiniteSets

CONSTANTS Modules,     \* selected modules, each with its source file
          Inputs,      \* the paths the checker reads, in their order: a sequence
          Deps,        \* the sources each module's facts consumed, in order
          Sources,     \* the sources some module's facts consumed, each once
          Other,       \* a module name that is not selected
          None,        \* nothing captured, not run
          MaxDamage,   \* bound: shards missing at a time
          MaxEdits,    \* bound: edits of inputs
          MaxGenerations \* bound: generations in the store

InputSet == {Inputs[k] : k \in 1..Len(Inputs)}

Consumed(ms) == {d \in Modules : \E m \in ms : \E k \in 1..Len(Deps[m]) : Deps[m][k] = d}

ASSUME LoadAssumption ==
    /\ Inputs \in Seq(InputSet) /\ Modules \subseteq InputSet
    /\ None \notin Nat /\ None \notin [InputSet -> Nat]
    /\ \A m \in Modules : Deps[m] \in Seq(Modules \ {m})
    /\ Sources \in Seq(Modules) /\ Consumed(Modules) = {Sources[k] : k \in 1..Len(Sources)}
    /\ Other \notin Modules /\ MaxDamage \in Nat /\ MaxEdits \in Nat /\ MaxGenerations \in Nat

VARIABLES history,    \* the states the input files have had, the last one current
          store,      \* generation directories by what they were derived from
          descriptor, \* the deployment descriptor: the inputs it was derived from
          cpc, seen, checks, \* the checker: its step, its observations, paths to verify
          startup,    \* the descriptor bytes the interpreter was started with
          loader,     \* whether the session holds a StrictArtifactLoader
          lpc, request, source, since, unread, \* the import in progress (since: when its source was compared)
          run         \* the version and the facts each source was run with

checker == <<cpc, seen, checks>>
import == <<lpc, request, source, since, unread>>
loadVars == <<history, store, descriptor, checker, startup, loader, import, run>>

\* A version stands for all that capture_analysis_input tells apart: the bytes and
\* canonical path of a file, a directory's entries, or that there is nothing.
file == history[Len(history)]

Unread == [i \in InputSet |-> None]
Idle == /\ lpc = "idle" /\ request = None /\ source = None /\ since = 0 /\ unread = <<>>

LoadInit == /\ history = <<[i \in InputSet |-> 0]>> /\ store = <<>> /\ descriptor = None
            /\ cpc = "idle" /\ seen = Unread /\ checks = <<>>
            /\ startup = None /\ loader = FALSE /\ Idle /\ run = [m \in Modules |-> None]

\* External: somebody edits an input; no content comes back.
Edit(i) ==
    /\ Len(history) <= MaxEdits
    /\ history' = Append(history, [file EXCEPT ![i] = Len(history)])
    /\ UNCHANGED <<store, descriptor, checker, startup, loader, import, run>>

--------------------------------------------------------------------------------
(* The checker.                                                             *)

CheckerOnly == UNCHANGED <<history, startup, loader, import, run>>

\* check: the process starts with no observation.
Check ==
    /\ cpc = "idle" /\ cpc' = "analyse" /\ UNCHANGED <<seen, checks, store, descriptor>>
    /\ CheckerOnly

CheckFails == cpc' = "idle" /\ seen' = Unread /\ checks' = <<>>

\* AnalysisSystem::record_state: a path observed again must be as it was.
Record(i) ==
    /\ cpc = "analyse"
    /\ IF seen[i] \in {None, file[i]}
       THEN seen' = [seen EXCEPT ![i] = file[i]] /\ UNCHANGED <<cpc, checks>>
       ELSE CheckFails
    /\ UNCHANGED <<store, descriptor>> /\ CheckerOnly

\* ty has read all it needs; AnalysisSystem::snapshot verifies it again.
Snapshot ==
    /\ cpc = "analyse" /\ \A i \in InputSet : seen[i] # None
    /\ cpc' = "snapshot" /\ checks' = Inputs
    /\ UNCHANGED <<seen, store, descriptor>> /\ CheckerOnly

\* Mutant: what has changed is taken over instead of refused.
RefreshInput ==
    /\ checks # <<>>
    /\ LET i == Head(checks) IN
       seen' = [seen EXCEPT ![i] = file[i]] /\ checks' = Tail(checks)
    /\ UNCHANGED <<cpc, store, descriptor>> /\ CheckerOnly

\* verify_analysis_inputs captures one path after the other.
VerifyInput ==
    /\ checks # <<>>
    /\ LET i == Head(checks) IN
       IF file[i] = seen[i] THEN checks' = Tail(checks) /\ UNCHANGED <<cpc, seen>>
                            ELSE CheckFails
    /\ UNCHANGED <<store, descriptor>> /\ CheckerOnly

\* check verifies again before it publishes what it derived.
Derive ==
    /\ cpc = "snapshot" /\ checks = <<>>
    /\ cpc' = "derived" /\ checks' = Inputs
    /\ UNCHANGED <<seen, store, descriptor>> /\ CheckerOnly

\* publish: a new generation is renamed into place, an existing one verified.
Publish ==
    /\ cpc = "derived" /\ checks = <<>>
    /\ IF seen \notin DOMAIN store
       THEN /\ Cardinality(DOMAIN store) < MaxGenerations
            /\ cpc' = "renamed" /\ UNCHANGED <<seen, checks>>
            /\ store' = [g \in DOMAIN store \cup {seen} |->
                           IF g = seen THEN [shards |-> Modules, synced |-> FALSE] ELSE store[g]]
       ELSE /\ UNCHANGED store
            /\ IF store[seen].shards = Modules
               THEN cpc' = "published" /\ checks' = Inputs /\ UNCHANGED seen
               ELSE CheckFails
    /\ UNCHANGED descriptor /\ CheckerOnly

\* The artifact root is synchronized only after a rename.
SyncStore ==
    /\ cpc = "renamed" /\ cpc' = "published" /\ checks' = Inputs
    /\ store' = [g \in DOMAIN store |-> [store[g] EXCEPT !.synced = TRUE]]
    /\ UNCHANGED <<seen, descriptor>> /\ CheckerOnly

\* write_deployment fills a temporary and verifies once more.
WriteDeployment ==
    /\ cpc = "published" /\ checks = <<>>
    /\ cpc' = "persist" /\ checks' = Inputs
    /\ UNCHANGED <<seen, store, descriptor>> /\ CheckerOnly

\* The descriptor is replaced by a rename and synchronized; the check is over.
Persist ==
    /\ cpc = "persist" /\ checks = <<>>
    /\ descriptor' = seen /\ CheckFails
    /\ UNCHANGED store /\ CheckerOnly

\* An error or a death at any step.
CheckerDies ==
    /\ cpc # "idle" /\ CheckFails
    /\ UNCHANGED <<store, descriptor>> /\ CheckerOnly

--------------------------------------------------------------------------------
(* The interpreter.                                                         *)

LoaderOnly == UNCHANGED <<history, store, descriptor, checker>>

\* The import fails with StrictRuntimeUnavailable and its module does not run; the
\* session keeps a loader only once it is built.
Refuse == /\ lpc' = "idle" /\ request' = None /\ source' = None /\ since' = 0 /\ unread' = <<>>
          /\ UNCHANGED <<startup, loader, run>>

\* External: an interpreter is started; natively it reads the descriptor, once.
Boot ==
    /\ lpc' = "idle" /\ request' = None /\ source' = None /\ since' = 0 /\ unread' = <<>>
    /\ startup' = descriptor /\ loader' = FALSE /\ run' = [m \in Modules |-> None]
    /\ LoaderOnly

\* create_module for some name with a selected source; with no descriptor the
\* original loader runs whatever the file holds.
CreateModule(name, path) ==
    /\ lpc = "idle" /\ run[path] = None
    /\ IF startup = None
       THEN /\ run' = [run EXCEPT ![path] = [version |-> file[path], facts |-> None]]
            /\ UNCHANGED <<lpc, request, unread>>
       ELSE /\ request' = [name |-> name, path |-> path] /\ UNCHANGED run
            /\ IF loader THEN lpc' = "select" /\ UNCHANGED unread
                         ELSE lpc' = "capture" /\ unread' = Inputs
    /\ UNCHANGED <<startup, loader, source, since>> /\ LoaderOnly

\* verify_analysis_inputs and the reads of the dependencies: each against the
\* captured expectations.
ObserveInput ==
    /\ unread # <<>>
    /\ LET i == Head(unread) IN
       IF file[i] = startup[i]
       THEN unread' = Tail(unread) /\ UNCHANGED <<lpc, request, source, since, startup, loader, run>>
       ELSE Refuse
    /\ LoaderOnly

\* verified_analysis_snapshot reads every consumed source once more; the
\* environment and the running interpreter are checked after it.
ReadConsumed ==
    /\ lpc = "capture" /\ unread = <<>> /\ lpc' = "open"
    /\ unread' = Sources
    /\ UNCHANGED <<request, source, since, startup, loader, run>> /\ LoaderOnly

\* The environment variables and the native identity of the interpreter are those
\* of the descriptor, or they are not.
HostMatches == {TRUE, FALSE}

WholeGeneration(g) == g \in DOMAIN store /\ store[g].shards = Modules

\* The session keeps the loader for as long as the interpreter lives.
KeepLoader == lpc' = "select" /\ loader' = TRUE

\* Mutant: an absent generation is taken for a deployment that is not opted into.
FallBack ==
    /\ lpc = "open" /\ unread = <<>>
    /\ IF startup \in DOMAIN store
       THEN KeepLoader /\ UNCHANGED <<request, run>>
       ELSE /\ lpc' = "idle" /\ request' = None /\ UNCHANGED loader
            /\ run' = [run EXCEPT ![request.path] = [version |-> file[request.path], facts |-> None]]
    /\ UNCHANGED <<source, since, unread, startup>> /\ LoaderOnly

\* from_snapshot opens the generation, verifies its manifest and every shard, and
\* the catalog of selected modules; a failure is not a fallback.
OpenGeneration ==
    /\ lpc = "open" /\ unread = <<>>
    /\ \E host \in HostMatches :
         IF host /\ WholeGeneration(startup)
         THEN KeepLoader
              /\ UNCHANGED <<request, source, since, unread, startup, run>>
         ELSE Refuse
    /\ LoaderOnly

\* selected_source: a selected name at its own path; a selected source under
\* another name, or another source under a selected name, is refused.
SelectSource ==
    /\ lpc = "select"
    /\ IF request.name = request.path
       THEN lpc' = "read" /\ UNCHANGED <<request, source, since, unread, startup, loader, run>>
       ELSE Refuse
    /\ LoaderOnly

\* create_module reads the source it is going to lower.
ReadSource ==
    /\ lpc = "read" /\ lpc' = "inputs"
    /\ source' = file[request.path] /\ unread' = Inputs
    /\ UNCHANGED <<request, since, startup, loader, run>> /\ LoaderOnly

\* Mutant: the dependencies are rebuilt from the sweep just made.
ReuseObservations ==
    /\ lpc = "inputs" /\ unread = <<>>
    /\ IF source = startup[request.path]
       THEN lpc' = "shard" /\ unread' = Deps[request.path] /\ since' = Len(history)
            /\ UNCHANGED <<request, source, startup, loader, run>>
       ELSE Refuse
    /\ LoaderOnly

\* verified_analysis_dependencies observes every input again, and each source the
\* module consumed once more.
Dependencies(m) == Inputs \o Deps[m]

\* load_verified: the source is the file the descriptor observed, and the
\* dependencies are as signed.
CheckSource ==
    /\ lpc = "inputs" /\ unread = <<>>
    /\ \E host \in HostMatches :
         IF host /\ source = startup[request.path]
         THEN lpc' = "shard" /\ unread' = Dependencies(request.path) /\ since' = Len(history)
              /\ UNCHANGED <<request, source, startup, loader, run>>
         ELSE Refuse
    /\ LoaderOnly

\* verify_module: the module's shard is read again; its facts are admitted with
\* the source they describe, and the module runs.
Admit ==
    /\ lpc = "shard" /\ unread = <<>>
    /\ IF startup \in DOMAIN store /\ request.path \in store[startup].shards
       THEN /\ run' = [run EXCEPT ![request.path] = [version |-> source, facts |-> startup]]
            /\ lpc' = "idle" /\ request' = None /\ source' = None /\ since' = 0
            /\ UNCHANGED <<unread, startup, loader>>
       ELSE Refuse
    /\ LoaderOnly

--------------------------------------------------------------------------------
(* Faults.                                                                  *)

\* External: a shard is damaged or removed, before or after its preflight.
Damage(g, m) ==
    /\ Cardinality({s \in (DOMAIN store) \X Modules : s[2] \notin store[s[1]].shards}) < MaxDamage
    /\ store' = [store EXCEPT ![g].shards = @ \ {m}]
    /\ UNCHANGED <<history, descriptor, checker, startup, loader, import, run>>

\* External: the power is lost; a generation whose entry was not synchronized may
\* be gone although a descriptor names it.
LosePower ==
    /\ \E kept \in SUBSET DOMAIN store :
         /\ \A g \in DOMAIN store : store[g].synced => g \in kept
         /\ store' = [g \in kept |-> [store[g] EXCEPT !.synced = TRUE]]
    /\ CheckFails
    /\ lpc' = "idle" /\ request' = None /\ source' = None /\ since' = 0 /\ unread' = <<>>
    /\ startup' = None /\ loader' = FALSE /\ run' = [m \in Modules |-> None]
    /\ UNCHANGED <<history, descriptor>>

LoadNext ==
    \/ \E i \in InputSet : Edit(i) \/ Record(i)
    \/ Check \/ Snapshot \/ VerifyInput \/ Derive \/ Publish \/ SyncStore \/ WriteDeployment
    \/ Persist \/ CheckerDies
    \/ Boot \/ \E name \in Modules \cup {Other}, path \in Modules : CreateModule(name, path)
    \/ ObserveInput \/ ReadConsumed \/ OpenGeneration \/ SelectSource \/ ReadSource
    \/ CheckSource \/ Admit
    \/ \E g \in DOMAIN store, m \in Modules : Damage(g, m)
    \/ LosePower

LoadSpec == LoadInit /\ [][LoadNext]_loadVars

--------------------------------------------------------------------------------
(* Properties.                                                              *)

\* What the checker's descriptor says of its inputs was true of all of them at one
\* moment, although they were read one by one while being edited.
DescribesOneMoment ==
    descriptor # None => \E k \in 1..Len(history) : history[k] = descriptor

\* In an interpreter started with a descriptor a selected source runs only with
\* facts, the facts are about the bytes that run, and two modules never disagree:
\* whatever is edited, republished, damaged or lost to the power meanwhile, a
\* dependency that runs is the version its dependents' facts consumed.
SelectedRunsVerified ==
    startup # None => \A m \in Modules : run[m] # None =>
      /\ run[m].facts # None /\ run[m].version = run[m].facts[m]
      /\ \A d \in Consumed({m}) : run[d] # None => run[d].version = run[m].facts[d]

\* A module is admitted only if at one moment since its source was compared all the
\* inputs its facts depend on were as the checker saw them: an edit made during the
\* first pass over the inputs does not slip in behind it.
AdmittedWhileCurrent ==
    [][\A m \in Modules : run[m] = None /\ run'[m] # None /\ startup # None =>
         \E k \in since..Len(history) : k > 0 /\ history[k] = startup]_loadVars
================================================================================
