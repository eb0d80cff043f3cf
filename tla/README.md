# SOAC strict runtime: TLA+ verification project

SOAC compiles and runs *strict* Python modules on a patched CPython 3.15. A
strict module is analysed offline; its facts are published as a signed artifact.
At import an authenticated loader admits the module against that artifact,
installs a protected namespace, runs the body once (compiled by SOAC, or as
original code on instrumented CPython frames), finalises every function and class
the body produced and seals the bindings. Functions are compiled by a
process-wide JIT, in the background and on demand.

The modules here model two things. The first is the runtime state that several
actors share: Python threads, callbacks and finalizers under the GIL, operating
system threads of the JIT, and concurrent processes in the file system. The
second is the one part of the compiler in which control flow itself is the
difficulty: nested `try` statements and loops, from source to execution. The rest
of the compiler (expressions, optimizer, code generation) is not modelled.

Paths below are relative to the repository; `jit/` is `crates/soac_jit/src/`,
`lowering/` is `crates/soac_lowering/src/passes/`.

## 1. Inventory

| Part | State | Operations | What makes it hard |
|---|---|---|---|
| Strict namespace, `jit/strict_module.rs` | policy phase, execution flag, dictionary, policy slot, module handle, owner | install, begin execution, record entry, begin/finish sealing, fail, release, dictionary writes, teardown | the dictionary escapes to Python; handle, owner and dictionary die in any order |
| Pending registry, `jit/strict_module.rs` | two queues of records, an edge vector, a free list | register, register before, drain by scope, defer, remove | edges are recycled while a removal that listed them is suspended |
| Module import, `crates/soac_pyo3/src/jit_runtime.rs`, `jit/module_type.rs`, `jit/strict_interpreter*` | the above for one module, the root execution, position of each call | create, exec on two backends, finalize, publish capabilities, seal, fail | the body and every finalizer can call back in |
| Class admission, `jit/strict_class*.rs`, `jit/strict_dataclass/`, `jit/strict_interpreter/` | native phase and selection of a type, class phase, dataclass plan and invocation, registry record | construct, register, apply a dataclass, replace, complete, admit, dispose, store, drain | the statement, another call of it and the import admit or fail the same type |
| Artifact publication, `tools/ty/src/publish.rs` | object store, generation directories, deployment descriptor, private stages | stage, link, verify, rename, synchronize, name | racing processes, death at any step, power loss |
| Artifact admission, `tools/ty/src/inputs.rs`, `crates/soac_contracts/src/deployment.rs`, `jit/strict_loading.rs`, `jit/session.rs` | observations, descriptor, captured expectations, position of the import | observe, verify, publish, capture, open, select, check, admit | nothing locks the files that are being compared |
| Managed generators, `jit/managed_generator.rs`, `jit/preserved_state.rs` | binding phase, permit, pending exception, capsule, exception item | bind, send, throw, close, resume, terminal cleanup, clear | delegates and finalizers run between the steps |
| Handled exceptions, `jit/handled_exception.rs` | chain of items, records and pending scope per activation, owner flags | select, retire, detach, release, clear, destroy | finalizers run in the middle of a transition |
| Try lowering, `lowering/ruff_to_blockpy/`, `lowering/name_binding.rs`, `lowering/blockpy_to_bb/exception_pass/` | blocks with parameters, regions, edges | rewrite handlers, lower suites, redirect returns, fill arguments, split, place releases | one `finally` suite serves every way in, at every depth |
| Block executor, `jit/jit/deopt_interpreter.rs` | locals, records, pending scope | enter block, run instruction, take edge, throw | what the lowering promised has to be what runs |
| Process JIT, `jit/jit/process.rs` | function table, waiters, plans, queue, channel, workers | reserve, plan, compile, commit, wait, assist, promote, fail | locks are released between all of these |
| Value counters, `jit/counter.rs` | slots | record | the table is full most of the time |
| BlockPy cache, session caches, contracts, other lowering, optimizer, typed IR, planning, code generation, inspector | files, maps | pure functions, load and store | size |

`PROJECT.json` lists every part with its status and reason, and every hazard at
the line where it bites.

## 2. Modules

| Module | Models | Used by |
|---|---|---|
| `NamespaceContract` | what a namespace promises to whoever holds its dictionary | refined by `StrictNamespace` |
| `StrictNamespace` | phases, write barrier, handle and owner of one namespace | refined by `ModuleImport` |
| `PendingQueue` | the registry as two plain queues | refined by `PendingRegistry` |
| `PendingRegistry` | records, recycled weak edges, suspended removals | |
| `ModuleImport` | one module from creation to publication on either backend | |
| `ClassAdmission` | executions of a class statement beside the import | |
| `ArtifactPublish` | publishers of generations, with crashes | |
| `ArtifactLoad` | checker, descriptor and importing interpreter over edited files | |
| `ManagedGenerator` | one suspended native generator | |
| `HandledStack` | the source-level stacks of handled exceptions | refined by `HandledException` |
| `HandledException` | items, records and owners, with finalizers in every transition | |
| `TryLowering` | statements to basic blocks | `ExceptionPass`, `PythonTry` |
| `ExceptionPass` | edge arguments and the passes over exception flow | `TryExecution` |
| `PythonTry` | the meaning of loops and `try` in Python, as a machine | `TryExecution` |
| `TryExecution` | compiled functions run beside their meaning | |
| `ProcessJit` | the compile table, a background batch, Python callers | |
| `TopValueCounter` | the space-saving counters | |
| `SequenceOps` | sequence helpers in a form the prover handles | `PendingRegistry`, `PendingQueue`, `ModuleImport`, `ClassAdmission`, `ProcessJit` |
| `SequenceLemmas` | what these helpers return | the proofs of `PendingRegistry`, `ModuleImport`, `ClassAdmission`, `ProcessJit`, `TopValueCounter` |
| `ArtifactProofs` | theorems about `ArtifactPublish` and `ArtifactLoad` | |
| `JitProofs` | theorems about `TopValueCounter` and the table of `ProcessJit` | `JitOwnerProofs` |
| `JitOwnerProofs` | theorems about the plans and threads of `ProcessJit` | |
| other `*Proofs` | theorems about the module of the same name | |
| `MC*` | finite instances | |

Definitions marked "Mutant" are variants of the definition that follows them; no
specification uses them. Each breaks one property, which shows that the property
depends on that piece of code.

Under the GIL, "interleaving" means: at each point where a step can run Python
code (a callback, a finalizer, a release of a reference) any other operation may
happen. A model step is the code between two such points. Where real threads
run, a step is what happens under one hold of a lock.

### StrictNamespace
`phase`, `started`, `strictAssign` are the fields of `NamespacePolicy`;
`entered` is `initializer_entry`; `policy`, `handle`, `ownerLive`, `dict` are the
lifetimes of the dictionary's policy slot, the `StrictModuleRuntimeState`, its
GC-owned owner and the dictionary. `Permits` is `NamespacePolicy::permits`,
`Validates` the `validate_namespace` callback. `SetItem`, `DelItem`, `ClearDict`
and the destruction of the dictionary belong to the patched CPython and are
external. Keys are a final name, a declared mutable name, a string that is no
source name and a key that is no string.

The refinement mapping `Mode` turns phase and lifetimes into the modes of the
contract: installing, open, append-only, closed, gone.

### PendingRegistry
`records`, `capabilities`, `freeEdges`, `edges` are the fields of the Rust types;
`scan` is a removal between two candidates. Objects are weakly held; `Die` is
external. The refinement mapping replaces each record by the object its edge
points to, so it holds only if no edge is ever confused.

### ModuleImport
Each call of `exec_module` or `exec_interpreter_module` is a process with a
program counter; the rest of the process is `Environment`: definitions are born,
completed, dropped, failed, receipts removed, state cleared at any point. The
model maps onto `StrictNamespace`: the drivers use the namespace only through its
operations.

Behaviour of the code worth knowing, visible in the model:
* A replayed `exec_module` during initialization closes the module on the SOAC
  backend, while the interpreter backend refuses the replay and leaves the first
  execution alone.
* A definition declared between the end of the finalization loop and
  `finish_sealing` makes the import fail: `finish_namespace_sealing` tests the
  registries again.
* A receipt leased by an ending invocation may be settled after publication;
  `PublishesComplete` says it is then in the hands of that invocation.

### ClassAdmission
One class statement, plain, a dataclass, or a slots dataclass whose decorator
builds a second type of the same lineage. `native` is the phase the patched
CPython keeps in the type, `phase` the `ClassPhase`, `plan` and `bound` the
dataclass plan and the type the requirements were bound to, `records` the weak
records in the module's registry. `call[a]` is an activation of `complete_class`:
every actor, the statement's thread or the importing thread (`Driver`), may be
inside one, also for the same type. Lanes are compiled code ("retained") and
original code under call callbacks ("interpreter"). A namespace is intact or
changed by a callback; which member changed is not told apart. Whether a second
`bind_final_type_requirements` of the same type is refused depends on its fields, so both
outcomes are possible; so are a failure after the seal (the method families, the
capabilities), after the commit of an application (its publication) and at the end
of `construct_class` (the decorator, the key watch).

Behaviour of the code worth knowing, visible in the model:
* In the interpreter lane a decorator call refused inside the selection callback
  (`begin_apply`) leaves the record of its type until the call returns, where
  `doc/TYPE_DRIVEN_OPTIMIZATION.md` says that failed application removes its
  pending records in either path. `ApplicationForgotten` speaks of the retained
  lane.
* If the import is inside the native admission of a completed dataclass when the
  statement's thread calls `admit_class`, `complete_class` skips the admission and
  the statement returns a class that is enforced only when the import comes out.
  `CompletedIsFinal` excuses exactly that.
* A plain class that fails after registration leaves its weak record. If the error
  is caught and the type is still alive, the drain fails the import.

### ArtifactPublish
Directory entries, not bytes: a file gets its name only after its content is
synchronized, so what a crash can lose is entries. `objectsDisk`, `destDisk`,
`deployDisk` say what is on disk; `PowerLoss` chooses among what may survive.
Manifests and signatures are represented by the generation they identify (one
signing key). `foreign` marks directories someone else left partial. Shards are
taken in any order, which covers the order of the manifest.

A publisher that finds the generation already there returns without
synchronizing the artifact root, so the descriptor may name a generation whose
entry is not on disk yet; a generation that is missing is refused at load.
`StagedIsDurable` therefore speaks of publishers that staged, and
`DeploymentServed` allows a power loss to take away what the descriptor names.

### ArtifactLoad
The checker reads its inputs one by one, derives facts, verifies every input
again (before deriving, before publishing, and twice around the descriptor), and
names the result. An interpreter captures the descriptor once, builds its loader
from a whole generation, and admits each import: select, read the source, verify
every input, compare the source, verify every input and each consumed source once
more, read the shard. `history` holds every state the input
files have had; an edit gives one input a version never used before, so content
does not come back. Digests and signatures are exact. Two facts carry the design
and are what the properties rest on: inputs that a later pass finds as they were
read were so, all of them, when that pass began, and the loader keeps the descriptor it was
started with. Shards are damaged and the power is lost at any step (`MaxDamage`
bounds the shards missing at a time, `MaxEdits` the edits, `MaxGenerations` the
generations in the store).

### ManagedGenerator
The binding (`managed`, `phase`, `pending`, ...), the capsule (`terminal`,
`clearing`, `snapshot`, ...) and the native object's state, as far as the code
relies on it. The C side is external: it calls `step` only on a generator that is
neither running nor closed. The model starts after `install_managed_binding`.
`GcClear` and `ResumeDirectly` are enabled wherever Python can run.

### HandledException and HandledStack
`top`, `prev`, `val` are CPython's chain of items, `recs` and `pending` the records
and the pending scope of an activation's state, `loc` the locals that hold
exceptions, `refs` the reference counts. `stack` is the call stack: an activation
runs a block, or is in the middle of a transition, or a finalizer runs (`py`).
Dropping the last reference to an exception pushes a finalizer, which may replace
the handled exception, call, resume, clear or drop the very activation that is
changing. The block transitions come from compiled code and the deopt
interpreter, in the mode the target block asks for: it enters its regions or
unwinds to them; a terminal block retires the state of a generator and then
releases its slots, detached. The owner's clearing and destruction come from
`jit/preserved_state.rs`.

`HandledStack` is what the source says: each context has a stack of open handlers
and a handled exception; entering pushes, leaving restores. The mapping reads it
off the records of the activations that share an item.

### TryLowering, ExceptionPass, PythonTry, TryExecution
`TryLowering` turns statements into blocks as `lowering/ruff_to_blockpy/` does:
handlers are rewritten to tests, each `try` gets its regions, `finally` its
normal, exceptional and pending entries and a dispatch, and `return`, `break` and
`continue` inside become pending completions; trivial returns are then folded,
unreachable blocks pruned and parameters ordered. `ExceptionPass` adds what
follows: edge arguments filled, blocks split, pending completions unwound and
exception transports retired. The compiled function is run by `TryExecution` with the steps of
`jit/jit/deopt_interpreter.rs` on the records of `jit/handled_exception.rs`.

`PythonTry` is the meaning of the same statements in Python, written as a machine
over a stack of statements; it is external, and both machines are given the same
answer wherever unknown code runs.

Restrictions: plain functions without suspension, cells or preserved slots; no
`for`, `with` (expanded to these before), `except*` or `match`; an expression
completes or raises; the cleanup of expression operands (`operand_cleanup.rs`) and
the optimizer between lowering and execution are left out.

### ProcessJit
`entry` is the function table, `open` and `failed` are the waiters, `defined` the
bodies in the Cranelift module. The background thread is scan, reserve, join,
plan, attach, collect, commit; workers pop, compile, send; callers look up,
reserve, compile, wait, promote, assist. The GIL is modelled because background
planning needs it and callers hold it except while they wait. Code generation
succeeds or fails (`MaxFaults`). A background batch stays inside one module,
because a call that leaves a module is not direct; functions outside `Module`
stand for other modules.

Behaviour of the code worth knowing, visible in the model:
* A callee another plan is compiling is left out of a batch and not waited for, so
  its caller is published before the callee has a body, although
  `doc/todo/doneish/global_jitmodule.md:40` describes direct compilation as walking
  the reachable edges, defining the bodies and then publishing. `CalleesDefined`
  excuses exactly that.
* In a mutually recursive module, a caller that took one function from the queue
  waits for the other, which the collector holds back for the first. The batch
  then ends with functions it cannot commit and fails, and the caller gets an
  error although nothing failed to compile (`stranded` in `ErrorsExplained` and
  `LoneCallerServed`). That it gets one, and does not wait for ever, is
  `EveryoneReturns`, checked over such a pair.
* A reservation that breaks off, also after its last entry, leaves entries in
  `Compiling` that nobody compiles, and no step of the code takes it back.
  `CompilingIsOwned` excuses those, and `jit_lone` has none (`ReserveBreaks`).
* It also excuses a function one of whose earlier plans failed. The case needs a
  long schedule. A batch q leaves y to the caller that is compiling it, and that
  fails; a second caller takes x, which calls y, from the queue of q and waits for
  another function; q fails under a third caller's assist; the background retries
  T, x and y in a new batch, a worker takes T, and the second caller publishes x; a
  fourth caller drops y from the queue, for lack of its own target there. T depends
  on y only through x, which is ready, so the collector commits T, has nothing left
  to wait for and ends: y stays in `Compiling` with no owner. The attempt to prove
  `CompilingIsOwned` without the excuse led to this schedule.

### TopValueCounter
`slots` as in the code, with `seen` and `total` as the truth to compare with.

## 3. Runs

| Run | Checks | Instance |
|---|---|---|
| `namespace` | abandoned namespaces are closed; only teardown revokes a published one; implements `NamespaceContract` | 2 names, 2 odd keys, 2 values, 2 receipts |
| `registry` | every edge has one owner; implements `PendingQueue` | 3 objects, 2 kinds, 2 invocations |
| `import` | complete publication; settled at rest; completion ends; implements `StrictNamespace` | 2 calls, 2 functions, 1 class, both backends |
| `classes` | only the selected type opens; a completed statement has its class; failures stay with their call; a failed application is forgotten | 2 calls of a statement, both lanes, 3 kinds, the import |
| `publish` | racing publishers succeed; generations whole; staged is durable; no poisoned objects; descriptor served | 2 publishers, 2 generations sharing a shard, power loss |
| `load` | the descriptor describes one moment; selected sources run verified; admission is current | 2 modules, 2 edits, 2 generations, 1 damaged shard, power loss |
| `generator` | no error lost; suspended is resumable; entry is permitted; closed is released | one generator, no bound |
| `handled` | the chain follows the calls; records match the source; references balance; implements `HandledStack` | 1 generator with nested regions, 1 function, 2 exceptions |
| `try` | the compiled function means its source; holds what it must and nothing else; gives up in order | 372 functions, 3 raises, 2 turns of loops |
| `jit` | waiters reachable; compiling is owned; callees defined; errors explained | f and g recursive, t outside calling f, 2 callers, 2 workers, 2 faults |
| `jit_lone` | a caller of its own functions is served; everyone returns | chain g, h and recursive pair k, m, a caller of each, 1 worker, 1 fault |
| `counter` | counts bracket the truth; heavy hitters kept | 2 slots, 4 values, 8 records |

Every run passes: TLC finds no violation.

**Bounds.** `registry`: three objects are the fewest with which an edge is freed
and recycled while a removal that listed it is suspended. `import`: one replay
meets the first call in every phase; three definitions allow one to be born while
another's capabilities are bound and a third waits. `classes`: two calls have the
same statement, so that one's clean-up could reach the other's types; a statement
of the module body does less, since it ends before the import seals. `publish`:
two publishers meet in every pair of steps, and the shared shard makes them meet
in the object store also when they publish different generations. `load`: with one edit
any versions observed were together at some moment; with two, observations can mix
versions that never were. One shard at a
time is enough to fail the loader or one admission, and a second generation to have
a descriptor that is not the one the interpreter holds. `generator` is finite.
`handled`: a stack of four holds a function called from a finalizer inside a
generator's transition; two regions nest, and two exceptions tell replaced from
kept. `try`: a `try` in every suite of another, inside a loop, with suites that
fall through, return, leave the loop or raise, and nests of three; three raises
reach an error in a `finally` suite entered by an error in a handler. `jit`: two
recursive functions give the cyclic wait, the function outside gives a foreign
plan; in the code a caller forgives four background errors (`MaxWaitErrors`), here
none in `jit`, so that giving up is reached, and one in `jit_lone`, so that
forgiving is. There one worker is enough: in this module order it can hold g while h
is queued, and m while k is, the two cases in which an assist makes the batch fail. `counter`: with four values and two slots displaced values return.
Symmetry is used for publishers, for objects and invocations of the registry, for
calls in `classes` and for exceptions in `handled`: all are interchangeable, and
these runs have no liveness property.

**Deadlock.** It is checked except in `namespace`, `registry`, `import` and
`counter`, where a state with everything torn down, or a stream at its bound, is
an end. A function of `try` that has completed stays as it is.

**Fairness.** `import`: weak fairness of the loader's own steps after the body has
ended; nothing says that the body returns. `generator`: weak fairness of the
cleanup after the body. `jit_lone`: weak fairness of the
workers, strong fairness of the threads that take the GIL, because others take and
release it while they wait and CPython hands it over on request.

## 4. Proofs

Each theorem holds for every value of the constants that satisfies the named
assumption of its module (distinctness of special values, non-empty or positive
constants, shapes of functions and sequences).

* `StrictNamespaceProofs`. `TypeOK` is inductive. `AbandonedIsClosed` is inductive
  together with it. `PublishedOutlivesHandle` follows step by step. `Refinement`:
  initial states map to initial states, and `StepRefines` maps each step to a step
  of the contract or to a stutter; dictionary writes go through one lemma,
  `WriteRefines`, on what the barrier permits in each phase.
* `PendingRegistryProofs`. `EdgeOwnership` is inductive with the types of the
  queues. The work is on sequences: a group of lemmas, some of them in
  `SequenceLemmas`, says what removing, inserting and popping do to domains, ranges
  and injectivity; `Claim` and
  `Release` move one edge between the free and the owned ones; every operation
  is a claim, a release or neither. `ImplementsQueue` rests on it: `EntriesOf` reads
  records through a given edge vector, a claim or a release changes no edge that
  another record names (`ClaimEntries`, `ReleaseEntries`), so what an operation does
  to the records it does to the entries; one lemma `...Refines` per action maps it to
  a step of `PendingQueue`, and `StepRefines` collects them.
* `ModuleImportProofs`. `SettledAtRest`, `PublishesComplete` and the refinement
  `ImplementsNamespace`, for any number of calls and definitions, on either backend.
  `IInv` says in which phases the module's handle is held (`HandleInv`), that one call
  at a time works on the module, and only once it has been claimed (`ClaimInv`), that
  nothing is declared before the body is entered (`EntryInv`, `BornInv`), that an
  executed module that is neither published nor closed has a call at work (`RestInv`),
  and that an open definition is in the queue or in the hands of the call that
  finalizes it (`OpenInv`). `RestInv` gives the first property; `OpenInv`, with the
  test of both registries in `finish_namespace_sealing`, the second. Every step is one
  of the lifecycle, a move of one call, a change of the registries by the drain, or
  a step of the program (`Lifecycle`, `GoingTo`, `Registry`, `Program`), and the
  invariant and the refinement are shown once for each kind.
* `ArtifactProofs`, on `ArtifactPublish`. `GenerationsWhole` and `StagedIsDurable` need
  `IInv`: a publisher at work has a generation, and a shard while it handles one
  (`LocalsSet`), a generation directory was synchronized before it
  was renamed (`DestSynced`), a stage about to be renamed is whole and
  synchronized (`StageReady`), and what a publisher synchronizes the root for is
  whole (`Landed`). Crashes and power loss are steps of the proof.
  `RacingPublishersSucceed` adds `AllSeen`: what a publisher has met so far, in the
  object store and in its stage, is good or excused by damage it did not cause.
  `NoPoisonedObjects` and `DeploymentServed` are properties of steps, shown action
  by action from the same invariant.
* `ArtifactProofs`, on `ArtifactLoad`. All three properties of `ArtifactLoad`, for any inputs and
  dependencies and any number of edits. `HistoryInv` says that a version, once
  replaced, does not come back: an input seen with the same version at two moments
  had it at every moment between. `SeenBy` says each observation was true at some
  moment, `PassedAt` that what a pass has compared held when the pass began.
  `CheckerInv` and `LoaderInv` attach these to the steps of the checker and of
  the import; at the end of a pass (`PassDone`) they give one moment for all inputs.
* `ClassAdmissionProofs`. `OpenIsSelected`, for any number of executions and calls. The
  invariant adds that only the type to be delivered is ever selected or bound
  (`FinalOnly`) and that an activation about to admit a type has its requirements
  bound to it (`AdmitsBound`). Most steps only close types; `Closes` says what such a
  step may change, and `CloseStep` keeps the invariant once for all of them.
  `CompleteClassStep` and the application are the rest. `CompletedIsFinal`,
  `FailureIsOwn` and `ApplicationForgotten` need to know what becomes of a statement:
  `LifeInv` says for each one what its activation of `complete_class` works on
  (`Activation`), where its type is between completion and sealing, namely in
  the registry, with the import or sealed (`Awaited`), who is inside its admission
  (`Admitter`), what an activation that returned has delivered (`Result`), and that in
  the interpreter lane nobody else settles a construction under way, because the
  executions of one call do not overlap (`Interpreting`, `OneAtATime`). A step of
  one statement leaves the others alone (`OwnStep`, `OwnStepKeeps`).
* `JitProofs` and `JitOwnerProofs`, on `ProcessJit`. `WaitersReachable` is inductive by itself and `ReadyStays`
  (a published function is never withdrawn) holds of every step: both are shown for
  the four operations that change the table, and every step of a thread is one of
  these or leaves it alone. `ReadyStays` is proved only, no run repeats it.
  `CompilingIsOwned` and `CalleesDefined` (in `JitOwnerProofs`, from what `JitProofs`
  shows of each operation) need the whole protocol (`TableIsOwned`):
  what table and plans say of each other (`TableInv`), what a caller knows of the plan
  it works for (`CallerInv`), where a function is that has left the queue of the
  batch, namely with a worker, in the channel, in the collector's hands or with a
  caller (`BgInv`, `OwnedInv`), and that what a plan has settled is closed under
  calls within it (`PublishedInv`, `SettledDeps`). The collector commits what has no
  open dependency; that an empty queue, channel and collector leave nothing behind
  is where the invariant is used. The assumption on the constants says that the order
  of a batch is not empty, that a module is closed under direct calls, and that there
  is a worker (`jit_batch_worker_count` is at least one).
* `JitProofs`, on `TopValueCounter`. `Bracketed` needs that no value sits in two slots
  (`Distinct`) and that a value in no slot was seen at most as often as the least
  slot says (`Absent`), which is what a displaced value's successor inherits.
  `HeavyHittersKept` adds that the slots sum to the length of the stream; that N
  slots each above a bound sum to more than N times it is an induction over the
  slots, done as a set of naturals closed under successor (`NatIsInductive`, from the
  well-foundedness of <).

Only model-checked: liveness (`CompletionEnds`, `ClosedIsReleased`,
`EveryoneReturns`), which the prover does not reach; the properties of `try`, whose
modules are recursive over programs, and of `handled` (`ImplementsHandledStack`
included), which speak of recursively defined chains and counts; the invariants of
`ManagedGenerator`, which has no constants and finitely many states, so that its run
is already exhaustive and a theorem would say no more; and `ErrorsExplained` and
`LoneCallerServed` of `ProcessJit`, which follow each error back to its cause: their
invariant has to tell which of several errors in the channel, the waiters and the
callers comes from which fault.

## 5. Plan

Worth adding, in this order:
1. Suspension in the try lowering: the functions of `TryExecution` as generators,
   which brings in preserved slots and joins it to `HandledException`.
2. Nested and generator invocations of the instrumented interpreter: leases and
   abandoned frames, composed with the registry.
3. The refinement of what `ModuleImport` says of a class by `ClassAdmission`.
4. The plan caches of the session against a registry that grows meanwhile.

Next proofs: `NoErrorLost` and `SuspendedIsResumable` of `ManagedGenerator`; `ErrorsExplained` of `ProcessJit`.

## 6. Not modelled

Most of the repository's roughly 300,000 lines, measured by size. The models
cover the protocols of the runtime and the control flow of exceptions; what is
left is mostly code without states to explore.

* The rest of the compiler: expressions, `for`, `with`, `match`, comprehensions,
  classes, suspension and name resolution in the front end, optimizer, typed IR,
  planning and code generation. These are translations of whole programs;
  differential and snapshot tests cover them, and a model would be a second
  compiler.
* Formats, signatures and validation (`crates/soac_contracts`, loader checks,
  verification of native code objects): pure functions over documents. Models use
  their verdict.
* Type checks of calls, fields, slots and descriptors: sequential functions of
  values and facts. The members a dataclass generates are of this kind.
* The BlockPy cache: every failed check on load is a miss; two threads of one
  process that share its temporary name depend on how the file system orders two
  writers of one file.
* The plan caches and interned layouts of the session, and the frames of nested
  interpreter invocations other than those of a class statement.
* CPython, its patch, and Cranelift: external; their behaviour is taken from how
  the code uses them.
* Memory layout of unsafe code: lifetimes and, for exceptions, reference counts are
  modelled, addresses are not.
* Inspector, configuration, macros, build scripts: no shared state.
