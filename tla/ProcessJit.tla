------------------------------ MODULE ProcessJit -------------------------------
(***************************************************************************)
(* The process-wide compile table (jit/process.rs).  A background thread   *)
(* compiles every function of an imported module with a pool of workers    *)
(* and commits them in dependency order; Python threads that call a        *)
(* function compile it themselves, wait for whoever is compiling it, or    *)
(* take it out of the background queue.  What happens under one hold of    *)
(* the state lock is one step.                                             *)
(***************************************************************************)
EXTENDS Naturals, Sequences, FiniteSets, SequenceOps

CONSTANTS Calls,         \* direct calls: for each function the functions it calls
          Order,         \* the functions of the imported module, in definition order
          Callers,       \* Python threads
          Target,        \* the function each of them calls
          Workers,       \* code generation workers of a background batch
          NoOne,
          MaxWaitErrors, \* failed background compiles a caller forgives
          MaxFaults,     \* bound on planning, codegen and commit errors
          ReserveBreaks  \* a reservation may fail half way

Functions == DOMAIN Calls
Module == {Order[i] : i \in 1..Len(Order)}

\* A background batch holds one module: a call that leaves it is not direct.
\* It has at least one worker.
ASSUME GraphAssumption == /\ Calls \in [Functions -> SUBSET Functions]
                          /\ Order \in Seq(Functions) \ {<<>>} /\ \A f \in Module : Calls[f] \subseteq Module
                          /\ Workers # {}
                          /\ Target \in [Callers -> Functions]
                          /\ NoOne \notin Callers
                          /\ MaxWaitErrors \in Nat /\ MaxFaults \in Nat /\ ReserveBreaks \in BOOLEAN

VARIABLES entry,   \* the table: state of a function, and the plan compiling it
          plans,   \* every reservation made
          open,    \* waiters <<plan, function>> without a result
          failed,  \* waiters whose result is an error
          defined, \* functions with a body in the Cranelift module
          gil, faults,
          bg,      \* the background thread, also collector of its batch
          stop, worker, chan, \* its workers and the channel they send on
          caller,
          stranded \* a batch ended with functions it could not commit

table == <<entry, plans, open, failed, defined>>
pool == <<stop, worker, chan>>
vars == <<table, gil, faults, bg, pool, caller, stranded>>

Idle == [st |-> "declared", plan |-> 0]

Init == /\ entry = [f \in Functions |-> Idle] /\ plans = <<>>
        /\ open = {} /\ failed = {} /\ defined = {} /\ gil = NoOne /\ faults = 0
        /\ bg = [pc |-> "scan", plan |-> 0, root |-> Order[1], pending |-> {}, remaining |-> {}, group |-> {}, error |-> FALSE]
        /\ stop = FALSE /\ chan = <<>>
        /\ worker = [w \in Workers |-> [pc |-> "exit", f |-> Order[1]]]
        /\ caller = [c \in Callers |-> [pc |-> "idle", plan |-> 0, work |-> 0, claimed |-> {}, deps |-> {}, errors |-> 0, ok |-> FALSE]]
        /\ stranded = FALSE

--------------------------------------------------------------------------------
(* The table.                                                               *)

\* The functions of S that a call of f can reach through direct calls in S.
Closure(f, S) ==
    {g \in S : \A T \in SUBSET S : (f \in T /\ \A h \in T : Calls[h] \cap S \subseteq T) => g \in T}

Queued(p) == {plans[p].queue[i] : i \in 1..Len(plans[p].queue)}

Compiling(f) == entry[f].st = "compiling"
Ready(f) == entry[f].st = "ready"
NeedsCompile(f) == entry[f].st = "declared"

\* Functions ready or being compiled elsewhere are only predeclared.
Reserve(batch) ==
    LET p == Len(plans) + 1
        define == {f \in batch : NeedsCompile(f)}
    IN /\ plans' = Append(plans, [define |-> define, elsewhere |-> {f \in batch : Compiling(f)},
                                  broken |-> FALSE, attached |-> FALSE, queue |-> <<>>])
       /\ entry' = [f \in Functions |-> IF f \in define THEN [st |-> "compiling", plan |-> p] ELSE entry[f]]
       /\ open' = open \cup {<<p, f>> : f \in define}

\* An error while declaring or, once all is reserved, in the runtime imports or the
\* compiler's settings leaves what was reserved so far.
ReserveBreak(root, batch) ==
    /\ ReserveBreaks /\ faults < MaxFaults /\ faults' = faults + 1
    /\ \E done \in SUBSET {f \in batch : NeedsCompile(f)} :
          /\ done # {} => root \in done
          /\ LET p == Len(plans) + 1 IN
             /\ plans' = Append(plans, [define |-> done, elsewhere |-> {}, broken |-> TRUE, attached |-> FALSE, queue |-> <<>>])
             /\ entry' = [f \in Functions |-> IF f \in done THEN [st |-> "compiling", plan |-> p] ELSE entry[f]]
             /\ open' = open \cup {<<p, f>> : f \in done}

\* Mutant: the waiter of the entry is not told.
MarkReadySilently(group) ==
    /\ entry' = [f \in Functions |-> IF f \in group THEN [st |-> "ready", plan |-> 0] ELSE entry[f]]
    /\ UNCHANGED <<open, failed>>

\* Whoever compiles f now, its waiter gets the result.
MarkReady(group) ==
    /\ entry' = [f \in Functions |-> IF f \in group THEN [st |-> "ready", plan |-> 0] ELSE entry[f]]
    /\ open' = open \ {<<entry[f].plan, f>> : f \in group}
    /\ UNCHANGED failed

\* Only entries this plan is still compiling go back to Declared.
FailBatch(p) ==
    LET mine == {f \in plans[p].define : entry[f] = [st |-> "compiling", plan |-> p]}
    IN /\ entry' = [f \in Functions |-> IF f \in mine THEN Idle ELSE entry[f]]
       /\ open' = open \ {<<p, f>> : f \in mine}
       /\ failed' = failed \cup {<<p, f>> : f \in mine}

\* Every body is defined and finalized before any is published.
Commit(group) ==
    /\ group \cap defined = {}
    /\ defined' = defined \cup group
    /\ MarkReady(group) /\ UNCHANGED <<plans, faults>>

\* A duplicate definition, or an error of Cranelift or of the code log.
CommitError(group) ==
    \E done \in SUBSET (group \ defined), published \in SUBSET group :
       /\ published # {} => done = group
       /\ group \cap defined = {} => faults < MaxFaults
       /\ faults' = IF group \cap defined = {} THEN faults + 1 ELSE faults
       /\ defined' = defined \cup done
       /\ MarkReady(published) /\ UNCHANGED plans

Fault == faults < MaxFaults /\ faults' = faults + 1

--------------------------------------------------------------------------------
(* The background thread.                                                   *)

BgScan ==
    LET needed == {i \in 1..Len(Order) : NeedsCompile(Order[i])}
    IN /\ bg.pc = "scan"
       /\ IF needed = {} THEN bg' = [bg EXCEPT !.pc = "done"]
          ELSE bg' = [bg EXCEPT !.pc = "reserve", !.root = Order[CHOOSE i \in needed : \A j \in needed : i <= j]]
       /\ UNCHANGED <<table, gil, faults, pool, caller, stranded>>

\* The scan is stale by now: the root may be ready, or being compiled.
BgReserve ==
    /\ bg.pc = "reserve" /\ UNCHANGED <<failed, defined, gil, pool, caller, stranded>>
    /\ \/ /\ Ready(bg.root) /\ bg' = [bg EXCEPT !.pc = "scan"]
          /\ UNCHANGED <<entry, plans, open, faults>>
       \/ /\ Compiling(bg.root) /\ bg' = [bg EXCEPT !.pc = "join", !.plan = entry[bg.root].plan]
          /\ UNCHANGED <<entry, plans, open, faults>>
       \/ /\ NeedsCompile(bg.root) /\ Reserve(Module)
          /\ bg' = [bg EXCEPT !.pc = "plan", !.plan = Len(plans) + 1] /\ UNCHANGED faults
       \/ /\ NeedsCompile(bg.root) /\ ReserveBreak(bg.root, Module)
          /\ bg' = [bg EXCEPT !.pc = "done"]

\* The first error ends the module's background compilation.
BgJoin ==
    /\ bg.pc = "join" /\ <<bg.plan, bg.root>> \notin open
    /\ bg' = [bg EXCEPT !.pc = IF <<bg.plan, bg.root>> \in failed THEN "done" ELSE "scan"]
    /\ UNCHANGED <<table, gil, faults, pool, caller, stranded>>

\* Module plans, and the constant objects built under the GIL.
BgPlan ==
    /\ bg.pc = "plan" /\ gil = NoOne
    /\ \/ bg' = [bg EXCEPT !.pc = "attach"] /\ UNCHANGED faults
       \/ bg' = [bg EXCEPT !.pc = "fail"] /\ Fault
    /\ UNCHANGED <<table, gil, pool, caller, stranded>>

\* The queue becomes visible to callers before the workers start.
BgAttach ==
    LET define == plans[bg.plan].define IN
    /\ bg.pc = "attach"
    /\ plans' = [plans EXCEPT ![bg.plan].attached = TRUE,
                              ![bg.plan].queue = Keep(Order, define)]
    /\ bg' = [bg EXCEPT !.pc = "collect", !.pending = {}, !.remaining = define, !.error = FALSE]
    /\ stop' = FALSE /\ chan' = <<>> /\ worker' = [w \in Workers |-> [worker[w] EXCEPT !.pc = "loop"]]
    /\ UNCHANGED <<entry, open, failed, defined, gil, faults, caller, stranded>>

\* Mutant: a function is committed as soon as it is compiled.
CommitAtOnce(pending, remaining, define) == pending

\* Pending functions none of whose dependencies still has to be compiled.
CommitReady(pending, remaining, define) ==
    UNION {T \in SUBSET pending : \A f \in T : (Calls[f] \cap define \cap remaining) \subseteq T}

BgReceive ==
    LET f == Head(chan).f
        remaining == {g \in bg.remaining : ~Ready(g)}
        pending == bg.pending \cup {f}
        group == CommitReady(pending, remaining, plans[bg.plan].define)
    IN /\ bg.pc = "collect" /\ chan # <<>> /\ chan' = Tail(chan)
       /\ \/ /\ ~Head(chan).ok /\ stop' = TRUE /\ bg' = [bg EXCEPT !.error = TRUE]
          \/ /\ Head(chan).ok /\ bg.error /\ UNCHANGED <<bg, stop>>
          \/ /\ Head(chan).ok /\ ~bg.error
             /\ bg' = [bg EXCEPT !.pending = pending \ group, !.remaining = remaining, !.group = group,
                                 !.pc = IF group = {} THEN "collect" ELSE "commit"]
             /\ UNCHANGED stop
       /\ UNCHANGED <<table, gil, faults, worker, caller, stranded>>

BgCommit ==
    /\ bg.pc = "commit"
    /\ \/ /\ Commit(bg.group)
          /\ bg' = [bg EXCEPT !.pc = "collect", !.remaining = @ \ bg.group, !.group = {}] /\ UNCHANGED stop
       \/ /\ CommitError(bg.group)
          /\ bg' = [bg EXCEPT !.pc = "collect", !.error = TRUE, !.group = {}] /\ stop' = TRUE
    /\ UNCHANGED <<gil, worker, chan, caller, stranded>>

\* Mutant: functions left without a commit are not noticed.
BgDrainQuietly ==
    LET remaining == {g \in bg.remaining : ~Ready(g)}
        group == CommitReady(bg.pending, remaining, plans[bg.plan].define)
    IN /\ bg.pc = "collect" /\ chan = <<>> /\ \A w \in Workers : worker[w].pc = "exit"
       /\ \/ bg.error /\ bg' = [bg EXCEPT !.pc = "fail"]
          \/ ~bg.error /\ group = {} /\ bg' = [bg EXCEPT !.pc = "scan"]
          \/ ~bg.error /\ group # {} /\ bg' = [bg EXCEPT !.pc = "last", !.pending = @ \ group, !.group = group]
       /\ UNCHANGED <<table, gil, faults, pool, caller, stranded>>

\* Mutant: the collector waits for somebody else to release what is left over.
BgDrainPatiently ==
    LET remaining == {g \in bg.remaining : ~Ready(g)}
        group == CommitReady(bg.pending, remaining, plans[bg.plan].define)
    IN /\ bg.pc = "collect" /\ chan = <<>> /\ \A w \in Workers : worker[w].pc = "exit"
       /\ \/ bg.error /\ bg' = [bg EXCEPT !.pc = "fail"]
          \/ ~bg.error /\ bg.pending = {} /\ bg' = [bg EXCEPT !.pc = "scan"]
          \/ ~bg.error /\ group # {} /\ bg' = [bg EXCEPT !.pc = "last", !.pending = @ \ group, !.group = group]
          \/ ~bg.error /\ bg.pending # {} /\ group = {} /\ UNCHANGED bg
       /\ UNCHANGED <<table, gil, faults, pool, caller, stranded>>

\* The channel is closed: one last group, and nothing may be left over.
BgDrain ==
    LET remaining == {g \in bg.remaining : ~Ready(g)}
        group == CommitReady(bg.pending, remaining, plans[bg.plan].define)
    IN /\ bg.pc = "collect" /\ chan = <<>> /\ \A w \in Workers : worker[w].pc = "exit"
       /\ \/ bg.error /\ bg' = [bg EXCEPT !.pc = "fail"] /\ UNCHANGED stranded
          \/ ~bg.error /\ bg.pending = {} /\ bg' = [bg EXCEPT !.pc = "scan"] /\ UNCHANGED stranded
          \/ /\ ~bg.error /\ group # {} /\ UNCHANGED stranded
             /\ bg' = [bg EXCEPT !.pc = "last", !.pending = @ \ group, !.group = group]
          \/ /\ ~bg.error /\ bg.pending # {} /\ group = {}
             /\ bg' = [bg EXCEPT !.pc = "fail"] /\ stranded' = TRUE
       /\ UNCHANGED <<table, gil, faults, pool, caller>>

BgLastCommit ==
    /\ bg.pc = "last" /\ UNCHANGED <<gil, pool, caller>>
    /\ \/ /\ Commit(bg.group) /\ stranded' = (stranded \/ bg.pending # {})
          /\ bg' = [bg EXCEPT !.pc = IF bg.pending = {} THEN "scan" ELSE "fail", !.group = {}]
       \/ /\ CommitError(bg.group) /\ bg' = [bg EXCEPT !.pc = "fail", !.group = {}] /\ UNCHANGED stranded

BgFail ==
    /\ bg.pc = "fail" /\ FailBatch(bg.plan) /\ bg' = [bg EXCEPT !.pc = "done"]
    /\ UNCHANGED <<plans, defined, gil, faults, pool, caller, stranded>>

BgNext == BgScan \/ BgReserve \/ BgJoin \/ BgPlan \/ BgAttach \/ BgReceive \/ BgCommit \/ BgDrain \/ BgLastCommit \/ BgFail

--------------------------------------------------------------------------------
(* Its workers.                                                             *)

WorkerCheck(w) ==
    /\ worker[w].pc = "loop"
    /\ worker' = [worker EXCEPT ![w].pc = IF stop THEN "exit" ELSE "pop"]
    /\ UNCHANGED <<table, gil, faults, bg, stop, chan, caller, stranded>>

WorkerPop(w) ==
    LET q == plans[bg.plan].queue IN
    /\ worker[w].pc = "pop"
    /\ \/ /\ q = <<>> /\ worker' = [worker EXCEPT ![w].pc = "exit"] /\ UNCHANGED plans
       \/ /\ q # <<>> /\ worker' = [worker EXCEPT ![w] = [pc |-> "compile", f |-> Head(q)]]
          /\ plans' = [plans EXCEPT ![bg.plan].queue = Tail(q)]
    /\ UNCHANGED <<entry, open, failed, defined, gil, faults, bg, stop, chan, caller, stranded>>

WorkerCompile(w) ==
    /\ worker[w].pc = "compile"
    /\ \/ /\ chan' = Append(chan, [f |-> worker[w].f, ok |-> TRUE])
          /\ worker' = [worker EXCEPT ![w].pc = "loop"] /\ UNCHANGED <<stop, faults>>
       \/ /\ Fault /\ chan' = Append(chan, [f |-> worker[w].f, ok |-> FALSE])
          /\ worker' = [worker EXCEPT ![w].pc = "exit"] /\ stop' = TRUE
    /\ UNCHANGED <<table, gil, bg, caller, stranded>>

WorkerNext(w) == WorkerCheck(w) \/ WorkerPop(w) \/ WorkerCompile(w)

--------------------------------------------------------------------------------
(* A Python thread that needs its function compiled.  It holds the GIL      *)
(* except while it waits.                                                   *)

At(c, pc) == caller[c].pc = pc
Goto(c, pc) == caller' = [caller EXCEPT ![c].pc = pc]
Return(c, ok) == caller' = [caller EXCEPT ![c].pc = "done", ![c].ok = ok, ![c].claimed = {}, ![c].deps = {}] /\ gil' = NoOne

Enter(c) ==
    /\ At(c, "idle") /\ gil = NoOne /\ gil' = c /\ Goto(c, "try")
    /\ UNCHANGED <<table, faults, bg, pool, stranded>>

\* compile_direct_function_once up to the end of its reservation.
Try(c) ==
    LET f == Target[c]
        batch == Closure(f, Functions)
    IN /\ At(c, "try") /\ UNCHANGED <<failed, defined, bg, pool, stranded>>
       /\ \/ /\ Ready(f) /\ Return(c, TRUE) /\ UNCHANGED <<entry, plans, open, faults>>
          \/ /\ Compiling(f) /\ caller' = [caller EXCEPT ![c].pc = "assist", ![c].plan = entry[f].plan]
             /\ UNCHANGED <<entry, plans, open, faults, gil>>
          \/ /\ NeedsCompile(f) /\ Reserve(batch) /\ UNCHANGED <<faults, gil>>
             /\ caller' = [caller EXCEPT ![c].pc = "compile", ![c].work = Len(plans) + 1]
          \/ /\ NeedsCompile(f) /\ ReserveBreak(f, batch) /\ Return(c, FALSE)

\* Planning, the constant bindings and code generation of the whole batch.
Compile(c) ==
    /\ At(c, "compile")
    /\ \/ Goto(c, "commit") /\ UNCHANGED faults
       \/ Goto(c, "fail") /\ Fault
    /\ UNCHANGED <<table, gil, bg, pool, stranded>>

CommitBatch(c) ==
    /\ At(c, "commit") /\ UNCHANGED <<bg, pool, stranded>>
    /\ \/ Commit(plans[caller[c].work].define) /\ Return(c, TRUE)
       \/ CommitError(plans[caller[c].work].define) /\ Goto(c, "fail") /\ UNCHANGED gil

\* The caller's own batch, or the background batch it was assisting.
Fail(c) ==
    /\ At(c, "fail") /\ FailBatch(caller[c].work) /\ Return(c, FALSE)
    /\ UNCHANGED <<plans, defined, faults, bg, pool, stranded>>

\* assist_queued_direct_function_compile: is there a queue to take from?
Assist(c) ==
    LET e == entry[Target[c]] IN
    /\ At(c, "assist")
    /\ caller' = IF Compiling(Target[c]) /\ plans[e.plan].attached
                 THEN [caller EXCEPT ![c].pc = "take", ![c].work = e.plan]
                 ELSE [caller EXCEPT ![c].pc = "promote"]
    /\ UNCHANGED <<table, gil, faults, bg, pool, stranded>>

\* Mutant: what the caller takes stays in the queue.
AssistPeek(c) ==
    LET p == caller[c].work
        wanted == Closure(Target[c], plans[p].define)
        claimed == wanted \cap Queued(p)
    IN /\ At(c, "take")
       /\ caller' = IF Target[c] \in claimed
                    THEN [caller EXCEPT ![c].pc = "deps", ![c].claimed = claimed]
                    ELSE [caller EXCEPT ![c].pc = "promote"]
       /\ UNCHANGED <<table, gil, faults, bg, pool, stranded>>

\* Dependencies taken without the target are dropped.
AssistTake(c) ==
    LET p == caller[c].work
        wanted == Closure(Target[c], plans[p].define)
        claimed == wanted \cap Queued(p)
    IN /\ At(c, "take")
       /\ plans' = [plans EXCEPT ![p].queue = Keep(@, Functions \ claimed)]
       /\ caller' = IF Target[c] \in claimed
                    THEN [caller EXCEPT ![c].pc = "deps", ![c].claimed = claimed]
                    ELSE [caller EXCEPT ![c].pc = "promote"]
       /\ UNCHANGED <<entry, open, failed, defined, gil, faults, bg, pool, stranded>>

\* The waiters of the dependencies somebody else is compiling.
AssistDeps(c) ==
    LET wanted == Closure(Target[c], plans[caller[c].work].define) \ caller[c].claimed
        deps == {<<entry[f].plan, f>> : f \in {g \in wanted : Compiling(g)}}
    IN /\ At(c, "deps")
       /\ caller' = [caller EXCEPT ![c].deps = deps, ![c].pc = IF deps = {} THEN "generate" ELSE "depwait"]
       /\ gil' = IF deps = {} THEN c ELSE NoOne
       /\ UNCHANGED <<table, faults, bg, pool, stranded>>

\* A wait without a timeout; an error goes straight to the caller.
DepWait(c) ==
    /\ At(c, "depwait") /\ gil = NoOne
    /\ \E w \in caller[c].deps \ open :
          \/ w \in failed /\ Return(c, FALSE)
          \/ /\ w \notin failed
             /\ caller' = [caller EXCEPT ![c].deps = @ \ {w}, ![c].pc = IF caller[c].deps = {w} THEN "generate" ELSE @]
             /\ gil' = IF caller[c].deps = {w} THEN c ELSE NoOne
    /\ UNCHANGED <<table, faults, bg, pool, stranded>>

Generate(c) ==
    /\ At(c, "generate")
    /\ \/ Goto(c, "publish") /\ UNCHANGED faults
       \/ Goto(c, "fail") /\ Fault
    /\ UNCHANGED <<table, gil, bg, pool, stranded>>

Publish(c) ==
    /\ At(c, "publish") /\ UNCHANGED <<bg, pool, stranded>>
    /\ \/ /\ Commit(caller[c].claimed)
          /\ caller' = [caller EXCEPT ![c].pc = "wait", ![c].claimed = {}] /\ gil' = NoOne
       \/ CommitError(caller[c].claimed) /\ Goto(c, "fail") /\ UNCHANGED gil

\* The target goes to the front of the queue it is in now, if any.
Promote(c) ==
    LET f == Target[c]
        p == entry[f].plan
        queued == Compiling(f) /\ f \in Queued(p)
    IN /\ At(c, "promote") /\ Goto(c, "wait") /\ gil' = NoOne
       /\ plans' = IF queued THEN [plans EXCEPT ![p].queue = <<f>> \o Keep(@, Functions \ {f})] ELSE plans
       /\ UNCHANGED <<entry, open, failed, defined, faults, bg, pool, stranded>>

Waiter(c) == <<caller[c].plan, Target[c]>>

\* Ten milliseconds passed without a result.
WaitTimeout(c) ==
    /\ At(c, "wait") /\ gil = NoOne /\ gil' = c /\ Waiter(c) \in open /\ Goto(c, "assist")
    /\ UNCHANGED <<table, faults, bg, pool, stranded>>

\* Mutant: the first failed background compile is final.
WaitOnce(c) ==
    /\ At(c, "wait") /\ gil = NoOne /\ Waiter(c) \notin open /\ Return(c, Ready(Target[c]))
    /\ UNCHANGED <<table, faults, bg, pool, stranded>>

\* The result is used only if the function is not ready by now.
WaitResult(c) ==
    /\ At(c, "wait") /\ gil = NoOne /\ Waiter(c) \notin open
    /\ \/ Ready(Target[c]) /\ Return(c, TRUE)
       \/ /\ ~Ready(Target[c]) /\ Waiter(c) \in failed /\ caller[c].errors = MaxWaitErrors /\ Return(c, FALSE)
       \/ /\ ~Ready(Target[c]) /\ (Waiter(c) \in failed => caller[c].errors < MaxWaitErrors) /\ gil' = c
          /\ caller' = [caller EXCEPT ![c].errors = IF Waiter(c) \in failed THEN @ + 1 ELSE @, ![c].pc = "try"]
    /\ UNCHANGED <<table, faults, bg, pool, stranded>>

CallerNext(c) ==
    \/ Enter(c) \/ Try(c) \/ Compile(c) \/ CommitBatch(c) \/ Fail(c) \/ Assist(c) \/ AssistTake(c) \/ AssistDeps(c)
    \/ DepWait(c) \/ Generate(c) \/ Publish(c) \/ Promote(c) \/ WaitTimeout(c) \/ WaitResult(c)

--------------------------------------------------------------------------------
Finished == /\ \A c \in Callers : At(c, "done")
            /\ bg.pc = "done" \/ (bg.pc = "join" /\ plans[bg.plan].broken)
            /\ UNCHANGED vars

Next == BgNext \/ (\E w \in Workers : WorkerNext(w)) \/ (\E c \in Callers : CallerNext(c)) \/ Finished

Spec == Init /\ [][Next]_vars

\* Every thread is scheduled, and the GIL is not withheld from one for ever: strong
\* fairness, because other threads take and release the GIL while it waits.
Fairness == /\ SF_vars(BgNext)
            /\ \A w \in Workers : WF_vars(WorkerNext(w))
            /\ \A c \in Callers : SF_vars(CallerNext(c))

FairSpec == Spec /\ Fairness

--------------------------------------------------------------------------------
(* Properties.                                                              *)

PlanIds == 1..Len(plans)

PlanSet == [define : SUBSET Functions, elsewhere : SUBSET Functions,
            broken : BOOLEAN, attached : BOOLEAN, queue : Seq(Functions)]
BgSet == [pc : {"scan", "reserve", "join", "plan", "attach", "collect", "commit", "last", "fail", "done"},
          plan : {0} \cup PlanIds, root : Functions, pending : SUBSET Functions,
          remaining : SUBSET Functions, group : SUBSET Functions, error : BOOLEAN]
CallerSet == [pc : {"idle", "try", "compile", "commit", "fail", "assist", "take", "deps", "depwait",
                    "generate", "publish", "promote", "wait", "done"},
              plan : {0} \cup PlanIds, work : {0} \cup PlanIds, claimed : SUBSET Functions,
              deps : SUBSET (PlanIds \X Functions), errors : 0..MaxWaitErrors, ok : BOOLEAN]

\* Types of the table, the plans and the threads.
TypeOK ==
    /\ entry \in [Functions -> [st : {"declared", "compiling", "ready"}, plan : {0} \cup PlanIds]]
    /\ plans \in Seq(PlanSet)
    /\ open \cup failed \subseteq PlanIds \X Functions /\ defined \subseteq Functions
    /\ gil \in Callers \cup {NoOne} /\ faults \in 0..MaxFaults /\ stop \in BOOLEAN /\ stranded \in BOOLEAN
    /\ worker \in [Workers -> [pc : {"loop", "pop", "compile", "exit"}, f : Functions]]
    /\ chan \in Seq([f : Functions, ok : BOOLEAN])
    /\ bg \in BgSet /\ caller \in [Callers -> CallerSet]

\* A waiter without a result is the waiter of the entry it was made for: no
\* transition of an entry (commit by another plan, failure of another plan)
\* leaves a thread blocked on a waiter the table has forgotten.
WaitersReachable == open = {<<entry[f].plan, f>> : f \in {g \in Functions : Compiling(g)}}

Works(c, p, f) == \/ At(c, "fail") /\ caller[c].work = p
                  \/ caller[c].pc \in {"compile", "commit"} /\ caller[c].work = p
                  \/ caller[c].pc \in {"deps", "depwait", "generate", "publish"} /\ caller[c].work = p /\ f \in caller[c].claimed

\* A function that is being compiled is being compiled by somebody: the
\* background batch that reserved it is running, or a caller compiles it or
\* has taken it from the queue.  Excused are a reservation that broke off, and
\* a function an earlier plan of which failed: an assist of that plan may have
\* gone on and published a caller of it, past which the batch that retries it
\* does not look for dropped dependencies.
CompilingIsOwned ==
    \A f \in Functions : Compiling(f) =>
        LET p == entry[f].plan IN
        \/ plans[p].broken \/ \E q \in PlanIds : <<q, f>> \in failed
        \/ bg.plan = p /\ bg.pc \in {"plan", "attach", "collect", "commit", "last", "fail"}
        \/ \E c \in Callers : Works(c, p, f)

\* When a function is published, every function it calls directly has a body.
\* The two exceptions the code leaves open: the callee was being compiled under
\* another plan when the batch was reserved, or the batch has failed under an
\* assist that had already taken the function.
CalleesDefined ==
    \A f \in Functions : Ready(f) =>
        \A g \in Calls[f] \ defined :
            \E p \in PlanIds : f \in plans[p].define /\ (g \in plans[p].elsewhere \/ <<p, g>> \in failed)

\* Without an error of a compile step, and unless a batch ended with functions
\* it could not commit, no caller fails and no function is left with a body
\* that was never published, which no later attempt could define again.
ErrorsExplained ==
    (faults = 0 /\ ~stranded) => /\ \A c \in Callers : At(c, "done") => caller[c].ok
                                 /\ \A f \in defined : Ready(f)

Recursive(f) == \E g \in Calls[f] : f \in Closure(g, Functions)
Reaches(c) == Closure(Target[c], Functions)

\* A caller that shares no function with another caller fails only if a compile step
\* did, even when its own assist or that of another caller makes the background batch
\* fail; a caller of a recursive function also if the batch ended with functions it
\* could not commit.
LoneCallerServed ==
    \A c \in Callers : At(c, "done") /\ ~caller[c].ok =>
        \/ faults > 0
        \/ stranded /\ Recursive(Target[c])
        \/ \E e \in Callers \ {c} : Reaches(e) \cap Reaches(c) # {}

\* A published function is never withdrawn, whatever batch fails later.
ReadyStays == [][\A f \in Functions : Ready(f) => Ready(f)']_vars

\* Every call that needs a compilation returns, and the background thread ends.
EveryoneReturns == /\ \A c \in Callers : caller[c].pc # "idle" ~> At(c, "done")
                   /\ <>(bg.pc = "done")
================================================================================
