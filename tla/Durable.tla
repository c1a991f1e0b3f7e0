------------------------------- MODULE Durable -------------------------------
(***************************************************************************)
(* Durable execution in fluxio: calls of Pipeline.invoke / stream / replay *)
(* interpret compiled code (runtime/interpreter.py) under a run lock       *)
(* (api/pipeline.py) and checkpoint into a store (store/*.py), while       *)
(* stages fail, callers cancel, processes crash and come back with other   *)
(* code, and a remote store loses answers and expires keys.                *)
(*                                                                         *)
(* A context is abstracted to what its values were computed from: the      *)
(* trail of the stages that produced them, in order, and their source (the *)
(* initial values of the call and the code version that started it).       *)
(* Every step is what the event loop runs between two awaits; instructions *)
(* count from 1.                                                           *)
(***************************************************************************)
EXTENDS Naturals, Sequences

CONSTANTS
    Pipes,          \* Pipeline objects, each in a process of its own
    Calls,          \* callers: each has at most one call in progress
    PipeOf,         \* the Pipeline a caller uses
    IsDurable,      \* whether a Pipeline was built with durable=True
    Runs,           \* run ids
    Inputs,         \* initial contexts
    Versions,       \* versions of the code
    Code,           \* their instructions, as module Compiler emits them
    Nodes,          \* node ids
    Outcomes,       \* what a stage may return: routes of a Send, or NoRoute
    Routes,         \* route names
    FromSteps,      \* the from_step values callers of replay use
    Remote,         \* TRUE: RedisStore.  FALSE: InMemoryStore
    MaxTrail,       \* bound: replay(from_step) only continues shorter trails
    NoRoute, NoStep, Nothing

VARIABLES
    version,        \* pipe -> version of its compiled code
    active,         \* pipe -> _active_runs
    store,          \* run -> its checkpoint, or Nothing
    pc,             \* call -> where it is
    job,            \* call -> [run, durable, step], or Nothing
    conf,           \* call -> [ip, trail, pending], or Nothing
    source,         \* call -> [input, version] its context comes from
    running,        \* call -> branches of the FORK still running
    orphans         \* branches that outlived the call that forked them

vars == <<version, active, store, pc, job, conf, source, running, orphans>>
control == <<version, active, job, running, orphans>>

ASSUME CallsUsePipes == PipeOf \in [Calls -> Pipes]
ASSUME DurableFlags == IsDurable \in [Pipes -> BOOLEAN]
ASSUME MemoryIsLocal == ~Remote => \A p, q \in Pipes : p = q

Phases == {"idle", "reset", "load", "replay", "rewrite", "run", "fork"}

Locked(c) == pc[c] # "idle" /\ job[c].durable

-----------------------------------------------------------------------------
(* The interpreter as a transition relation on configurations: ip, trail   *)
(* of the context, pending_route.  A failure is an absence of successors.  *)

Entry == [ip |-> 1, trail |-> <<>>, pending |-> NoRoute]

InstrAt(v, k) == Code[v][k.ip]
OpAt(v, k) == IF k.ip > Len(Code[v]) THEN "end" ELSE InstrAt(v, k).op

Skip(k) == [k EXCEPT !.ip = @ + 1]

\* A Send leaves its route pending; an older one survives a plain context.
AfterCall(i, k) ==
    {[ip |-> k.ip + 1, trail |-> Append(k.trail, {i.node}),
      pending |-> IF route = NoRoute THEN k.pending ELSE route] :
        route \in Outcomes[i.node]}

AfterRoute(i, k) ==
    {[ip |-> i.targets[route], trail |-> k.trail, pending |-> NoRoute] :
        route \in {k.pending} \cap DOMAIN i.targets}

\* Mutant: a fork without a JOIN does not move on.
AfterFork_Stays(v, i, k) ==
    IF i.mode = "parallel"
    THEN {[ip |-> k.ip + 2, pending |-> k.pending,
           trail |-> Append(k.trail, {i.branches[b] : b \in DOMAIN i.branches})]}
    ELSE {k}

\* Only a PARALLEL fork joins; a fire-and-forget one leaves the context alone.
AfterFork(v, i, k) ==
    LET joins == /\ i.mode = "parallel"
                 /\ OpAt(v, Skip(k)) = "join"
    IN  IF joins
        THEN {[ip |-> k.ip + 2, pending |-> k.pending,
               trail |-> Append(k.trail, {i.branches[b] :
                                             b \in DOMAIN i.branches})]}
        ELSE {Skip(k)}

After(v, k) ==
    LET op == OpAt(v, k)
        i == InstrAt(v, k)
    IN  IF op = "end" THEN {}
        ELSE IF op = "call" THEN AfterCall(i, k)
        ELSE IF op = "route" THEN AfterRoute(i, k)
        ELSE IF op = "jump" THEN {[k EXCEPT !.ip = i.target]}
        ELSE IF op = "fork" THEN AfterFork(v, i, k)
        ELSE {Skip(k)}

VersionOf(c) == version[PipeOf[c]]
Op(c) == OpAt(VersionOf(c), conf[c])
Instr(c) == InstrAt(VersionOf(c), conf[c])

-----------------------------------------------------------------------------
(* The run lock: taken without an await between the test and the add, and  *)
(* given back however the call ends.                                       *)

\* Mutant: the lock is not tested.
Acquire_NoTest(p, r, durable) ==
    active' = IF durable THEN [active EXCEPT ![p] = @ \cup {r}] ELSE active

Acquire(p, r, durable) ==
    IF durable
    THEN /\ r \notin active[p]
         /\ active' = [active EXCEPT ![p] = @ \cup {r}]
    ELSE UNCHANGED active

Released(c) ==
    IF job[c].durable
    THEN [active EXCEPT ![PipeOf[c]] = @ \ {job[c].run}]
    ELSE active

End(c) ==
    /\ active' = Released(c)
    /\ pc' = [pc EXCEPT ![c] = "idle"]
    /\ job' = [job EXCEPT ![c] = Nothing]
    /\ conf' = [conf EXCEPT ![c] = Nothing]
    /\ source' = [source EXCEPT ![c] = Nothing]
    /\ running' = [running EXCEPT ![c] = {}]
    /\ UNCHANGED version

\* Mutant: a call that fails keeps its lock.
Fail_KeepsLock(c) ==
    /\ pc' = [pc EXCEPT ![c] = "idle"]
    /\ job' = [job EXCEPT ![c] = Nothing]
    /\ conf' = [conf EXCEPT ![c] = Nothing]
    /\ source' = [source EXCEPT ![c] = Nothing]
    /\ running' = [running EXCEPT ![c] = {}]
    /\ UNCHANGED <<version, active>>

\* An exception leaves run(): the checkpoint stays, the lock goes.
Fail(c) == End(c)

-----------------------------------------------------------------------------
(* Calls.                                                                  *)

Begin(c, r, durable, step, phase) ==
    /\ pc[c] = "idle"
    /\ Acquire(PipeOf[c], r, durable)
    /\ pc' = [pc EXCEPT ![c] = phase]
    /\ job' = [job EXCEPT ![c] = [run |-> r, durable |-> durable, step |-> step]]
    /\ UNCHANGED <<version, store, running, orphans>>

\* invoke or stream, fresh.
Invoke(c, r, input) ==
    LET durable == IsDurable[PipeOf[c]]
    IN  /\ Begin(c, r, durable, NoStep, IF durable THEN "reset" ELSE "run")
        /\ conf' = [conf EXCEPT ![c] = Entry]
        /\ source' = [source EXCEPT ![c] = [input |-> input,
                                            version |-> VersionOf(c)]]

\* invoke(resume=True): locked only on a durable pipeline.
Resume(c, r) ==
    /\ Begin(c, r, IsDurable[PipeOf[c]], NoStep, "load")
    /\ UNCHANGED <<conf, source>>

\* Mutant: replay is as durable as the pipeline.
Replay_AsBuilt(c, r, step) ==
    /\ (step # NoStep /\ store[r] # Nothing) => Len(store[r].trail) <= MaxTrail
    /\ Begin(c, r, IsDurable[PipeOf[c]], step, "replay")
    /\ UNCHANGED <<conf, source>>

\* replay: always locked and always durable.
Replay(c, r, step) ==
    /\ (step # NoStep /\ store[r] # Nothing) => Len(store[r].trail) <= MaxTrail
    /\ Begin(c, r, TRUE, step, "replay")
    /\ UNCHANGED <<conf, source>>

-----------------------------------------------------------------------------
(* Store operations.  Effect(c) is what the operation a call is about to   *)
(* make leaves in the store.                                               *)

\* Mutant: the checkpoint keeps the ip of the stage but an older context.
Record_StaleContext(c) ==
    [version |-> VersionOf(c), ip |-> conf[c].ip,
     trail |-> <<>>, source |-> source[c]]

\* The Checkpoint that CHECKPOINT and the rewrite of replay save.
Record(c) ==
    [version |-> VersionOf(c), ip |-> conf[c].ip,
     trail |-> conf[c].trail, source |-> source[c]]

AtStore(c) ==
    \/ pc[c] \in {"reset", "load", "replay", "rewrite"}
    \/ /\ pc[c] = "run"
       /\ job[c].durable
       /\ Op(c) \in {"checkpoint", "end"}

\* Mutant: a fresh run leaves the old checkpoint in place.
Effect_NoReset(c) ==
    LET r == job[c].run
    IN  IF pc[c] = "run" /\ Op(c) = "end" THEN [store EXCEPT ![r] = Nothing]
        ELSE IF pc[c] \in {"rewrite", "run"}
             THEN [store EXCEPT ![r] = Record(c)]
        ELSE store

\* Mutant: the checkpoint outlives a completed run.
Effect_KeepsAtEnd(c) ==
    LET r == job[c].run
    IN  IF pc[c] = "reset" THEN [store EXCEPT ![r] = Nothing]
        ELSE IF pc[c] = "rewrite" \/ (pc[c] = "run" /\ Op(c) # "end")
             THEN [store EXCEPT ![r] = Record(c)]
        ELSE store

Effect(c) ==
    LET r == job[c].run
    IN  IF pc[c] = "reset" \/ (pc[c] = "run" /\ Op(c) = "end")
        THEN [store EXCEPT ![r] = Nothing]
        ELSE IF pc[c] \in {"rewrite", "run"}
             THEN [store EXCEPT ![r] = Record(c)]
        ELSE store

\* A fresh durable run first drops what the run id had.
Reset(c) ==
    /\ pc[c] = "reset"
    /\ store' = Effect(c)
    /\ pc' = [pc EXCEPT ![c] = "run"]
    /\ UNCHANGED <<control, conf, source>>

\* Mutant: the version of the checkpoint is not compared.
Restorable_AnyVersion(c, checkpoint) == checkpoint # Nothing

Restorable(c, checkpoint) ==
    checkpoint # Nothing /\ checkpoint.version = VersionOf(c)

\* Resume: the saved ip and context; the pending route is not saved.
Load(c) ==
    LET checkpoint == store[job[c].run]
    IN  /\ pc[c] = "load"
        /\ Restorable(c, checkpoint)
        /\ pc' = [pc EXCEPT ![c] = "run"]
        /\ conf' = [conf EXCEPT ![c] = [ip |-> checkpoint.ip,
                                        trail |-> checkpoint.trail,
                                        pending |-> NoRoute]]
        /\ source' = [source EXCEPT ![c] = checkpoint.source]
        /\ UNCHANGED <<control, store>>

\* NoCheckpointError or CheckpointVersionError.
LoadFails(c) ==
    /\ pc[c] = "load"
    /\ ~Restorable(c, store[job[c].run])
    /\ Fail(c)
    /\ UNCHANGED <<store, orphans>>

\* Mutant: a replay starts at the CALL of the step.
StepStarts_Call(v, step) ==
    {ip \in DOMAIN Code[v] : Code[v][ip].op = "call" /\ Code[v][ip].node = step}

\* _find_step_ip: every EMIT step_start of the step; the code takes the first.
StepStarts(v, step) ==
    {ip \in DOMAIN Code[v] : /\ Code[v][ip].op = "emit"
                             /\ Code[v][ip].event = "step_start"
                             /\ Code[v][ip].node = step}

IsFirst(ip, ips) == ip \in ips /\ \A other \in ips : ip <= other

\* replay reads the checkpoint, and keeps its context if it is to rewrite it.
ReplayLoad(c) ==
    LET checkpoint == store[job[c].run]
    IN  /\ pc[c] = "replay"
        /\ checkpoint # Nothing
        /\ \/ /\ job[c].step = NoStep
              /\ pc' = [pc EXCEPT ![c] = "load"]
              /\ UNCHANGED <<conf, source>>
           \/ \E ip \in StepStarts(VersionOf(c), job[c].step) :
                /\ job[c].step # NoStep
                /\ IsFirst(ip, StepStarts(VersionOf(c), job[c].step))
                /\ pc' = [pc EXCEPT ![c] = "rewrite"]
                /\ conf' = [conf EXCEPT ![c] = [ip |-> ip,
                                                trail |-> checkpoint.trail,
                                                pending |-> NoRoute]]
                /\ source' = [source EXCEPT ![c] = checkpoint.source]
        /\ UNCHANGED <<control, store>>

\* NoCheckpointError, or KeyError for a step this version does not have.
ReplayFails(c) ==
    /\ pc[c] = "replay"
    /\ \/ store[job[c].run] = Nothing
       \/ job[c].step # NoStep /\ StepStarts(VersionOf(c), job[c].step) = {}
    /\ Fail(c)
    /\ UNCHANGED <<store, orphans>>

\* The old context, under the version this Pipeline has now.
Rewrite(c) ==
    /\ pc[c] = "rewrite"
    /\ store' = Effect(c)
    /\ pc' = [pc EXCEPT ![c] = "load"]
    /\ UNCHANGED <<control, conf, source>>

-----------------------------------------------------------------------------
(* Instructions.                                                           *)

\* CHECKPOINT on a durable call.
Save(c) ==
    /\ pc[c] = "run" /\ Op(c) = "checkpoint" /\ job[c].durable
    /\ store' = Effect(c)
    /\ conf' = [conf EXCEPT ![c] = Skip(@)]
    /\ UNCHANGED <<control, pc, source>>

\* Instructions that touch nothing but the configuration.
Advance(c) ==
    /\ pc[c] = "run"
    /\ Op(c) \in {"emit", "validate_input", "validate_output", "join", "route",
                  "jump", "checkpoint"}
    /\ Op(c) = "checkpoint" => ~job[c].durable
    /\ \E k \in After(VersionOf(c), conf[c]) : conf' = [conf EXCEPT ![c] = k]
    /\ UNCHANGED <<control, store, pc, source>>

StageReturns(c) ==
    /\ pc[c] = "run" /\ Op(c) = "call"
    /\ \E k \in After(VersionOf(c), conf[c]) : conf' = [conf EXCEPT ![c] = k]
    /\ UNCHANGED <<control, store, pc, source>>

\* The stage raises or times out, or a schema rejects its context.
StageFails(c) ==
    /\ pc[c] = "run"
    /\ Op(c) \in {"call", "validate_input", "validate_output"}
    /\ Fail(c)
    /\ UNCHANGED <<store, orphans>>

\* ROUTE without a Send, or with a route the dict does not have.
RouteFails(c) ==
    /\ pc[c] = "run" /\ Op(c) = "route"
    /\ conf[c].pending \notin DOMAIN Instr(c).targets
    /\ Fail(c)
    /\ UNCHANGED <<store, orphans>>

BranchSet(c) == {Instr(c).branches[b] : b \in DOMAIN Instr(c).branches}

StartBranches(c) ==
    /\ pc[c] = "run" /\ Op(c) = "fork"
    /\ running' = [running EXCEPT ![c] = BranchSet(c)]
    /\ pc' = [pc EXCEPT ![c] = "fork"]
    /\ UNCHANGED <<version, active, job, orphans, store, conf, source>>

\* A fire-and-forget branch that fails is logged and forgotten.
BranchEnds(c, b) ==
    /\ pc[c] = "fork" /\ b \in running[c]
    /\ running' = [running EXCEPT ![c] = @ \ {b}]
    /\ UNCHANGED <<version, active, job, orphans, store, pc, conf, source>>

\* gather raises at once and cancels nothing: the siblings go on.
LeftBehind(c, b) ==
    {[pipe |-> PipeOf[c], run |-> job[c].run, node |-> n] :
        n \in running[c] \ {b}}

BranchFails(c, b) ==
    /\ pc[c] = "fork" /\ Instr(c).mode = "parallel" /\ b \in running[c]
    /\ Fail(c)
    /\ orphans' = orphans \cup LeftBehind(c, b)
    /\ UNCHANGED store

Merge(c) ==
    /\ pc[c] = "fork" /\ running[c] = {}
    /\ \E k \in After(VersionOf(c), conf[c]) : conf' = [conf EXCEPT ![c] = k]
    /\ pc' = [pc EXCEPT ![c] = "run"]
    /\ UNCHANGED <<control, store, source>>

\* MergeConflictError: branches wrote a common key they had not declared.
MergeFails(c) ==
    /\ pc[c] = "fork" /\ running[c] = {} /\ Instr(c).mode = "parallel"
    /\ Fail(c)
    /\ UNCHANGED <<store, orphans>>

\* The end of the code: a durable call deletes its checkpoint and returns.
Finish(c) ==
    /\ pc[c] = "run" /\ Op(c) = "end"
    /\ store' = IF job[c].durable THEN Effect(c) ELSE store
    /\ End(c)
    /\ UNCHANGED orphans

-----------------------------------------------------------------------------
(* The environment.                                                        *)

\* A remote operation may have happened when its answer does not come.
Lost(c) == IF Remote /\ AtStore(c) THEN {store, Effect(c)} ELSE {store}

StoreFails(c) ==
    /\ Remote /\ AtStore(c)
    /\ store' \in Lost(c)
    /\ Fail(c)
    /\ UNCHANGED orphans

\* The caller's task is cancelled; gather passes it on to the branches.
Cancel(c) ==
    /\ pc[c] # "idle"
    /\ store' \in Lost(c)
    /\ End(c)
    /\ UNCHANGED orphans

OrphanEnds ==
    /\ \E o \in orphans : orphans' = orphans \ {o}
    /\ UNCHANGED <<version, active, store, pc, job, conf, source, running>>

\* A process dies with its calls and comes back, perhaps with other code.
Crash(p, v) ==
    LET On(f, none) == [c \in Calls |-> IF PipeOf[c] = p THEN none ELSE f[c]]
    IN  /\ version' = [version EXCEPT ![p] = v]
        /\ active' = [active EXCEPT ![p] = {}]
        /\ pc' = On(pc, "idle")
        /\ job' = On(job, Nothing)
        /\ conf' = On(conf, Nothing)
        /\ source' = On(source, Nothing)
        /\ running' = On(running, {})
        /\ orphans' = {o \in orphans : o.pipe # p}
        /\ store' = IF Remote THEN store ELSE [r \in Runs |-> Nothing]

\* The TTL of a Redis key.
Expire(r) ==
    /\ Remote /\ store[r] # Nothing
    /\ store' = [store EXCEPT ![r] = Nothing]
    /\ UNCHANGED <<control, pc, conf, source>>

-----------------------------------------------------------------------------
Init ==
    /\ version \in [Pipes -> Versions]
    /\ active = [p \in Pipes |-> {}]
    /\ store = [r \in Runs |-> Nothing]
    /\ pc = [c \in Calls |-> "idle"]
    /\ job = [c \in Calls |-> Nothing]
    /\ conf = [c \in Calls |-> Nothing]
    /\ source = [c \in Calls |-> Nothing]
    /\ running = [c \in Calls |-> {}]
    /\ orphans = {}

\* What a caller does.
Request(c) ==
    \E r \in Runs :
        \/ \E input \in Inputs : Invoke(c, r, input)
        \/ Resume(c, r)
        \/ \E step \in FromSteps \cup {NoStep} : Replay(c, r, step)

\* What fluxio does for a call, and what its stages answer, when all is well.
Progress(c) ==
    \/ Reset(c) \/ Load(c) \/ LoadFails(c)
    \/ ReplayLoad(c) \/ ReplayFails(c) \/ Rewrite(c)
    \/ Save(c) \/ Advance(c) \/ StageReturns(c) \/ RouteFails(c)
    \/ StartBranches(c) \/ (\E b \in Nodes : BranchEnds(c, b)) \/ Merge(c)
    \/ Finish(c)

Fault(c) ==
    \/ StageFails(c) \/ (\E b \in Nodes : BranchFails(c, b)) \/ MergeFails(c)
    \/ StoreFails(c) \/ Cancel(c)

Outage ==
    \/ \E p \in Pipes, v \in Versions : Crash(p, v)
    \/ \E r \in Runs : Expire(r)

Next ==
    \/ \E c \in Calls : Request(c) \/ Progress(c) \/ Fault(c)
    \/ OrphanEnds
    \/ Outage

Spec == Init /\ [][Next]_vars
=============================================================================
