# fluxio in TLA+

fluxio (`src/src/fluxio/`) compiles a list of `@stage` functions into a flat
sequence of instructions and interprets it on asyncio, with checkpoints,
branches, routing, streaming and middleware. This directory holds its
specification: TLA+ modules, the TLC runs that check them on small instances,
and theorems whose proofs TLAPS checks for every value of the constants.
Paths below are relative to `src/src/fluxio/` unless they say otherwise.

## 1. The system

| component | state | operations | talks to |
|---|---|---|---|
| **Compiler** (`compiler/`, `api/parallel.py`) | instructions, symbol table, version (hash of the instructions) | `compile`: auto-parallelise, register, emit, back-patch | called once by `Pipeline.__init__` |
| **Pipeline** (`api/pipeline.py`) | `_active_runs` (the run lock), compiled code, store | `invoke`, `stream`, `replay`, `run_step`, `diff`, `explain` | Interpreter, store, client |
| **Interpreter** (`runtime/interpreter.py`) | per call: `ip`, context, `pending_route`, step timers | `run`, `_call`, `_handle_fork`, `_emit`, `_validate` | Scheduler, middleware chain, store, callbacks |
| **Scheduler, Executor** (`runtime/scheduler.py`, `executor.py`) | a thread pool; per STREAM stage a queue and a producer task | `run_parallel` (gather), `run`, `_run_stream` | stages, Interpreter |
| **Stores** (`store/`) | run id -> checkpoint | `save`, `load`, `delete` | Interpreter, `replay`, `diff` |
| **Context** (`context/context.py`) | immutable map, set of keys written since the fork | `set`, `update`, `fork`, `merge`, `snapshot` | stages, Interpreter |
| **Middleware** (`runtime/middleware.py`, `cache.py`) | breaker fields, request window, cache entries | chain, retry, rate limit, cache, circuit breaker | around every CALL and branch |
| **Observability** (`observability/`) | open Langfuse spans | callback hooks | dispatched by the Interpreter |

What is hard here: calls overlap on one event loop and share the run lock, the
store and the middleware; a call can fail, be cancelled or die between any two
awaits and be resumed by other code; branches outlive a failed gather; two
bounded queues and three kinds of tasks carry a stream, and each has to be
taken down from wherever it is suspended; the compiler rewrites what the user
wrote. The hazards are listed with their lines in `PROJECT.json`.

What makes each part correct:

* *Compiler*: the code means what the list says; addresses stay inside it; ids
  never alias two functions; conflicts are refused.
* *Durable execution*: a run is what an uninterrupted run would have been; the
  checkpoint is a past of the call that runs; single flight; locks are given
  back; a resumable run can be completed.
* *Streaming*: complete and in order, errors after chunks, bounded memory, no
  task left behind, always an end.
* *Circuit breaker*: one probe, coherent fields, never locked for good.
* *Middleware*: in any order and for overlapping calls, the limiter keeps its
  rate, the cache gives nothing that is too old or computed on other values, the
  retry keeps its budget, the breaker is driven as specified, every call ends.
* *Context*: a merge raises exactly when two branches wrote one key; the order
  of the branches does not matter.
* *Observability*: every span ends, every end has its start.

## 2. Modules

```
Compiler            compile(nodes) as a function
Context             contexts: update, fork, merge, snapshot
  CompilerProps     (extends both) one compilation as a step; the shape of code
    CompilerMeaning   meaning of node lists and of code
      CompilerProofs    theorems: addresses, conflicts, merges
        CompilerAutoProofs    theorem: folding adds no error
          CompilerMeaningProofs   theorems: code means what the list says
      Cached          overlapping runs of compiled code that share a cache
        MCCompiler    the lists TLC enumerates, and runs
Durable             calls, lock, store, interpreter as a state machine
  DurableContract   what durable execution promises, without instructions
  DurableProps      the properties, the set Legal of undisturbed configurations,
                    Durable implements DurableContract
    DurableProofs   theorems: types, locks, legal runs, the contract, what is
                    stored against what runs
    MCDurable       instances; their code is Compiler!Compile of node lists
    Observed        every action of Durable with its callbacks, timers, spans
      ObservedProofs  theorems (also extends DurableProofs)
      MCObserved    instance (also extends MCDurable)
StreamContract      what stream() promises, without queues and tasks
Streaming           the tasks and queues of one stream() call
  StreamingProps    properties; Streaming implements StreamContract
    StreamingProofs   theorems
    MCStreaming     instances
CircuitBreaker      the breaker and its properties
  CircuitBreakerProofs  theorems
Middleware          the chain: retry, cache, limiter and (INSTANCE) CircuitBreaker
  MiddlewareProps   properties
    MiddlewareProofs    theorems: the breaker in the chain, limiter, cache, retry
    MCMiddleware    instance
```

### Compiler

A pure function, `Compile(nodes, auto)`, from a sequence of node records to
`[err, code, table]`. Each method of `Compiler` is one operator; loops are
folds. Instructions are records with the fields of `Instruction` and count from
1 (the code counts from 0), so "the end" is `Len(code) + 1`. An exception is a
value of `err`; `Then` lets the next pass run only without one. A node id `"name#n"` is the pair
`<<name, n>>`. The version hash is represented by the code itself: in
`Durable`, versions are the indexes of different codes.

`CompilerMeaning` gives a meaning to a list and, independently, to instructions:
each stage is an uninterpreted function of the keys it declares to read, so
two results are equal exactly when every key was computed by the same stages
from the same inputs. This is what makes folding, back-patching and naming
errors visible as wrong values.

Instructions run on contexts as `Context` has them: `[data, written, name]`,
with the write set that `fork` empties and `merge` reads, so that the meaning
of a block includes its `MergeConflictError`. The meaning of a list knows no
contexts. `Reached` gives for each address the contexts with which the
interpreter comes to it, by any route: code only leads forward, so it is a
recursive function of the address, and `Finals` is what comes to the end.
`resumed` says whether the run goes straight through or is resumed at every
CHECKPOINT (`from_snapshot` with an empty write set). Both must give what the
list means.

`Cached` runs the same code through a `CacheMiddleware`, as a state machine:
several runs of one Pipeline overlap and share `cache`, the entries under their
keys. A call of a CALL or of a branch looks its key up (`KeyOf`: `__name__` and
values, nothing of who wrote them), and is given the entry's values and write
set under its own context's name (`Hit`, `FromCache`), or runs its stage (`Miss`)
and stores what that returned (`Store`). `Miss` is possible at any lookup, which
is an entry that has expired; how long an entry lives is the business of
`Middleware`. Two misses of one key may overlap, and the later one to return
overwrites the other. No stage fails here, none is a STREAM stage (they bypass
the cache) and no list has routes (the cache refuses a `Send`).

### Durable

One step is what the event loop runs between two awaits. `pc[c]` says where a
call is: `reset` (the delete of a fresh durable run), `load`, `replay`,
`rewrite`, `run` (at an instruction), `fork` (branches running). The
interpreter is the operator `After(v, k)`: the configurations that can follow
`k = [ip, trail, pending]` in code `v`; a failure is the absence of one. The
actions use it, and so does `Legal`, the reachable configurations of an
undisturbed interpreter.

Abstractions. A context is what its values were computed from: the trail of
stages done, and its source (the initial values and the code version that
started the run). `validate`, `emit` and callbacks change nothing the
properties see. A stage's answer is one of `Outcomes[node]`. `StageFails`
stands for an exception, a timeout or a schema error. `StoreFails` and `Cancel`
leave the store with or without the effect of the operation in flight when the
store is remote. `Crash` drops a process's calls, lock and (in-memory) store
and restarts it with any version. A FORK keeps the set of running branches; a
failure leaves the others in `orphans`.

`pending_route` is in the configuration and is lost by a resume, as in the code.

`DurableContract` knows a safe value per run and a value being worked on per
call, each a source and a trail. `KeepsContract` is `DurableContract!Spec`
under the mapping `Safe` (the store without ip and version) and `Work` (the
context of a call that computes; of a replay, what it read and will write
back). What the contract leaves out is that a call continues from a checkpoint
of its own process, or with the right instructions: that is `LegalRuns` and
`NoStaleCode`.

### Observed

`_emit`, the except clause and the runner of a branch dispatch callbacks. Each
action of `Durable` is conjoined with what it does to `step_timers` and to the
spans of one `LangfuseCallback` per Pipeline. It is an assumption of the module
that callbacks return; their exceptions are swallowed by `_safe_dispatch`. A
callback that never returns or raises a BaseException, and `on_step_stream`,
which is not guarded (it is in `Streaming`), are not in it. That several of
them run within one step means that no other call observes the spans between
two callbacks of one exception, which no property depends on. `cut` and
`leaked` are history: the runs in which spans are known to be left open
(section 4), and the spans that were replaced in the dictionary unended.

### Streaming

Tasks `producer(s)`, `stage(s)` (the driver itself for a CALL, a task of
gather's for a branch), `driver` and the client, each with its suspension point
as state. Queues are sequences with the code's `maxsize` as constants (both are
32 in the code). asyncio semantics that the properties depend on are explicit:
a put into a queue with room does not suspend; `cancelled` is the set of tasks
a `CancelledError` is on its way to, and until it is thrown the task can do
nothing else; cancelling a task that awaits another one cancels that one (so a
second cancellation reaches a producer stuck in its `finally`); an error of one
branch ends the gather at once; `driver()` swallows a cancellation while it
puts its sentinel. A caller's callback may suspend in `on_step_stream`. The
timeout of a stage fires once (`expired`), wherever its task is suspended, also
while it cleans up after a callback has raised.

`StreamContract` knows only how many chunks each generator has made, how it
ended and what the client has; `KeepsContract` is `StreamContract!Spec` under
the mapping `outcome <- client's end or "open"`.

### CircuitBreaker

The asyncio lock makes admission and each ending one step. The clock is the age
of `_opened_at` up to `recovery_timeout`. `Escape` is a call that ends by
cancellation, by the stage timeout (`asyncio.timeout` is outside the chain, so
it arrives as a cancellation) or by an exception outside `exceptions`: no
handler of the breaker runs. `failures` is not reset when a probe fails, as in
the code. Its type invariant is a part of that of `Middleware`.

### Middleware

A call is at a layer (`at`) and on its way in (`enter`) or out (`leave`), in
its stage or asleep; the order of the layers is chosen in `Init`. Between two
awaits nobody else runs: `Awaiting` is the guard of everything the event loop
or the clock starts, and a call passes layers one step at a time until it
awaits. The code's asyncio locks are never held over an await and never
contended, so they suspend nobody, and `InMemoryCache` awaits nothing else: that
is why a layer is one step. With a cache store that does suspend, other calls
could run between its `get` and `time.time()`; that is not modelled.

Contexts are `Snapshots`; a result is named by the call whose stage computed
it, so that a cache hit shows whose work it hands out. Ages replace time
stamps and stop where the code stops looking (`Ttl`, `Second`), `Tick` ages
everything at once. `rps` is a fraction. `passed` and `began` are history. The
retry's delay is drawn from what the jitter allows. `Cancel` is the stage
timeout (outside the chain) or the caller's cancellation. A caller is any user
of the chain: a CALL, a branch, `run_step`.

## 3. Runs

`tlc -config MCDurable.cfg MCDurable.tla` makes a run (module and cfg as in the
table and in `PROJECT.json`), `tlapm DurableProofs.tla` checks a proof.

| run | cfg | question | states |
|---|---|---|---|
| compiler | MCCompiler | all lists of 1-4 nodes over 7 stages, 5 blocks, 4 dicts, auto on and off, straight and resumed; 2 runs sharing a cache of all lists of 1-3 nodes over 4 stages and 4 blocks | 472k |
| cached_merge | MCCachedMerge | *violation*: the same runs, a stage called outside of a block and in it | |
| durable | MCDurable | 1 pipe, 2 callers, 2 runs, 2 inputs, routed code, memory store; routers return known and unknown routes, or none; `replay(from_step)` | 182k |
| durable_live | MCDurableLive | 1 pipe, 2 callers, 1 run, 2 inputs, remote store, `replay(from_step)` of a known and an unknown step; contract, spans, calls end, resumed runs complete | 43k |
| durable_remote | MCDurableRemote | 2 processes (one durable), remote store, 2 versions of code (one routed) | 462k |
| durable_fork | MCDurableFork | *violation*: a block as it starts | |
| stream | MCStream | 1 stage, queues 2 and 1, 6 chunks, every fault | 11k |
| stream_fork | MCStreamFork | 2 branches, queues 1 and 1, 2 chunks and 1, raise and close | 33k |
| stream_close | MCStreamClose | *violation*: a client that stops early | |
| middleware | MCMiddleware | 2 calls, 2 orders of 4 layers, 2 stages of one name and a STREAM stage, 2 contexts, rps 3/2, 2 attempts, ttl and second of 2 ticks | 531k |
| breaker | MCBreaker | 3 calls, threshold 2, timeout 2 ticks, plain calls may escape | 0.2k |
| breaker_stuck | MCBreakerStuck | *violation*: probes may escape | |

A *violation* run states what a text of the repository says and TLC finds the
behaviour of the code that contradicts it (section 4).

**Bounds.** Node lists: every hazard of the compiler is about two or three
neighbouring nodes (a group and its candidate, a router and its dict, two
functions of one name), four leave room for one more. The stock has three
functions called `a`, two of which share the `__qualname__` too. Cached: an entry
is met by another run or at another place of the same one, so two runs and three
nodes (two before a block, or a block between two) have every pair of a call that
stores and one that is given the entry; the stages write the same key, different
ones, none, or do not say; names tell them apart, as `NamesTell` asks. It is
reduced by the symmetry of the runs, which have one input. Durable: the
code of each instance is a compiled list with every opcode; two callers are
enough for every race on a run because steps of a third one are steps of one of
the two; two runs and two inputs show whether one run's values reach another.
`MaxTrail` only bounds how often
`replay(from_step)` goes back: in `durable` from the first checkpoint only, in
`durable_live` from any. `durable` is reduced by the symmetry of callers,
runs and inputs; its properties are invariants and a safety property, and no
definition tells them apart. `LegalRuns` and `NoStaleCode` are stated without
`replay(from_step)` and checked in `durable_remote`, which has none. Streaming: what
matters is whether a queue is empty, partly filled or full, so the queues are
small and the chunks (`MaxChunks`) exceed what both queues and both tasks hold
(2 + 1 + 2) in `stream`, so that every task is somewhere blocked on a full queue
and the client still has chunks to miss; two branches of a block interact only
through the outer queue and the gather, for which two chunks of one and one of
the other are enough. Breaker: threshold 2 separates
"counted" from "tripped"; three calls allow a probe, a stale success and a
stale failure at once. Middleware: two calls are a cache miss next to a hit, a
retry next to a probe, two sleepers at the limiter; two attempts and two ticks
separate first from last and fresh from stale; with 3/2 the limiter admits two
per second, so a call and its retry can fill the window. The two orders put
retry inside and outside of breaker and cache; a call asks once, so an order in
which the cache is met twice in a call needs the retry outside of it, which is
the first one. `MCObserved` has the code and store of `durable_live`.

**Fairness.** `Durable.Fairness`: weak fairness of `Progress(c)`, what the event
loop and an answering stage do; a failing or hanging stage is a fault and has
none. `ResumeCompletes` adds `Retries` (strong fairness of resuming a run: the
retry loop of `docs/en/guides/durable.md`; strong because another call may hold
the lock again and again) and only speaks of behaviours where faults cease
(`Calm`). `Streaming.Fairness`: every task that can run does. It says nothing
of generators, which may wait for ever, nor of the client, which may stop asking:
`StreamEnds` assumes of them what it needs in its own antecedent (`Busy`), the
other liveness properties hold without; `stream_close` assumes `Busy` so that the
hang cannot be blamed on them. Breaker: calls end and time passes, nobody has to
call. Middleware: the event loop runs what can run, stages end, time passes;
nobody has to call, and a call may be cancelled at any await.

Deadlock checking is off where the system may stop: a compilation ends, callers
need not call, a stream ends or (finding) hangs, which the liveness properties
catch.

**What the passing runs show.** With the code as it is: folding, naming and
addresses preserve meaning (`CompiledMeansWritten`, `CodeWellFormed`,
`AutoAddsNoError`, `ConflictsCaught`), and sharing a cache does, except that a
block may conflict whose stage is also called outside of blocks
(`CachedMeansWritten`); a run interrupted any number of times is
an uninterrupted run (`LegalRuns`), its checkpoint belongs to it
(`StoredIsPast`), is exactly in front of a stage that starts
(`CallIsCheckpointed`) and only moves forward (`CheckpointAdvances`); code drift
is caught on resume (`NoStaleCode`); locks (`SingleFlight`, `LocksMatchCalls`);
`CallsEnd` and `ResumeCompletes`; streams keep their contract with bounded memory
and leave no task behind, a client that keeps asking reaches the end
(`StreamEnds`), and a close, a timeout or a callback's exception gets through to
its end unless a sentinel waits for room (`CloseReturnsOrWaits`,
`FaultSurfacesOrWaits`: the exact extent of the defect below); the breaker
probes once at a time, stays coherent and, if every probe ends in a way it handles, always lets a call in again.
Merges refuse exactly what two branches wrote, whatever their order
(`BlocksMerge`). What durable execution computes flows as `DurableContract`
says (`KeepsContract`). Spans end and no step ends without its start, on
success, failure, resume and replay, in every run that was not cancelled and met
no branch left behind (`SpansClosed`, `EndsWhatItStarted`). In both orders of
the layers the rate is kept up to rounding (`RateHonoured`), the cache is honest
about its `__name__` and ttl (`CacheHonest`), nobody retries more than allowed,
and no listed exception gets through early (`RetryHonest`), the breaker meets
nothing its own module does not allow (`DrivesBreaker`), and calls end also when
they wait at the limiter (`EveryCallEnds`).

## 4. Disagreements between text and code

Four have a run in which TLC finds the counterexample.

| run | the text | the code |
|---|---|---|
| durable_fork | `docs/en/guides/durable.md:17`: resume replays the failing stage | no CHECKPOINT before a FORK (`compiler.py:238`) |
| cached_merge | `src/tests/test_middleware.py:61`: a cached stage's writes merge correctly in a Parallel branch | an entry keeps the write set of the call that stored it, which its key does not tell (`middleware.py:156`, `164`): the branch claims keys it never writes, and a sibling that does write them meets a MergeConflictError |
| stream_close | `src/tests/test_stream.py:42`: an early break does not hang | hangs once a queue is full (`pipeline.py:153`, `executor.py:57`) |
| breaker_stuck | `middleware.py:180-182`: open until the timeout elapses | a probe that escapes locks the breaker (`middleware.py:225`) |

Two of them were also seen in the program itself. `[u, b, Parallel([b, w])]` with
a `CacheMiddleware`, where `u` writes `x` and `y`, `b` returns its context and `w`
writes `x`, raises MergeConflictError for the branches `b` and `w`; without the
cache it runs. And with a generator of 500 chunks and a client that stops after
the first, `aclose()` does not return; with ten chunks it does.

Others show in the model as the code has them, or lie outside it; no run is
spent on them.

* A stage that declares only one of `reads` and `writes`, next to one that
  declares both, makes auto-parallelism raise TypeError (`compiler.py:313`
  intersects None with a set), against `compiler.py:298-300`: it is conservatively
  not folded (`IndependentOf`; `AutoAddsNoError` says that this is the one error
  folding adds).
* A stage timeout never surfaces while the inner queue is full, against
  `stage.py:60` (`executor.py:57`; the second disjunct of
  `FaultSurfacesOrWaits`).
* `Parallel([w, w])` compiles although two branches write one key, against
  `docs/en/concepts/stage.md:48` (`compiler.py:234` keys by node id), as long as
  both branches get one id. They do not if another function has taken the name:
  `_node_id` gives the second `w` an id of its own then (`compiler.py:341-352`
  compares functions only under the bare name), and the block conflicts with
  itself, with a `CompilationError` or, if `w` declares nothing, with a
  MergeConflictError at run time. It occurs in the program: `[Parallel([b, b])]`
  runs, `[a, Parallel([b, b])]` raises, for two functions of one name without
  declarations. `RepeatsAreDeclared` excludes the undeclared case, where whether a
  list has a result depends on the names in it.
* An empty routing dict compiles to a ROUTE without targets
  (`compiler.py:154-160`), which no Send can take, though an empty route of a
  dict is refused (`compiler.py:163-167`); no text speaks of the case.
  `DictsHaveRoutes` excludes it.
* A dict inside a route body is refused, against `docs/en/guides/routing.md:70`
  (`compiler.py:180`, `365`).
* The siblings of a failed branch run on outside the lock, against
  `interpreter.py:263-265` (`scheduler.py:36`; `orphans` in `Durable`).
* A ROUTE may take the route of an older Send, against `primitives.py:26-31`
  (`interpreter.py:124`; `pending` in `AfterCall`).
* `replay(from_step)` stamps an old context with the current version, against
  `docs/en/guides/durable.md:37` (`pipeline.py:249`; `Rewrite`). It also starts
  at the first occurrence of a stage used twice.
* The run lock is per Pipeline object, against `docs/en/guides/durable.md:41`
  (`pipeline.py:332`); a resume on a pipeline that is not durable takes none.
* The success of a call admitted before the breaker opened closes it, against
  `middleware.py:200-201` (`middleware.py:241`; `Succeed`).
* An exception of `on_step_stream` ends the stage, against
  `observability/base.py:15-19` (`interpreter.py:231-233`; `CallbackRaises`).
* A TTL that expires under a running call leaves its stage without a checkpoint
  (`Expire`): `CallIsCheckpointed` holds for the in-memory store only.
* The cache middleware does not know a `Send`: the call fails with
  AttributeError after its stage succeeded (`middleware.py:154`;
  `CacheRefusesSend`), and a retry around it runs the stage again.
* The cache key is made of `__name__` (`middleware.py:164`), so two functions
  of one name share results: with both called `a`, the second branch of
  `[Parallel([a, a'])]` is given what the first one computed, and the merge raises
  MergeConflictError, also in the program. `CacheHonest` can only promise the name, and `CachedMeansWritten`
  speaks of pipelines whose names tell their functions apart (`NamesTell`).
* `rps` is rounded up: `len(window) < rps` admits two calls per second for
  `rps=1.5` and one for `rps=0.5` (`middleware.py:262`; `HasToken`).
* Spans of a cancelled call stay open, against `langfuse.py:15-16`
  (`CancelledError` is no `Exception`, `interpreter.py:148`; `CancelCloses`).
  When a branch is left behind and its run starts over, the old branch ends the
  new span or the new start replaces the old span unended (`langfuse.py:58`,
  `61`; `OrphanSpanCloses`, `Opens`). A resumed run has no span at all, for its
  code starts after `pipeline_start` (`langfuse.py:55-56`; `Parented`).
* `@stage(node_type=NodeType.ASYNC)` on a plain function makes it a SYNC stage;
  the TypeError of `stage.py:84` cannot be reached, for ASYNC is the default that
  asks for detection (`stage.py:75-79`).

## 5. Proofs

The runs show the properties for small instances, the theorems for every
number of pipelines, callers, runs, stages, chunks and layers, all code and all
settings. Every invariant and every action property of the passing runs, and
both refinements, are stated by a theorem, except `CachedMeansWritten`.

**Assumptions.** Of the constants: a call has a pipeline (`CallsUsePipes`), a
pipeline is durable or not (`DurableFlags`), a store in memory belongs to one
process (`MemoryIsLocal`), `Nothing`, `Root`, the breaker's `NotOpened` and the
outcomes of a call are none of the values they stand beside (`NothingDistinct`,
`RootIsNoStep`, `NotOpenedDistinct`, `RaisedApart`, `NothingApart`; the
compiler's `NoErrorIsNone`), thresholds, attempts and queues are positive,
instructions name known nodes and addresses (`CodeTyped`), declarations are over
the keys, what blocks and dicts hold are nodes again, and the routes of a dict
have different names (`NodesTyped`; they are the keys of a Python dict). Where a theorem needs more of the code, it says so
in its own hypothesis, which TLC evaluates for the code of the instances that
check the property: that a Send meets its ROUTE before the next CHECKPOINT
(`SendsAreRouted`), that a CHECKPOINT precedes each CALL with nothing between
them that changes the context (`CallsAreCheckpointed`), that `step_start` and
`step_end` are brackets and `pipeline_start` and `pipeline_end` enclose the rest
(`StepsAreBracketed`). The compiler lays code out that way (`StageCode`). Of node
lists, one theorem assumes that every routing dict has a route
(`DictsHaveRoutes`) and one that a stage which stands twice in a joined block
declares its writes (`RepeatsAreDeclared`, section 4).

**Compiler** (`CompilerProofs`, `CompilerAutoProofs`, `CompilerMeaningProofs`),
for every list over any nodes, nested to any depth, with `auto_parallel` on or
off.

* `CodeIsWellFormed`: `CodeWellFormed`, assuming `DictsHaveRoutes`. Without it the
  ROUTE of an empty dict has no target; the rest of the property does not need it.
* `ConflictsAreCaught`: `ConflictsCaught`. The check runs over ids; that it
  finds the functions of the block and not others of the same name is
  `NodeIdsNeverAlias`: `_node_id` gives an id that is new, or the one this very
  function has already.
* `BlocksAlwaysMerge`: `BlocksMerge`. The result of `merge` is said without an
  order (`MergeIgnoresOrder`): the data, the keys and the conflicts after some
  branches depend on the set of them alone, because a key that two of them
  have written is a conflict however it is met.

The loops of the compiler are folds, and a fold is a recursive definition.
`Iteration` gives the values of one after each of its rounds, from its recursive
definition, and `UpTo` is induction over a set of
rounds; `RunInRounds` puts them together, and one lemma per loop
(`BodyRounds`, `NodeRounds`, ...) carries the invariant through it. The
invariant of code in the making is `Sound(st, open)`: every address that is not
in `open` leads forward and into the code, the addresses in `open` are holes that
`_compile_router_block` has still to patch, and the symbol table has every
node the code names. `PatchSound` closes the holes, since a route's end is no
further than the code's.

* `AutoNeverAddsAnError`: `AutoAddsNoError`. Two compilations of one list are
  run against each other. What they have in common after each node is `Same`:
  the same error or none, and then the same symbol table; the code differs. The
  folded one lags behind by the group it is collecting, so the simulation
  (`Agreed`) compares it after it has also compiled that group one by one.
  `GroupOK` says what `_independent` has established of a group: all
  pairs are declared and apart (`Apart`). Hence a block of it never conflicts
  (`GroupNeverConflicts`), its branches register as the stages would
  (`BlockAlike`), and no dict loses its router (`FoldOK`).
* `AutoParallelKeepsMeaning`: the list that `_auto_parallelize` makes means what
  the list means. `GroupMeansBlock`: stages that are apart, one after the other,
  leave what they leave together, because none reads or overwrites what
  another has written (`TogetherGrows` adds one stage). The fold is followed
  round by round (`VisitMeans`), again with the open group at the end.
* `CompiledMeansTheList`: `CompiledMeansWritten`, assuming `RepeatsAreDeclared`.
  `Meets(ctxs, all)` relates the contexts at an address to the values the list
  gives so far. One node adds code whose only instruction with an effect is
  its CALL or FORK (`ActsOnce`, `ActsRuns`); a CALL gives what the stage means
  (`CallMeets`), a FORK what the block means, which includes that `merge`
  raises exactly where two functions clash (`ForkMeets`,
  `ContestedMeansClash`). This needs that the code in between is entered from
  in front only (`Straight`), and that is a consequence of `Sound`: no address in
  front leads past its own end (`StraightAfter`). For a dict, `Layout` says what
  the patched code looks like: where the ROUTE and the jumps are, that each
  route's body begins behind the jump in front of it and that all
  jumps lead behind the last; so a body is reached with what reached the ROUTE
  and nothing else (`LayoutEntry`), and what leaves the dict is the union over
  its routes (`LayoutExit`, `DictFlows`). `Extends` carries all this from the
  code in the making to the code that is executed.

**Durable execution.**

* `TypeCorrect`: `Spec => []TypeOK`.
* `LockCorrect`, `LocksFollowCalls`: `SingleFlight` and `LocksMatchCalls`.
  `SingleFlight` alone is not inductive: that nobody else holds a run follows
  from the lock set only if the set is exactly what the calls hold, and that a
  call may take its run out of the set when it ends follows from single flight.
  The two together, over the types, are inductive (`LockInv`).
* `DurableRunsAreLegal`: `LegalRuns`, assuming that nobody uses
  `replay(from_step)` and `SendsAreRouted`. The induction needs
  `LegalCheckpoints` together with `LegalCalls`: a resumed call is legal because
  what it loads is, and what it saves is legal because the call is;
  `LegalClosed` closes the interpreter's steps; the version comparison of
  `Restorable` makes the loaded configuration one of the current code. A call in
  `reset` must be counted among the legal ones.
* `DurableKeepsContract`: `Spec => KeepsContract`. Each action is a step of the
  contract or a stutter under the mapping. The invariants used are the types and
  that a call in `reset` is at the entry (`ResetInv`), and that is the point:
  the contract holds without the lock, by what each action reads and writes.
* `StoredIsPastHolds`, `CheckpointsAdvance`, for pipelines in one process
  (`OnePipeline`; with a shared store a plain Pipeline, which takes no lock, may
  run next to a durable one, and then neither holds). One invariant carries both,
  `PastInv`: for each call that holds its run, what is stored is a past of its
  context, by source and by trail, and while it is about to write, of what it
  will write. It needs `SingleFlight`: nobody else writes between two steps.
* `CallsAreResumable`: `CallIsCheckpointed`, for a store in memory and code as
  in `CallsAreCheckpointed`. `SavedInv` spreads the property from the CALL over
  the addresses between it and its CHECKPOINT (`Checkpointed(v)`).
* `CodeIsNeverStale`: `NoStaleCode`, without `replay(from_step)`, for any number
  of processes on one store, deployed again at any moment. `SameCodeInv` says the
  same of calls that have not begun to run and of the store.

**Observers** (`ObservedProofs`). Every action of `Observed` is one of `Durable`
with its callbacks, by construction (`ObservedIsDurable`), so the invariants of
`Durable` may be used.

* `StepsEndWhereBegun`: `EndsWhatItStarted`. `TimersInv` says which timers a call
  has at each address, those of the steps begun before it in the code
  (`BegunAt`), and that a call can only enter the code where that set is empty:
  at the entry and at a CHECKPOINT.
* `SpansAreClosed`: `SpansClosed`. "No span is open once nobody works on the run"
  is not inductive; `SpansInv` names for every open span who will close it: the
  call that runs, at an address between the brackets, a branch of its FORK, or a
  branch left behind (`OpenIsHeld`). That an orphan's span is not confused
  with a new call's of the same run is `OrphansAlone`, that a span is replaced
  only where it may be, `LeakedIsCut`. It uses `SingleFlight` and `TimersInv`.

**Streaming** (`StreamingProofs`).

* `StreamTyped`, `MemoryIsBounded`, `NothingOutlivesCall`: from one inductive
  invariant, `StreamInv`. Per stage it fixes where its next chunks are
  (`Flow`: those behind the outer queue are, in order and without a gap, the
  stage's hand, the inner queue and the producer's hand), that a sentinel is
  last and only there when its producer is done (`Sentinel`), and who may still
  be cancelled by whom (`Own`, `Single`); for the call, when the driver may have
  ended (`Ends`) and what the client is told (`Verdict`). A driver that has told
  a stage to stop has begun: without that, a cancellation could reach a call
  nobody runs.
* `ContractIsKept`: `Spec => KeepsContract`. `Flow` is what makes the client's
  next chunk the next one of its stage, `Verdict` what makes its error come
  after the chunks before it.

**Breaker and middleware.**

* `BreakerTyped`, `BreakerCoherent`, `BreakerSafe` (`OneProbe`), from
  `BreakerInv`. `OneProbe` needs `ProbeFlagged` (while a probe is out, the flag
  is up): a probe is admitted because the flag is down, hence no other is out,
  even after a stale success closed the breaker under it.
* `ChainDrivesBreaker`: `Spec => DrivesBreaker`; each step of the chain leaves
  the breaker alone or takes one of its steps. Then `ChainBreakerSafe`, from
  `BreakerSafe` by instantiation, for any layers, calls and settings.
* `RateIsHonoured`: `RateHonoured`. The window and the history `passed` differ
  by entries that have left the second and that `popleft` has not yet met
  (`Window`); so the guard on the window's length bounds what has passed.
* `ChainTyped`, `RetryIsHonest`, `CacheIsHonest`: from `LayersInv`, which is
  about one call at a time (`CallInv`: where it is in the chain, what the layers
  it is inside of have counted, what it asks for and gives back) and the entries
  of the cache. That a call asks for its own snapshot has to be known in every phase,
  also asleep in the retry: a later attempt meets the cache again.

Invariants about sequences in which something is looked for from one end need
the least number with a property; `Least` proves it from the well-foundedness of
the naturals in the library (`WFMin`), which takes no operator as a parameter.

**Only model-checked.** Everything about liveness (`CallsEnd`,
`ResumeCompletes`, `StreamEnds`, `CloseReturnsOrWaits`, `FaultSurfacesOrWaits`,
`EveryCallEnds`, `NeverLockedOut`), which is out of the prover's reach, as is
ENABLED. And `CachedMeansWritten`: `CompiledMeansTheList` speaks of the contexts
that come to an address along one path, write sets included, while a cache makes
those of a call depend on what other runs have stored.

## 6. Not modelled, and the plan

Not modelled:

* The contents of contexts beyond their provenance: nested mutable values that
  a failed attempt or a sibling branch has changed in place
  (`context.py:83`), the JSON round trip of Redis (`redis.py:19`).
* Threads of SYNC stages: a thread outlives a timeout of its stage, but has no
  state in fluxio.
* `diff` and `explain`, which only read; the log; `StepHarness`, which is one
  more caller of the chain; `CacheMiddleware` with a `key_fn` or another store.
* The choice of the node type by `@stage`, which is inspection of Python
  functions.
* More than one block of STREAM stages in a run, which is several blocks one
  after the other and adds nothing to the tasks of one.

Done: compiler, durable execution, streaming and breaker first, then contexts in
the meaning of code, the middleware chain, observers, the contract of durable
execution, and the theorems of section 5. Of the plan nothing is left; what would
come next is a model of the JSON round trip of Redis, which is about the values
the other modules only compare.
