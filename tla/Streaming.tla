----------------------------- MODULE Streaming ------------------------------
(***************************************************************************)
(* One call of Pipeline.stream over a block of STREAM stages: a CALL of    *)
(* one, or a parallel FORK of several.  Tasks:                             *)
(*   producer(s)  iterates over the generator of s into its inner queue    *)
(*   stage(s)     takes from it and passes on to the callbacks, of which   *)
(*                the last puts the chunk into the outer queue             *)
(*   driver       interprets the pipeline and puts the outer sentinel      *)
(*   client       iterates over the outer queue                            *)
(* (runtime/executor.py, api/pipeline.py, Interpreter._call, Scheduler).   *)
(*                                                                         *)
(* A step is what the event loop runs between two suspensions.  A put into *)
(* a queue with room does not suspend; a CancelledError is thrown where    *)
(* the task is suspended, and goes through an `await task` to the task     *)
(* awaited.  Until it is thrown the task can do nothing else.              *)
(***************************************************************************)
EXTENDS Naturals, Sequences, FiniteSets

CONSTANTS
    Stages,
    InnerSize,      \* maxsize of the queue of a stage
    OuterSize,      \* maxsize of the queue to the client
    Faults,         \* what may go wrong: see FaultKinds
    MaxChunks       \* stage -> bound on the chunks its generator yields

FaultKinds == {"raise", "timeout", "callback", "close", "again"}

ASSUME StagesSome == IsFiniteSet(Stages) /\ Stages # {}
ASSUME SizesPositive == InnerSize \in Nat \ {0} /\ OuterSize \in Nat \ {0}
ASSUME FaultsKnown == Faults \subseteq FaultKinds
ASSUME ChunksNat == MaxChunks \in [Stages -> Nat]

VARIABLES
    producer,   \* stage -> where its producer task is
    stage,      \* stage -> where the task that runs it is
    driver,     \* where the driver task is
    client,     \* where the client is
    inner,      \* stage -> its queue of chunk numbers and End
    outer,      \* the queue of <<stage, chunk number>> and End
    held,       \* stage -> chunk being passed to the callbacks
    made,       \* stage -> number of chunks its generator has yielded
    fate,       \* stage -> how its generator ended, or "running"
    broken,     \* stages whose timeout fired or whose callback raised
    expired,    \* stages whose timeout fired
    result,     \* how the interpreter ended: "ok" or "failed"
    got,        \* stage -> chunks the client has received
    cancelled   \* tasks a CancelledError is on its way to

vars == <<producer, stage, driver, client, inner, outer, held, made, fate,
          broken, expired, result, got, cancelled>>

End == 0        \* the sentinels; chunks count from 1

\* Mutant: the queues have no maxsize.
HasRoom_Unbounded(queue, size) == TRUE

HasRoom(queue, size) == Len(queue) < size

ProducerTask(s) == <<"producer", s>>
StageTask(s) == <<"stage", s>>
DriverTask == <<"driver">>

Told(task) == task \in cancelled

StageOver(s) == stage[s] \in {"returned", "raised"}

-----------------------------------------------------------------------------
(* producer(): _run_stream's inner task.                                   *)

StartProducer(s) ==
    /\ producer[s] = "new" /\ ~Told(ProducerTask(s))
    /\ producer' = [producer EXCEPT ![s] = "gen"]
    /\ UNCHANGED <<stage, driver, client, inner, outer, held, made, fate,
                   broken, expired, result, got, cancelled>>

Yield(s) ==
    /\ producer[s] = "gen" /\ ~Told(ProducerTask(s))
    /\ made[s] < MaxChunks[s]
    /\ made' = [made EXCEPT ![s] = @ + 1]
    /\ IF HasRoom(inner[s], InnerSize)
       THEN /\ inner' = [inner EXCEPT ![s] = Append(@, made[s] + 1)]
            /\ UNCHANGED producer
       ELSE /\ producer' = [producer EXCEPT ![s] = "put"]
            /\ UNCHANGED inner
    /\ UNCHANGED <<stage, driver, client, outer, held, fate, broken, expired,
                   result, got, cancelled>>

PutChunk(s) ==
    /\ producer[s] = "put" /\ ~Told(ProducerTask(s))
    /\ HasRoom(inner[s], InnerSize)
    /\ inner' = [inner EXCEPT ![s] = Append(@, made[s])]
    /\ producer' = [producer EXCEPT ![s] = "gen"]
    /\ UNCHANGED <<stage, driver, client, outer, held, made, fate, broken,
                   expired, result, got, cancelled>>

\* The finally clause: the sentinel goes in, at once or when there is room.
PutEnd(s) ==
    IF HasRoom(inner[s], InnerSize)
    THEN /\ inner' = [inner EXCEPT ![s] = Append(@, End)]
         /\ producer' = [producer EXCEPT ![s] = "done"]
    ELSE /\ producer' = [producer EXCEPT ![s] = "end"]
         /\ UNCHANGED inner

GeneratorEnds(s) ==
    /\ producer[s] = "gen" /\ ~Told(ProducerTask(s))
    /\ \E how \in {"ended"} \cup (IF "raise" \in Faults THEN {"raised"} ELSE {}) :
            fate' = [fate EXCEPT ![s] = how]
    /\ PutEnd(s)
    /\ UNCHANGED <<stage, driver, client, outer, held, made, broken, expired,
                   result, got, cancelled>>

PutProducerEnd(s) ==
    /\ producer[s] = "end" /\ ~Told(ProducerTask(s))
    /\ HasRoom(inner[s], InnerSize)
    /\ PutEnd(s)
    /\ UNCHANGED <<stage, driver, client, outer, held, made, fate, broken,
                   expired, result, got, cancelled>>

\* Thrown into the generator or a put, it still has the finally clause to do;
\* into a task not yet started or into the finally clause, it ends the task.
ProducerCancelled(s) ==
    /\ Told(ProducerTask(s))
    /\ cancelled' = cancelled \ {ProducerTask(s)}
    /\ IF producer[s] \in {"gen", "put"}
       THEN PutEnd(s)
       ELSE producer' = [producer EXCEPT ![s] = "done"] /\ UNCHANGED inner
    /\ fate' = [fate EXCEPT ![s] = IF @ = "running" THEN "cancelled" ELSE @]
    /\ UNCHANGED <<stage, driver, client, outer, held, made, broken, expired,
                   result, got>>

-----------------------------------------------------------------------------
(* The task of a stage: the driver itself for a CALL, a task of gather's   *)
(* for a branch.                                                           *)

StartStage(s) ==
    /\ driver = "run" /\ stage[s] = "idle" /\ ~Told(StageTask(s))
    /\ stage' = [stage EXCEPT ![s] = "get"]
    /\ producer' = [producer EXCEPT ![s] = "new"]
    /\ UNCHANGED <<driver, client, inner, outer, held, made, fate, broken,
                   expired, result, got, cancelled>>

\* Mutant: the sentinel is not recognised.
Take_Unchecked(s) ==
    /\ stage[s] = "get" /\ ~Told(StageTask(s))
    /\ inner[s] # <<>>
    /\ inner' = [inner EXCEPT ![s] = Tail(@)]
    /\ held' = [held EXCEPT ![s] = Head(inner[s])]
    /\ stage' = [stage EXCEPT ![s] = "notify"]
    /\ UNCHANGED <<producer, driver, client, outer, made, fate, broken,
                   expired, result, got, cancelled>>

Take(s) ==
    /\ stage[s] = "get" /\ ~Told(StageTask(s))
    /\ inner[s] # <<>> /\ Head(inner[s]) # End
    /\ inner' = [inner EXCEPT ![s] = Tail(@)]
    /\ held' = [held EXCEPT ![s] = Head(inner[s])]
    /\ stage' = [stage EXCEPT ![s] = "notify"]
    /\ UNCHANGED <<producer, driver, client, outer, made, fate, broken,
                   expired, result, got, cancelled>>

\* Mutant: the producer is not awaited, its exception is lost.
StageResult_Unawaited(s) == "returned"

\* `await task` after the sentinel raises what the generator raised.
StageResult(s) == IF fate[s] = "ended" THEN "returned" ELSE "raised"

TakeEnd(s) ==
    /\ stage[s] = "get" /\ ~Told(StageTask(s))
    /\ inner[s] # <<>> /\ Head(inner[s]) = End
    /\ inner' = [inner EXCEPT ![s] = Tail(@)]
    /\ stage' = [stage EXCEPT ![s] = StageResult(s)]
    /\ UNCHANGED <<producer, driver, client, outer, held, made, fate, broken,
                   expired, result, got, cancelled>>

\* on_step_stream of the caller's callbacks has returned; next is the
\* collector's, which puts the chunk into the outer queue.
PassOn(s) ==
    /\ outer' = Append(outer, <<s, held[s]>>)
    /\ held' = [held EXCEPT ![s] = End]
    /\ stage' = [stage EXCEPT ![s] = "get"]

Notify(s) ==
    /\ stage[s] = "notify" /\ ~Told(StageTask(s))
    /\ IF HasRoom(outer, OuterSize)
       THEN PassOn(s)
       ELSE /\ stage' = [stage EXCEPT ![s] = "put"]
            /\ UNCHANGED <<outer, held>>
    /\ UNCHANGED <<producer, driver, client, inner, made, fate, broken,
                   expired, result, got, cancelled>>

PutOuter(s) ==
    /\ stage[s] = "put" /\ ~Told(StageTask(s))
    /\ HasRoom(outer, OuterSize)
    /\ PassOn(s)
    /\ UNCHANGED <<producer, driver, client, inner, made, fate, broken,
                   expired, result, got, cancelled>>

\* Mutant: the except clause awaits the producer without cancelling it.
AbortTells_Nobody(s) == {}

AbortTells(s) == IF producer[s] = "done" THEN {} ELSE {ProducerTask(s)}

\* except BaseException: cancel the producer and wait for it.
Abort(s) ==
    /\ stage' = [stage EXCEPT ![s] =
                    IF producer[s] = "done" THEN "raised" ELSE "cleanup"]
    /\ cancelled' = (cancelled \ {StageTask(s)}) \cup AbortTells(s)

CallbackRaises(s) ==
    /\ "callback" \in Faults
    /\ stage[s] = "notify" /\ ~Told(StageTask(s))
    /\ Abort(s)
    /\ broken' = broken \cup {s}
    /\ UNCHANGED <<producer, driver, client, inner, outer, held, made, fate,
                   expired, result, got>>

StageCancelled(s) ==
    /\ Told(StageTask(s))
    /\ IF stage[s] = "idle"
       THEN /\ stage' = [stage EXCEPT ![s] = "raised"]
            /\ cancelled' = cancelled \ {StageTask(s)}
       ELSE Abort(s)
    /\ UNCHANGED <<producer, driver, client, inner, outer, held, made, fate,
                   broken, expired, result, got>>

CleanedUp(s) ==
    /\ stage[s] = "cleanup" /\ producer[s] = "done"
    /\ stage' = [stage EXCEPT ![s] = "raised"]
    /\ UNCHANGED <<producer, driver, client, inner, outer, held, made, fate,
                   broken, expired, result, got, cancelled>>

\* Whom a cancel() of the task of a stage reaches.
StageTells(s) ==
    IF stage[s] = "cleanup"
    THEN IF producer[s] = "done" THEN {} ELSE {ProducerTask(s)}
    ELSE IF StageOver(s) THEN {} ELSE {StageTask(s)}

\* asyncio.timeout around the stage cancels the task that runs it, once, also
\* while it cleans up after a callback or a cancellation.
Timeout(s) ==
    /\ "timeout" \in Faults
    /\ stage[s] \in {"get", "notify", "put", "cleanup"} /\ s \notin expired
    /\ broken' = broken \cup {s}
    /\ expired' = expired \cup {s}
    /\ cancelled' = cancelled \cup StageTells(s)
    /\ UNCHANGED <<producer, stage, driver, client, inner, outer, held, made,
                   fate, result, got>>

-----------------------------------------------------------------------------
(* driver().                                                               *)

StartDriver ==
    /\ driver = "new" /\ ~Told(DriverTask)
    /\ driver' = "run"
    /\ UNCHANGED <<producer, stage, client, inner, outer, held, made, fate,
                   broken, expired, result, got, cancelled>>

\* Mutant: put_nowait, which drops the sentinel when the queue is full.
PutDriverEnd_NoWait ==
    /\ outer' = IF HasRoom(outer, OuterSize) THEN Append(outer, <<End>>) ELSE outer
    /\ driver' = "done"

PutDriverEnd ==
    IF HasRoom(outer, OuterSize)
    THEN /\ outer' = Append(outer, <<End>>)
         /\ driver' = "done"
    ELSE /\ driver' = "end"
         /\ UNCHANGED outer

\* Mutant: the run goes on with the first branch that returns.
RunEnds_First ==
    /\ driver = "run" /\ ~Told(DriverTask)
    /\ \E s \in Stages : stage[s] = "returned"
    /\ result' \in {"ok"} \cup (IF "raise" \in Faults THEN {"failed"} ELSE {})
    /\ PutDriverEnd
    /\ UNCHANGED <<producer, stage, client, inner, held, made, fate, broken,
                   expired, got, cancelled>>

\* gather has every result; a later stage of the pipeline may yet fail.
RunEnds ==
    /\ driver = "run" /\ ~Told(DriverTask)
    /\ \A s \in Stages : stage[s] = "returned"
    /\ result' \in {"ok"} \cup (IF "raise" \in Faults THEN {"failed"} ELSE {})
    /\ PutDriverEnd
    /\ UNCHANGED <<producer, stage, client, inner, held, made, fate, broken,
                   expired, got, cancelled>>

\* gather raises with the first branch that does; the others run on.
RunRaises ==
    /\ driver = "run" /\ ~Told(DriverTask)
    /\ \E s \in Stages : stage[s] = "raised"
    /\ result' = "failed"
    /\ PutDriverEnd
    /\ UNCHANGED <<producer, stage, client, inner, held, made, fate, broken,
                   expired, got, cancelled>>

FinishDriver ==
    /\ driver = "end" /\ ~Told(DriverTask)
    /\ HasRoom(outer, OuterSize)
    /\ PutDriverEnd
    /\ UNCHANGED <<producer, stage, client, inner, held, made, fate, broken,
                   expired, result, got, cancelled>>

\* While it waits for room it swallows the error and keeps its result.
DriverCancelled ==
    /\ Told(DriverTask)
    /\ cancelled' = cancelled \ {DriverTask}
    /\ IF driver = "run"
       THEN PutDriverEnd
       ELSE driver' = "done" /\ UNCHANGED outer
    /\ result' = IF driver = "end" THEN result ELSE "failed"
    /\ UNCHANGED <<producer, stage, client, inner, held, made, fate, broken,
                   expired, got>>

\* Whom a cancel() of the driver reaches: the stages it is waiting for.
DriverTells ==
    LET waiting == /\ driver = "run"
                   /\ \E s \in Stages : ~StageOver(s)
                   /\ \A s \in Stages : stage[s] # "raised"
    IN  IF waiting THEN UNION {StageTells(s) : s \in Stages} ELSE {DriverTask}

-----------------------------------------------------------------------------
(* The client, inside the async generator that stream() returns.           *)

Receive ==
    /\ client = "get"
    /\ outer # <<>> /\ Head(outer) # <<End>>
    /\ LET s == Head(outer)[1]
       IN  got' = [got EXCEPT ![s] = Append(@, Head(outer)[2])]
    /\ outer' = Tail(outer)
    /\ client' = "hold"
    /\ UNCHANGED <<producer, stage, driver, inner, held, made, fate, broken,
                   expired, result, cancelled>>

ReceiveEnd ==
    /\ client = "get"
    /\ outer # <<>> /\ Head(outer) = <<End>>
    /\ outer' = Tail(outer)
    /\ client' = IF result = "ok" THEN "returned" ELSE "raised"
    /\ UNCHANGED <<producer, stage, driver, inner, held, made, fate, broken,
                   expired, result, got, cancelled>>

Ask ==
    /\ client = "hold"
    /\ client' = "get"
    /\ UNCHANGED <<producer, stage, driver, inner, outer, held, made, fate,
                   broken, expired, result, got, cancelled>>

\* Mutant: the finally clause does not wait for the driver.
ClosePhase_NoAwait == "closed"

ClosePhase == IF driver = "done" THEN "closed" ELSE "close"

\* aclose() at a yield, or the client's task cancelled while it waits.
Close ==
    /\ "close" \in Faults
    /\ client \in {"get", "hold"}
    /\ client' = ClosePhase
    /\ cancelled' = cancelled \cup (IF driver = "done" THEN {} ELSE DriverTells)
    /\ UNCHANGED <<producer, stage, driver, inner, outer, held, made, fate,
                   broken, expired, result, got>>

\* The client's task is cancelled while it waits for the driver.
CloseAgain ==
    /\ "again" \in Faults
    /\ client = "close" /\ driver # "done"
    /\ cancelled' = cancelled \cup DriverTells
    /\ UNCHANGED <<producer, stage, driver, client, inner, outer, held, made,
                   fate, broken, expired, result, got>>

Closed ==
    /\ client = "close" /\ driver = "done"
    /\ client' = "closed"
    /\ UNCHANGED <<producer, stage, driver, inner, outer, held, made, fate,
                   broken, expired, result, got, cancelled>>

-----------------------------------------------------------------------------
Init ==
    /\ producer = [s \in Stages |-> "none"]
    /\ stage = [s \in Stages |-> "idle"]
    /\ driver = "new"
    /\ client = "get"
    /\ inner = [s \in Stages |-> <<>>]
    /\ outer = <<>>
    /\ held = [s \in Stages |-> End]
    /\ made = [s \in Stages |-> 0]
    /\ fate = [s \in Stages |-> "running"]
    /\ broken = {}
    /\ expired = {}
    /\ result = "ok"
    /\ got = [s \in Stages |-> <<>>]
    /\ cancelled = {}

Generator(s) == Yield(s) \/ GeneratorEnds(s)

Producer(s) ==
    StartProducer(s) \/ PutChunk(s) \/ PutProducerEnd(s) \/ ProducerCancelled(s)

Stage(s) ==
    \/ StartStage(s) \/ Take(s) \/ TakeEnd(s) \/ Notify(s) \/ PutOuter(s)
    \/ StageCancelled(s) \/ CleanedUp(s)

Driver == StartDriver \/ RunEnds \/ RunRaises \/ FinishDriver \/ DriverCancelled

Client == Receive \/ ReceiveEnd \/ Closed

Next ==
    \/ \E s \in Stages : \/ Generator(s) \/ Producer(s) \/ Stage(s)
                         \/ CallbackRaises(s) \/ Timeout(s)
    \/ Driver \/ Client
    \/ Ask \/ Close \/ CloseAgain

Spec == Init /\ [][Next]_vars

\* The event loop runs every task that can go on; callbacks return.
Fairness ==
    /\ \A s \in Stages : WF_vars(Producer(s)) /\ WF_vars(Stage(s))
    /\ WF_vars(Driver)
    /\ WF_vars(Client)

FairSpec == Spec /\ Fairness
=============================================================================
