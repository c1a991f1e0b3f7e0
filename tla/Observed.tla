------------------------------- MODULE Observed -------------------------------
(***************************************************************************)
(* What observers see of durable execution: the callbacks the interpreter  *)
(* dispatches with each step (runtime/interpreter.py), the timers it keeps *)
(* to end the steps it started, and the spans LangfuseCallback holds open  *)
(* for them (observability/langfuse.py).  Every action of Durable is       *)
(* conjoined with its effect on them.  It is assumed that callbacks        *)
(* return; an Exception of theirs is swallowed (_safe_dispatch).  One that *)
(* never returns, raises a BaseException, or raises in the unguarded       *)
(* on_step_stream (see Streaming) is not in this module.                   *)
(***************************************************************************)
EXTENDS DurableProps

CONSTANT Root       \* the step name None: the span of the pipeline

ASSUME RootIsNoStep == Root \notin Nodes

VARIABLES
    timers,         \* call -> the steps in step_timers
    spans,          \* pipe -> _spans of its callback: open <<run, step>>
    cut,            \* history: pipe -> runs a call was cancelled in, or
                    \* begun in while branches of an older call went on
    leaked          \* history: pipe -> keys of other runs whose span was
                    \* replaced before it ended

observers == <<timers, spans, cut, leaked>>

observedVars == <<vars, observers>>

-----------------------------------------------------------------------------
(* LangfuseCallback.                                                       *)

Spans(c) == spans[PipeOf[c]]

\* A root is opened unconditionally, a step only under a root.
Parented(open, run, steps) ==
    IF <<run, Root>> \in open THEN {<<run, s>> : s \in steps} ELSE {}

Opens(c, keys) ==
    /\ spans' = [spans EXCEPT ![PipeOf[c]] = @ \cup keys]
    /\ leaked' = [leaked EXCEPT ![PipeOf[c]] =
                                 @ \cup {k \in Spans(c) \cap keys :
                                            k[1] \notin cut[PipeOf[c]]}]

Closes(c, steps) ==
    /\ spans' = [spans EXCEPT ![PipeOf[c]] = @ \ {<<job[c].run, s>> : s \in steps}]
    /\ UNCHANGED leaked

OnPipelineStart(c) == Opens(c, {<<job[c].run, Root>>})

OnPipelineEnd(c) == Closes(c, {Root})

OnStepStart(c, steps) == Opens(c, Parented(Spans(c), job[c].run, steps))

OnStepEnd(c, steps) == Closes(c, steps)

\* Mutant: the root waits for an on_pipeline_end that does not come.
ClosedByError_NoRoot(step) == {step}

\* on_error closes the step that failed and the root.
ClosedByError(step) == {step, Root}

-----------------------------------------------------------------------------
(* The interpreter.                                                        *)

Quiet == UNCHANGED observers

SetTimers(c, steps) == timers' = [timers EXCEPT ![c] = steps]

\* EMIT; on_branch opens no span.
Emits(c) ==
    LET i == Instr(c)
    IN  /\ IF Op(c) # "emit" THEN UNCHANGED <<timers, spans, leaked>>
           ELSE IF i.event = "pipeline_start"
                THEN OnPipelineStart(c) /\ UNCHANGED timers
           ELSE IF i.event = "pipeline_end"
                THEN OnPipelineEnd(c) /\ UNCHANGED timers
           ELSE IF i.event = "step_start"
                THEN /\ OnStepStart(c, {i.node})
                     /\ SetTimers(c, timers[c] \cup {i.node})
           ELSE IF i.event = "step_end"
                THEN /\ OnStepEnd(c, {i.node})
                     /\ SetTimers(c, timers[c] \ {i.node})
           ELSE UNCHANGED <<timers, spans, leaked>>
        /\ UNCHANGED cut

\* _current_step: FORK, JOIN, ROUTE and JUMP name no node.
CurrentStep(c) ==
    IF Op(c) \in {"call", "validate_input", "validate_output", "checkpoint"}
    THEN Instr(c).node
    ELSE Root

\* except Exception: the open timers are ended, then on_error.
ErrorCloses(c) == timers[c] \cup ClosedByError(CurrentStep(c))

OnError(c, branches) ==
    /\ Closes(c, ErrorCloses(c) \cup branches)
    /\ SetTimers(c, {})
    /\ UNCHANGED cut

\* The runner of a branch brackets it with its own events.
BranchSpansOpen(c) ==
    /\ OnStepStart(c, BranchSet(c))
    /\ UNCHANGED <<timers, cut>>

BranchSpanCloses(c, b) ==
    /\ OnStepEnd(c, {b})
    /\ UNCHANGED <<timers, cut>>

\* A branch that its FORK left behind ends its span whosever it is by now.
OrphanSpanCloses(o) ==
    /\ spans' = [spans EXCEPT ![o.pipe] = @ \ {<<o.run, o.node>>}]
    /\ UNCHANGED <<timers, leaked, cut>>

\* CancelledError is no Exception: branches close their spans, nobody else.
CancelCloses(c) ==
    /\ Closes(c, running[c])
    /\ SetTimers(c, {})
    /\ cut' = IF InProgress(c)
              THEN [cut EXCEPT ![PipeOf[c]] = @ \cup {job[c].run}]
              ELSE cut

\* The spans live in the process.
SpansDie(p) ==
    /\ timers' = [c \in Calls |-> IF PipeOf[c] = p THEN {} ELSE timers[c]]
    /\ spans' = [spans EXCEPT ![p] = {}]
    /\ leaked' = [leaked EXCEPT ![p] = {}]
    /\ cut' = [cut EXCEPT ![p] = {}]

Orphaned(p, r) == \E o \in orphans : o.pipe = p /\ o.run = r

Starts(c) ==
    /\ Request(c)
    /\ LET r == job'[c].run
       IN  cut' = IF Orphaned(PipeOf[c], r)
                  THEN [cut EXCEPT ![PipeOf[c]] = @ \cup {r}]
                  ELSE cut
    /\ UNCHANGED <<timers, spans, leaked>>

-----------------------------------------------------------------------------
ObservedProgress(c) ==
    \/ /\ \/ Reset(c) \/ Load(c) \/ LoadFails(c)
          \/ ReplayLoad(c) \/ ReplayFails(c) \/ Rewrite(c)
          \/ Save(c) \/ StageReturns(c) \/ Merge(c) \/ Finish(c)
       /\ Quiet
    \/ Advance(c) /\ Emits(c)
    \/ RouteFails(c) /\ OnError(c, {})
    \/ StartBranches(c) /\ BranchSpansOpen(c)
    \/ \E b \in Nodes : BranchEnds(c, b) /\ BranchSpanCloses(c, b)

\* The run's own store operations fail inside the try, but for the last.
ObservedFault(c) ==
    \/ (StageFails(c) \/ MergeFails(c)) /\ OnError(c, {})
    \/ \E b \in Nodes : BranchFails(c, b) /\ OnError(c, {b})
    \/ StoreFails(c) /\ IF pc[c] = "run" /\ Op(c) = "checkpoint"
                        THEN OnError(c, {}) ELSE Quiet
    \/ Cancel(c) /\ CancelCloses(c)

ObservedOutage ==
    \/ \E p \in Pipes, v \in Versions : Crash(p, v) /\ SpansDie(p)
    \/ \E r \in Runs : Expire(r) /\ Quiet

ObservedNext ==
    \/ \E c \in Calls : Starts(c) \/ ObservedProgress(c) \/ ObservedFault(c)
    \/ OrphanEnds /\ \E o \in orphans \ orphans' : OrphanSpanCloses(o)
    \/ ObservedOutage

ObservedInit ==
    /\ Init
    /\ timers = [c \in Calls |-> {}]
    /\ spans = [p \in Pipes |-> {}]
    /\ leaked = [p \in Pipes |-> {}]
    /\ cut = [p \in Pipes |-> {}]

ObservedSpec == ObservedInit /\ [][ObservedNext]_observedVars

-----------------------------------------------------------------------------
Working(p, r) ==
    \/ \E c \in Calls : PipeOf[c] = p /\ pc[c] # "idle" /\ job[c].run = r
    \/ Orphaned(p, r)

(***************************************************************************)
(* langfuse.py: "Spans are always closed, including on errors and pipeline *)
(* failure": once nobody works on a run, none of its spans is open or was  *)
(* replaced unended, wherever it failed, was resumed or left branches      *)
(* behind.  Not for the runs of `cut`: a cancelled call leaves its spans   *)
(* open, and a branch left behind and the run that started over share one  *)
(* key.                                                                    *)
(***************************************************************************)
SpansClosed ==
    \A p \in Pipes : \A r \in Runs \ cut[p] :
        (/\ \A q \in Pipes : IsDurable[q]
         /\ ~Working(p, r)) =>
            \A key \in spans[p] \cup leaked[p] : key[1] # r

(***************************************************************************)
(* Every on_step_end has its on_step_start in the same call, so durations  *)
(* are measured (the default of step_timers.pop is never used), also in a  *)
(* call that continues from a checkpoint or from replay(from_step); and no *)
(* step is open where a call could be taken over or where it ends.         *)
(***************************************************************************)
EndsWhatItStarted ==
    \A c \in Calls :
        IF pc[c] # "run" THEN timers[c] = {}
        ELSE /\ Op(c) \in {"checkpoint", "end", "fork", "route"} => timers[c] = {}
             /\ (Op(c) = "emit" /\ Instr(c).event = "step_end") =>
                    Instr(c).node \in timers[c]

-----------------------------------------------------------------------------
(* Code whose events are brackets: what the theorems assume of it.         *)

IsEvent(v, ip, event) ==
    ip \in DOMAIN Code[v] /\ Code[v][ip].op = "emit" /\ Code[v][ip].event = event

\* The steps the instructions before ip start and do not end.
BegunAt(v, ip) ==
    {n \in Nodes :
        \E q \in 1..(ip - 1) :
            /\ IsEvent(v, q, "step_start") /\ Code[v][q].node = n
            /\ \A j \in (q + 1)..(ip - 1) :
                    IsEvent(v, j, "step_end") => Code[v][j].node # n}

\* They start the pipeline and do not end it.
UnderwayAt(v, ip) ==
    \E q \in 1..(ip - 1) :
        /\ IsEvent(v, q, "pipeline_start")
        /\ \A j \in (q + 1)..(ip - 1) : ~IsEvent(v, j, "pipeline_end")

\* Between two steps of a pipeline that has started.
BetweenSteps(v, ip) == UnderwayAt(v, ip) /\ BegunAt(v, ip) = {}

\* Steps do not nest, end what began, and hold no CHECKPOINT, FORK, ROUTE,
\* JUMP or target of one; the pipeline starts and ends around them.
StepsAreBracketed ==
    \A v \in Versions :
        /\ \A ip \in DOMAIN Code[v] :
            LET i == Code[v][ip]
            IN  /\ i.op \in {"checkpoint", "fork", "route", "jump"} =>
                      BegunAt(v, ip) = {}
                /\ IsEvent(v, ip, "pipeline_start") =>
                      ~UnderwayAt(v, ip) /\ BegunAt(v, ip) = {}
                /\ IsEvent(v, ip, "step_start") =>
                      i.node \in Nodes /\ BegunAt(v, ip) = {}
                /\ IsEvent(v, ip, "step_end") => i.node \in BegunAt(v, ip)
                /\ i.op = "jump" => BetweenSteps(v, i.target)
                /\ i.op = "route" =>
                      \A r \in DOMAIN i.targets : BetweenSteps(v, i.targets[r])
        /\ BegunAt(v, Len(Code[v]) + 1) = {}
        /\ ~UnderwayAt(v, Len(Code[v]) + 1)
=============================================================================
