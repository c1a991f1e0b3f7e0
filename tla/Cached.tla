-------------------------------- MODULE Cached --------------------------------
(***************************************************************************)
(* Runs of one compiled pipeline under a CacheMiddleware (runtime/         *)
(* middleware.py): they overlap, and share the cache.  What the cache      *)
(* gives is looked up by __name__ and values, so a call may be answered    *)
(* with what another call stored, in this run or in another one, in a      *)
(* block or outside of it.                                                 *)
(*                                                                         *)
(* A step is what the event loop runs between two awaits: the lookup of a  *)
(* call, the end of its stage, the end of an instruction.  Only CALL and   *)
(* FORK touch contexts, so a run goes from one of them to the next.  There *)
(* are no routes here: a cache refuses the Send that would choose one      *)
(* (CacheRefusesSend of Middleware).  All runs have the same input and     *)
(* begin together: one that comes later waits before its first lookup.     *)
(***************************************************************************)
EXTENDS CompilerMeaning

CONSTANT Runs

VARIABLES
    at,         \* run -> the address it is at; 0 before it has begun, and
                \* behind the code when it has ended
    ctx,        \* run -> its context, or the conflict it ended with
    calls,      \* run -> the stage calls of that instruction, in order
    cache       \* _data of the InMemoryCache: key -> CacheEntry

runs == <<at, ctx, calls, cache>>
cvars == <<vars, runs>>

-----------------------------------------------------------------------------
(* The interpreter.                                                        *)

Instr(r) == out.code[at[r]]

End == Len(out.code) + 1

\* The first instruction from ip on that calls stages.
NextWork(ip) ==
    Min({End} \cup {j \in ip..Len(out.code) : out.code[j].op \in {"call", "fork"}})

\* A call that has yet to look into the cache; has is its context so far.
NewCall(id, has) == [fn |-> out.table[id], has |-> has, phase |-> "asks"]

CallsAt(ip, has) ==
    IF ip = End THEN <<>>
    ELSE LET i == out.code[ip]
         IN  IF i.op = "call" THEN <<NewCall(i.node, has)>>
             ELSE [b \in DOMAIN i.branches |->
                      NewCall(i.branches[b], Branch(has, i.branches[b]))]

Answered(r) == \A b \in DOMAIN calls[r] : calls[r][b].phase = "answered"

\* What the instruction makes of the contexts its calls have given back.
Gathered(r) ==
    LET given == [b \in DOMAIN calls[r] |-> calls[r][b].has]
    IN  IF Instr(r).op = "call" THEN given[1]
        ELSE IF Instr(r).mode = "parallel" THEN Merge(ctx[r], given)
        ELSE ctx[r]

\* On to the next instruction that calls stages; a conflict ends the run.
Advance(r) ==
    LET ip == IF Gathered(r) = MergeConflict THEN End ELSE NextWork(at[r] + 1)
    IN  /\ at[r] \in DOMAIN out.code /\ Answered(r)
        /\ at' = [at EXCEPT ![r] = ip]
        /\ ctx' = [ctx EXCEPT ![r] = Gathered(r)]
        /\ calls' = [calls EXCEPT ![r] = CallsAt(ip, Gathered(r))]
        /\ UNCHANGED <<vars, cache>>

-----------------------------------------------------------------------------
(* CacheMiddleware.__call__ around the stage of call b of run r.           *)

\* _build_key: the name and the values, not who wrote them.
KeyOf(call) == <<call.fn.name, Snapshot(call.has)>>

EntryOf(result) == [value |-> Snapshot(result), written |-> result.written]

\* Mutant: the write set is not restored.
FromCache_Unwritten(entry, has) == FromSnapshot(entry.value, has.name, {})

\* The name is the new call's, values and write set are the stored ones.
FromCache(entry, has) == FromSnapshot(entry.value, has.name, entry.written)

Give(r, b, phase, has) ==
    calls' = [calls EXCEPT ![r][b].phase = phase, ![r][b].has = has]

Hit(r, b) ==
    LET call == calls[r][b]
    IN  /\ call.phase = "asks"
        /\ KeyOf(call) \in DOMAIN cache
        /\ Give(r, b, "answered", FromCache(cache[KeyOf(call)], call.has))
        /\ UNCHANGED <<vars, at, ctx, cache>>

\* There is no entry, or its ttl has passed: the stage runs.
Miss(r, b) ==
    /\ calls[r][b].phase = "asks"
    /\ Give(r, b, "runs", calls[r][b].has)
    /\ UNCHANGED <<vars, at, ctx, cache>>

\* The stage has returned: its result is stored, over what others stored
\* meanwhile, under the key of the context it was called with.
Store(r, b) ==
    LET call == calls[r][b]
        result == RunStage(call.fn, call.has)
    IN  /\ call.phase = "runs"
        /\ cache' = Over(KeyOf(call) :> EntryOf(result), cache)
        /\ Give(r, b, "answered", result)
        /\ UNCHANGED <<vars, at, ctx>>

-----------------------------------------------------------------------------
Unrouted == \A ip \in DOMAIN out.code : out.code[ip].op # "route"

\* Pipeline(...), before its first invoke().
Building == CompilePipeline /\ UNCHANGED runs

Invoke ==
    LET ip == NextWork(1)
    IN  /\ Compiled /\ Unrouted
        /\ \A r \in Runs : at[r] = 0
        /\ at' = [r \in Runs |-> ip]
        /\ calls' = [r \in Runs |-> CallsAt(ip, ctx[r])]
        /\ UNCHANGED <<vars, ctx, cache>>

Running ==
    \E r \in Runs :
        \/ Advance(r)
        \/ \E b \in DOMAIN calls[r] : Hit(r, b) \/ Miss(r, b) \/ Store(r, b)

NotBegun ==
    /\ at = [r \in Runs |-> 0]
    /\ ctx = [r \in Runs |-> Create(Initial)]
    /\ calls = [r \in Runs |-> <<>>]
    /\ cache = <<>>

CachedInit == Init /\ NotBegun

CachedNext == Building \/ Invoke \/ Running

CachedSpec == CachedInit /\ [][CachedNext]_cvars

-----------------------------------------------------------------------------
Ended(r) == at[r] = End

\* No two functions of the pipeline have one __name__.
NamesTell == \A f, g \in Range(out.table) : f.name = g.name => f = g

\* A stage of a joined block is also called outside of blocks.
CalledOutside ==
    \E i, j \in {ip \in DOMAIN out.code : out.code[ip].op \in {"call", "fork"}} :
        /\ out.code[i].op = "call"
        /\ out.code[j].op = "fork" /\ out.code[j].mode = "parallel"
        /\ \E id \in Range(out.code[j].branches) :
               out.table[id] = out.table[out.code[i].node]

(***************************************************************************)
(* A cache changes no value: as long as names tell the functions apart, a  *)
(* run with a cache ends with what the list means, whoever stored what it  *)
(* was given, however runs and branches overlap and whenever entries       *)
(* expire.  Only a block one of whose stages is also called outside of     *)
(* blocks may raise a conflict instead: the entry holds the write set of   *)
(* the call that stored it (see CachedBranchesMerge).                      *)
(***************************************************************************)
CachedMeansWritten ==
    \A r \in Runs : (Ended(r) /\ NamesTell) =>
        Outcome(ctx[r]) \in
            Meaning(nodes) \cup (IF CalledOutside THEN {MergeConflict} ELSE {})

(***************************************************************************)
(* test_middleware.py:61: a cached stage's writes merge correctly when it  *)
(* is used as a Parallel branch.  (A result stored by a call whose context *)
(* had more keys written makes the branch claim these, and the merge       *)
(* raises a MergeConflictError the list does not mean.)                    *)
(***************************************************************************)
CachedBranchesMerge ==
    \A r \in Runs : (Ended(r) /\ NamesTell /\ ctx[r] = MergeConflict) =>
        MergeConflict \in Meaning(nodes)
=============================================================================
