--------------------------- MODULE CompilerMeaning ---------------------------
(***************************************************************************)
(* What a compiled pipeline must mean, stated over the values the stages   *)
(* produce: the meaning of the list the user wrote, the meaning of the     *)
(* instructions, and that they agree.                                      *)
(***************************************************************************)
EXTENDS CompilerProps

-----------------------------------------------------------------------------
(* The meaning of a node list: run its nodes one after the other, taking   *)
(* any route of a dict.  No folding, no contexts: this is what the user    *)
(* wrote.                                                                  *)

\* Two functions of one block write a common key.
Clash(fns) ==
    \E f, g \in Range(fns) : f # g /\ KeysOf(f.writes) \cap KeysOf(g.writes) # {}

\* Every branch starts from the same values; without a clash, a key is
\* taken from whichever branch writes it.
Together(fns, values) ==
    [k \in Keys |->
        LET writers == {f \in Range(fns) : k \in KeysOf(f.writes)}
        IN  IF writers = {} THEN values[k]
            ELSE Patch(CHOOSE f \in writers : TRUE, values)[k]]

\* What comes out of a node: the values, or the conflict that was raised.  A
\* fire-and-forget block leaves the context of the pipeline alone.
NodeMeaning(node, v) ==
    IF v = MergeConflict THEN v
    ELSE IF node.kind = "stage" THEN [data |-> Over(Patch(node, v.data), v.data)]
    ELSE IF node.mode # "parallel" THEN v
    ELSE IF Clash(node.branches) THEN MergeConflict
    ELSE [data |-> Together(node.branches, v.data)]

\* Of all values that may have come to the node.
Through(node, all) == {NodeMeaning(node, v) : v \in all}

BodyMeaning(body, all) ==
    FoldLeft(LAMBDA vs, node : Through(node, vs), all, body)

\* Any route of a dict may be taken.
RoutesMeaning(dict, all) ==
    UNION {BodyMeaning(dict.routes[r].body, all) : r \in DOMAIN dict.routes}

Meaning(list) ==
    FoldLeft(LAMBDA vs, node :
                 IF node.kind = "dict" THEN RoutesMeaning(node, vs)
                 ELSE Through(node, vs),
             {[data |-> Initial]}, list)

-----------------------------------------------------------------------------
(* The meaning of instructions: what the interpreter computes from them,   *)
(* each stage being run (module Cached has the runs with a cache).         *)

Joined(c, i, ctx) ==
    IF i.mode = "parallel" THEN Merge(ctx, Forked(c, i.branches, ctx)) ELSE ctx

\* Resumed: every checkpoint is one that the run was resumed from.
AtCheckpoint(ctx, resumed) ==
    IF resumed THEN FromSnapshot(Snapshot(ctx), "root", {}) ELSE ctx

\* One instruction; nothing runs after a conflict was raised.
Computed(c, i, ctx, resumed) ==
    IF ctx = MergeConflict THEN ctx
    ELSE IF i.op = "call" THEN RunStage(c.table[i.node], ctx)
    ELSE IF i.op = "fork" THEN Joined(c, i, ctx)
    ELSE IF i.op = "checkpoint" THEN AtCheckpoint(ctx, resumed)
    ELSE ctx

\* Where instruction i at ip leads.
Leads(i, ip) ==
    IF i.op = "jump" THEN {i.target}
    ELSE IF i.op = "route" THEN Range(i.targets)
    ELSE {ip + 1}

\* The contexts with which each instruction, and the end of the code, is
\* reached.  Code only leads forward (CodeWellFormed).
Reached(c, resumed) ==
    LET at[ip \in 1..(Len(c.code) + 1)] ==
            IF ip = 1 THEN {Create(Initial)}
            ELSE UNION {{Computed(c, c.code[j], ctx, resumed) : ctx \in at[j]} :
                           j \in {j \in 1..(ip - 1) : ip \in Leads(c.code[j], j)}}
    IN  at

Outcome(ctx) ==
    IF ctx = MergeConflict THEN MergeConflict ELSE [data |-> ctx.data]

Finals(c, resumed) ==
    {Outcome(ctx) : ctx \in Reached(c, resumed)[Len(c.code) + 1]}

-----------------------------------------------------------------------------
(***************************************************************************)
(* Compiled code computes what the node list says, for every route, also   *)
(* when the run is interrupted and resumed at its checkpoints: no fold of  *)
(* _auto_parallelize changes a value, no back-patched address skips or     *)
(* repeats a stage, no node id of _node_id runs another function that      *)
(* happens to have the same name, and Context.merge raises exactly when    *)
(* two functions of a block have written a common key.                     *)
(***************************************************************************)
CompiledMeansWritten ==
    (Compiled /\ CodeWellFormed) =>
        \A resumed \in BOOLEAN : Finals(out, resumed) = Meaning(nodes)
=============================================================================
