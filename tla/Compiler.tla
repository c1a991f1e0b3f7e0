------------------------------ MODULE Compiler ------------------------------
(***************************************************************************)
(* The compiler of fluxio: a list of pipeline nodes becomes a flat         *)
(* sequence of instructions and a symbol table (compiler/compiler.py).     *)
(*                                                                         *)
(* A node is one of                                                        *)
(*   [kind |-> "stage", id, name, qualname, reads, writes, input, output]  *)
(*       an @stage function: id is its identity, name / qualname its       *)
(*       __name__ / __qualname__, reads / writes its declared key sets or  *)
(*       Undeclared, input / output whether it has a schema;               *)
(*   [kind |-> "parallel", branches, mode]      a Parallel([...]) block;   *)
(*   [kind |-> "dict", routes]                  a routing dict: a sequence *)
(*       of [route, body] in insertion order, body a sequence of nodes.    *)
(*                                                                         *)
(* Instructions are numbered from 1 (the code numbers them from 0).  The   *)
(* pipeline version is a hash of the instructions; the instructions        *)
(* themselves stand for it.                                                *)
(***************************************************************************)
EXTENDS Naturals, Sequences, SequencesExt, FiniteSetsExt

CONSTANTS
    Undeclared,     \* reads= or writes= left at None
    NoError         \* compilation has not raised

ASSUME NoErrorIsNone ==
    NoError \notin {"NotAStage", "WriteConflict", "EmptyRoute", "DictFirst", "TypeError"}

-----------------------------------------------------------------------------
(* Instructions (compiler/bytecode.py).                                    *)

Emit(event, node) == [op |-> "emit", event |-> event, node |-> node]
EmitPipeline(event) == [op |-> "emit", event |-> event]
EmitBranch(ids) == [op |-> "emit", event |-> "branch", branches |-> ids]
Checkpoint(node) == [op |-> "checkpoint", node |-> node]
ValidateInput(node) == [op |-> "validate_input", node |-> node]
ValidateOutput(node) == [op |-> "validate_output", node |-> node]
Call(node) == [op |-> "call", node |-> node]
Fork(ids, mode) == [op |-> "fork", branches |-> ids, mode |-> mode]
Join == [op |-> "join"]
Route(targets) == [op |-> "route", targets |-> targets]
Jump(target) == [op |-> "jump", target |-> target]

-----------------------------------------------------------------------------
(* Errors.  Each pass carries a record with a field err, the exception     *)
(* raised or NoError; what an exception interrupts is left as it was.      *)

Raise(st, err) == [st EXCEPT !.err = err]

Then(st, Step(_)) == IF st.err = NoError THEN Step(st) ELSE st

-----------------------------------------------------------------------------
(* Auto-parallelism: consecutive independent stages become one Parallel.   *)

IsDict(nodes, i) == i \in DOMAIN nodes /\ nodes[i].kind = "dict"

IsEmptyDecl(decl) == decl = Undeclared \/ decl = {}

\* Mutant: the write-write intersection is forgotten.
IndependentOf_NoWriteWrite(existing, candidate) ==
    IF IsEmptyDecl(existing.reads) /\ IsEmptyDecl(existing.writes) THEN "no"
    ELSE IF Undeclared \in {existing.writes, candidate.reads} THEN "TypeError"
    ELSE IF existing.writes \cap candidate.reads # {} THEN "no"
    ELSE "yes"

(***************************************************************************)
(* One round of the loop of _independent: "no" refuses the fold, "yes"     *)
(* lets the loop go on, and "TypeError" is what `&` raises on None.  The   *)
(* three intersections are evaluated left to right and short-circuit.      *)
(***************************************************************************)
IndependentOf(existing, candidate) ==
    IF IsEmptyDecl(existing.reads) /\ IsEmptyDecl(existing.writes) THEN "no"
    ELSE IF Undeclared \in {existing.writes, candidate.reads} THEN "TypeError"
    ELSE IF existing.writes \cap candidate.reads # {} THEN "no"
    ELSE IF Undeclared \in {candidate.writes, existing.reads} THEN "TypeError"
    ELSE IF \/ candidate.writes \cap existing.reads # {}
            \/ existing.writes \cap candidate.writes # {} THEN "no"
    ELSE "yes"

\* The first round that does not say "yes" decides.
Independent(group, candidate) ==
    IF IsEmptyDecl(candidate.reads) /\ IsEmptyDecl(candidate.writes) THEN "no"
    ELSE FoldLeft(LAMBDA verdict, existing :
                      IF verdict = "yes" THEN IndependentOf(existing, candidate)
                      ELSE verdict,
                  "yes", group)

\* The group of stages collected so far becomes one node of the result.
Flush(acc) ==
    LET node == IF Len(acc.group) > 1
                THEN [kind |-> "parallel", branches |-> acc.group,
                      mode |-> "parallel"]
                ELSE acc.group[1]
    IN  IF acc.group = <<>> THEN acc
        ELSE [acc EXCEPT !.out = Append(@, node), !.group = <<>>]

\* A Parallel, a dict and the router in front of a dict are left alone.
Foldable(nodes, i) == nodes[i].kind = "stage" /\ ~IsDict(nodes, i + 1)

Verdict(group, candidate) ==
    IF group = <<>> THEN "no" ELSE Independent(group, candidate)

Placed(acc, node, verdict) ==
    IF verdict = "TypeError" THEN Raise(acc, verdict)
    ELSE IF verdict = "yes" THEN [acc EXCEPT !.group = Append(@, node)]
    ELSE [Flush(acc) EXCEPT !.group = <<node>>]

Visit(nodes, i, acc) ==
    IF Foldable(nodes, i)
    THEN Placed(acc, nodes[i], Verdict(acc.group, nodes[i]))
    ELSE [Flush(acc) EXCEPT !.out = Append(@, nodes[i])]

AutoParallelize(nodes) ==
    Then(FoldLeft(LAMBDA acc, i : Then(acc, LAMBDA a : Visit(nodes, i, a)),
                  [err |-> NoError, out |-> <<>>, group |-> <<>>],
                  [i \in DOMAIN nodes |-> i]),
         Flush)

Normalize(nodes, auto) ==
    IF auto THEN AutoParallelize(nodes)
    ELSE [err |-> NoError, out |-> nodes, group |-> <<>>]

-----------------------------------------------------------------------------
(* Compilation.  st = [err, code, table]: the error raised or NoError, the *)
(* instructions so far, and the symbol table, a function from node ids.    *)
(* A node id is <<name, n>>: n = 1 for the bare name or qualified name,    *)
(* n > 1 for the "name#n" fallback.                                        *)

Emitted(st, instructions) == [st EXCEPT !.code = @ \o instructions]

\* Mutant: a qualified name already in the table is taken again.
NodeId_QualnameTaken(fn, table) ==
    LET plain == <<fn.name, 1>>
    IN  IF plain \notin DOMAIN table THEN plain
        ELSE IF table[plain] = fn THEN plain
        ELSE <<fn.qualname, 1>>

NodeId(fn, table) ==
    LET plain == <<fn.name, 1>>
        qualified == <<fn.qualname, 1>>
        free == {n \in 2..(Cardinality(DOMAIN table) + 2) :
                    <<fn.name, n>> \notin DOMAIN table}
    IN  IF plain \notin DOMAIN table THEN plain
        ELSE IF table[plain] = fn THEN plain
        ELSE IF fn.qualname # fn.name /\ qualified \notin DOMAIN table
             THEN qualified
        ELSE <<fn.name, Min(free)>>

\* _register refuses what has no stage marker: a dict or a nested Parallel.
Register(fn, st) ==
    LET id == NodeId(fn, st.table)
    IN  IF fn.kind # "stage" THEN Raise(st, "NotAStage")
        ELSE [st EXCEPT !.table = [k \in {id} \cup DOMAIN @ |->
                                      IF k = id THEN fn ELSE @[k]]]

StageCode(fn, id) ==
    <<Checkpoint(id), Emit("step_start", id)>>
    \o (IF fn.input THEN <<ValidateInput(id)>> ELSE <<>>)
    \o <<Call(id)>>
    \o (IF fn.output THEN <<ValidateOutput(id)>> ELSE <<>>)
    \o <<Emit("step_end", id)>>

CompileStage(fn, st) ==
    Then(Register(fn, st),
         LAMBDA new : Emitted(new, StageCode(fn, NodeId(fn, st.table))))

\* Mutant: declared writes are keyed by the bare name of the branch.
WriteConflict_ByName(branches, ids) ==
    \E i, j \in DOMAIN branches :
        /\ branches[i].name # branches[j].name
        /\ ~IsEmptyDecl(branches[i].writes)
        /\ ~IsEmptyDecl(branches[j].writes)
        /\ branches[i].writes \cap branches[j].writes # {}

\* declared_writes is a dict keyed by node id: a repeated id is one entry.
WriteConflict(branches, ids) ==
    \E i, j \in DOMAIN branches :
        /\ ids[i] # ids[j]
        /\ ~IsEmptyDecl(branches[i].writes)
        /\ ~IsEmptyDecl(branches[j].writes)
        /\ branches[i].writes \cap branches[j].writes # {}

BlockCode(ids, mode) ==
    <<EmitBranch(ids), Fork(ids, mode)>>
    \o (IF mode = "parallel" THEN <<Join>> ELSE <<>>)

\* The branches registered one after the other, with the ids they got.
RegisterBranch(acc, fn) ==
    IF acc.st.err # NoError THEN acc
    ELSE [st |-> Register(fn, acc.st),
          ids |-> Append(acc.ids, NodeId(fn, acc.st.table))]

EmitBlock(block, all) ==
    Then(all.st, LAMBDA st :
        IF WriteConflict(block.branches, all.ids)
        THEN Raise(st, "WriteConflict")
        ELSE Emitted(st, BlockCode(all.ids, block.mode)))

CompileParallel(block, st) ==
    EmitBlock(block, FoldLeft(RegisterBranch, [st |-> st, ids |-> <<>>],
                              block.branches))

\* The nodes of one route: only stages and Parallel blocks are understood.
BodyNode(node, st) ==
    IF node.kind = "parallel" THEN CompileParallel(node, st)
    ELSE CompileStage(node, st)

NormalBody(normal, st) ==
    IF normal.err # NoError THEN Raise(st, normal.err)
    ELSE FoldLeft(LAMBDA acc, node : Then(acc, LAMBDA a : BodyNode(node, a)),
                  st, normal.out)

CompileBody(body, auto, st) ==
    IF body = <<>> THEN Raise(st, "EmptyRoute")
    ELSE NormalBody(Normalize(body, auto), st)

\* Mutant: the jumps out of the routes land on the last of them.
PatchRoutes_OffByOne(st, hole, starts, jumps) ==
    [st EXCEPT !.code =
        [i \in DOMAIN @ |->
            IF i = hole THEN Route(starts)
            ELSE IF i \in jumps THEN Jump(Len(@))
            ELSE @[i]]]

\* Back-patching: the ROUTE's targets and the jumps past the last route.
PatchRoutes(st, hole, starts, jumps) ==
    [st EXCEPT !.code =
        [i \in DOMAIN @ |->
            IF i = hole THEN Route(starts)
            ELSE IF i \in jumps THEN Jump(Len(@) + 1)
            ELSE @[i]]]

\* acc = [st, starts, jumps]: where the routes start, where their jumps are.
AddRoute(acc, route, body) ==
    [st |-> Emitted(body, <<Jump(0)>>),
     starts |-> [r \in {route} \cup DOMAIN acc.starts |->
                    IF r = route THEN Len(acc.st.code) + 1 ELSE acc.starts[r]],
     jumps |-> acc.jumps \cup {Len(body.code) + 1}]

CompileRoutes(dict, auto, st) ==
    FoldLeft(LAMBDA acc, r :
                 IF acc.st.err # NoError THEN acc
                 ELSE AddRoute(acc, r.route, CompileBody(r.body, auto, acc.st)),
             [st |-> Emitted(st, <<Route(<<>>)>>), starts |-> <<>>, jumps |-> {}],
             dict.routes)

EmitRoutes(hole, all) ==
    Then(all.st, LAMBDA st : PatchRoutes(st, hole, all.starts, all.jumps))

CompileRouter(router, dict, auto, st) ==
    Then(CompileStage(router, st), LAMBDA entry :
        EmitRoutes(Len(entry.code) + 1, CompileRoutes(dict, auto, entry)))

CompileNode(top, i, auto, st) ==
    IF top[i].kind = "parallel" THEN CompileParallel(top[i], st)
    ELSE IF top[i].kind = "dict"
         THEN IF i > 1 /\ top[i - 1].kind = "stage"
              THEN st            \* compiled with its router
              ELSE Raise(st, "DictFirst")
    ELSE IF IsDict(top, i + 1)
         THEN CompileRouter(top[i], top[i + 1], auto, st)
    ELSE CompileStage(top[i], st)

Start == [err |-> NoError, code |-> <<EmitPipeline("pipeline_start")>>,
          table |-> <<>>]

CompileNormal(normal, auto) ==
    IF normal.err # NoError THEN Raise(Start, normal.err)
    ELSE Then(FoldLeft(LAMBDA acc, i :
                           Then(acc, LAMBDA a : CompileNode(normal.out, i, auto, a)),
                       Start, [i \in DOMAIN normal.out |-> i]),
              LAMBDA st : Emitted(st, <<EmitPipeline("pipeline_end")>>))

Compile(nodes, auto) == CompileNormal(Normalize(nodes, auto), auto)
=============================================================================
