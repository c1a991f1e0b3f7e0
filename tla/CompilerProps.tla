---------------------------- MODULE CompilerProps ----------------------------
(***************************************************************************)
(* One compilation as a step, what a stage computes, and what compiled     *)
(* code must be: well formed, free of conflicts, its blocks mergeable.  A  *)
(* stage is an uninterpreted function of the keys it reads, so two         *)
(* executions agree exactly when every key of the final context was        *)
(* computed by the same stages from the same inputs.                       *)
(***************************************************************************)
EXTENDS Compiler, Context

CONSTANTS
    Keys,       \* the context keys the stages are declared over
    Nodes,      \* what may stand in a node list, a block or a route's body
    Routes      \* the names of routes

\* Declarations are over the keys, what a block or a dict holds are nodes
\* again, and the routes of a dict are its keys.
ASSUME NodesTyped ==
    \A n \in Nodes :
        /\ n.kind \in {"stage", "parallel", "dict"}
        /\ n.kind = "stage" => {n.reads, n.writes} \subseteq (SUBSET Keys) \cup {Undeclared}
        /\ n.kind = "parallel" => n.branches \in Seq(Nodes)
        /\ n.kind = "dict" =>
               /\ n.routes \in Seq([route : Routes, body : Seq(Nodes)])
               /\ \A i, j \in DOMAIN n.routes :
                      n.routes[i].route = n.routes[j].route => i = j

\* An empty routing dict compiles to a ROUTE that leads nowhere.
DictsHaveRoutes == \A n \in Nodes : n.kind = "dict" => n.routes # <<>>

\* A stage that stands twice in a block declares what it writes.  (Where another
\* stage has its name, each of its occurrences gets an id of its own.)
RepeatsAreDeclared ==
    \A n \in Nodes : (n.kind = "parallel" /\ n.mode = "parallel") =>
        \A i, j \in DOMAIN n.branches :
            (i # j /\ n.branches[i] = n.branches[j]) =>
                n.branches[i].writes # Undeclared

VARIABLES
    nodes,          \* the list given to Pipeline(...)
    auto,           \* auto_parallel
    out             \* what the compiler returned or raised

vars == <<nodes, auto, out>>

NotCompiled == [err |-> "none yet", code |-> <<>>, table |-> <<>>]

CompilePipeline ==
    /\ out = NotCompiled
    /\ out' = Compile(nodes, auto)
    /\ UNCHANGED <<nodes, auto>>

Init ==
    /\ nodes \in Seq(Nodes)
    /\ auto \in BOOLEAN
    /\ out = NotCompiled

Next == CompilePipeline

Spec == Init /\ [][Next]_vars

Compiled == out # NotCompiled /\ out.err = NoError

-----------------------------------------------------------------------------
(* Values.  An undeclared set stands for every key.                        *)

KeysOf(decl) == IF decl = Undeclared THEN Keys ELSE decl

Initial == [k \in Keys |-> <<"initial", k>>]

\* What a stage writes, from the values it is given.
Patch(fn, values) ==
    [k \in KeysOf(fn.writes) |-> <<fn.id, k, Restrict(values, KeysOf(fn.reads))>>]

-----------------------------------------------------------------------------
(* What the interpreter makes of a CALL and of the branches of a FORK.     *)

RunStage(fn, ctx) == Update(ctx, Patch(fn, ctx.data))

\* The contexts the branches of a FORK give back.
Forked(c, ids, ctx) ==
    [b \in DOMAIN ids |-> RunStage(c.table[ids[b]], Branch(ctx, ids[b]))]

-----------------------------------------------------------------------------
(***************************************************************************)
(* The shape of compiled code: the run ends (every jump and every route    *)
(* goes forward and stays inside the code, so the interpreter's loop never *)
(* meets an index it has left), and each node an instruction names is in   *)
(* the symbol table (interpreter.py looks it up without a default).        *)
(***************************************************************************)
CodeWellFormed ==
    Compiled =>
        \A ip \in DOMAIN out.code :
            LET i == out.code[ip]
                ahead == (ip + 1)..Len(out.code)
            IN  /\ i.op = "jump" => i.target \in ahead
                /\ i.op = "route" => /\ DOMAIN i.targets # {}
                                     /\ Range(i.targets) \subseteq ahead
                /\ i.op = "call" => i.node \in DOMAIN out.table
                /\ i.op = "fork" => Range(i.branches) \subseteq DOMAIN out.table

(***************************************************************************)
(* context.py: two branches writing the same key raise MergeConflictError; *)
(* who is listed first never decides.  Branches that declare what they     *)
(* write, and were compiled, always merge: the check at compile time is    *)
(* as strict as the one at run time.                                       *)
(***************************************************************************)
BlocksMerge ==
    Compiled =>
        \A ip \in DOMAIN out.code :
            LET i == out.code[ip]
                base == Create(Initial)
                results == Forked(out, i.branches, base)
            IN  (i.op = "fork" /\ i.mode = "parallel") =>
                    /\ Merge(base, Reverse(results)) = Merge(base, results)
                    /\ (\A id \in Range(i.branches) :
                            out.table[id].writes # Undeclared)
                        => Merge(base, results) # MergeConflict

(***************************************************************************)
(* auto_parallel=True never turns a list that compiles into a conflict or  *)
(* a misplaced dict.  The one error it does add is the TypeError with      *)
(* which _independent meets a stage that declares only one of reads and    *)
(* writes.                                                                 *)
(***************************************************************************)
AutoAddsNoError ==
    (out # NotCompiled /\ auto) =>
        out.err \in {Compile(nodes, FALSE).err, "TypeError"}

(***************************************************************************)
(* No block that runs its branches together holds two different functions  *)
(* with a common declared write, whatever the functions are called.        *)
(***************************************************************************)
ConflictsCaught ==
    Compiled =>
        \A ip \in DOMAIN out.code : out.code[ip].op = "fork" =>
            \A a, b \in Range(out.code[ip].branches) :
                (/\ a # b
                 /\ ~IsEmptyDecl(out.table[a].writes)
                 /\ ~IsEmptyDecl(out.table[b].writes))
                => out.table[a].writes \cap out.table[b].writes = {}
=============================================================================
