------------------------------ MODULE MCCompiler ------------------------------
(***************************************************************************)
(* Every list of at most MaxNodes nodes over a small stock of stages,      *)
(* Parallel blocks and routing dicts.  The stock holds the cases that      *)
(* decide: three functions that share a __name__ (two of them also the     *)
(* __qualname__), dependent and independent declarations, an empty one, a  *)
(* missing one, half a declaration, a declared conflict and an undeclared  *)
(* one, a repeated branch, a nested dict and an empty route.               *)
(*                                                                         *)
(* And overlapping runs, with a cache, of every list of at most MaxCached  *)
(* nodes over stages that write the same or different keys, none, or do    *)
(* not say, and blocks of them.                                            *)
(***************************************************************************)
EXTENDS Cached

CONSTANTS MaxNodes, MaxCached

Stage(id, name, qualname, reads, writes) ==
    [kind |-> "stage", id |-> id, name |-> name, qualname |-> qualname,
     reads |-> reads, writes |-> writes, input |-> FALSE, output |-> FALSE]

A1 == Stage("A1", "a", "a", {"x"}, {"y"})
A2 == [Stage("A2", "a", "M.a", {"x"}, {"z"}) EXCEPT !.input = TRUE]
A3 == Stage("A3", "a", "M.a", {"y"}, {"y"})
B == [Stage("B", "b", "b", {"z"}, {}) EXCEPT !.output = TRUE]
W == Stage("W", "w", "w", {}, {"x"})
U == Stage("U", "u", "u", Undeclared, Undeclared)
H == Stage("H", "h", "h", Undeclared, {"z"})

Par(branches, mode) ==
    [kind |-> "parallel", branches |-> branches, mode |-> mode]

Dict(body1, body2) ==
    [kind |-> "dict",
     routes |-> <<[route |-> "r1", body |-> body1],
                  [route |-> "r2", body |-> body2]>>]

Stages == {A1, A2, A3, B, W, U, H}

Blocks == {Par(<<A1, A2>>, "parallel"), Par(<<A3, A1>>, "parallel"),
           Par(<<U, A1, A2>>, "fire_forget"), Par(<<A3, A3>>, "parallel"),
           Par(<<W, U>>, "parallel")}

Dicts == {Dict(<<A2>>, <<U>>),
          Dict(<<A1, A2, A3>>, <<Par(<<A2, W>>, "parallel"), B>>),
          Dict(<<U, Dict(<<A1>>, <<B>>)>>, <<W>>),
          Dict(<<A3>>, <<>>)}

\* What is nested in them.
Inner == {Par(<<A2, W>>, "parallel"), Dict(<<A1>>, <<B>>)}

Stock == Stages \cup Blocks \cup Dicts

CachedStock ==
    {W, A1, B, U, Par(<<B, W>>, "parallel"), Par(<<A1, W>>, "parallel"),
     Par(<<W, U>>, "parallel"), Par(<<A1, B>>, "fire_forget")}

Lists(stock, max) == UNION {[1..n -> stock] : n \in 1..max}

MCNodes == Stock \cup Inner \cup CachedStock

ASSUME NodesAreSound == DictsHaveRoutes /\ RepeatsAreDeclared

MCRoutes == {"r1", "r2"}

MCInit ==
    /\ nodes \in Lists(Stock, MaxNodes) \cup Lists(CachedStock, MaxCached)
    /\ auto \in BOOLEAN
    /\ out = NotCompiled
    /\ NotBegun

\* Only the second kind of lists is run.
MCNext ==
    \/ Building
    \/ Len(nodes) <= MaxCached /\ Range(nodes) \subseteq CachedStock /\ Invoke
    \/ Running

MCSpec == MCInit /\ [][MCNext]_cvars

\* The runs have the same input and nothing tells them apart.
MCSymmetry == Permutations(Runs)

MCKeys == {"x", "y", "z"}
=============================================================================
