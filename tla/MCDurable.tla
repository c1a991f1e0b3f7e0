------------------------------ MODULE MCDurable ------------------------------
(***************************************************************************)
(* Small instances of durable execution over code that the model of the    *)
(* compiler produces.                                                      *)
(***************************************************************************)
EXTENDS DurableProps, SequencesExt

CONSTANTS Undeclared, NoError

C == INSTANCE Compiler

Stage(id) ==
    [kind |-> "stage", id |-> id, name |-> id, qualname |-> id,
     reads |-> Undeclared, writes |-> Undeclared,
     input |-> id = "q", output |-> FALSE]

Par(branches, mode) ==
    [kind |-> "parallel", branches |-> branches, mode |-> mode]

Dict(body1, body2) ==
    [kind |-> "dict",
     routes |-> <<[route |-> "r1", body |-> body1],
                  [route |-> "r2", body |-> body2]>>]

CodeOf(list) == C!Compile(list, TRUE).code

\* A router q, a joined block, a fire-and-forget block and plain stages.
Routed == <<Stage("s"), Stage("q"),
            Dict(<<Stage("a"), Par(<<Stage("a"), Stage("b")>>, "fire_forget")>>,
                 <<Par(<<Stage("a"), Stage("b")>>, "parallel"), Stage("s")>>)>>

Straight == <<Stage("s"), Stage("a"), Stage("b")>>

Joined == <<Stage("s"), Par(<<Stage("a"), Stage("b")>>, "parallel"), Stage("b")>>

MCNodes == {<<n, 1>> : n \in {"s", "q", "a", "b"}}

MCOutcomes == [n \in MCNodes |-> IF n[1] = "q" THEN {"r1", "r2"} ELSE {NoRoute}]

MCOutcomesLax ==
    [n \in MCNodes |->
        IF n[1] = "q" THEN {"r1", "r2", "r3", NoRoute} ELSE {NoRoute}]

MCRoutes == {"r1", "r2", "r3"}

\* A definition that only names another one: TLC evaluates that one once,
\* and a substituted constant's own definition at every use.
RoutedCode == 1 :> CodeOf(Routed)
JoinedCode == 1 :> CodeOf(Joined)
TwoCodes == 1 :> CodeOf(Straight) @@ 2 :> CodeOf(Routed)
CodeRouted == RoutedCode
CodeJoined == JoinedCode
CodeTwo == TwoCodes

\* The smallest set of configurations that LegalClosed allows.
\* (every step goes forward, so one round per instruction is enough).
Reach(v) ==
    FoldLeft(LAMBDA ks, i : ks \cup UNION {After(v, k) : k \in ks},
             {Entry}, Code[v])

Reachable == IF Versions = {1} THEN 1 :> Reach(1)
             ELSE 1 :> Reach(1) @@ 2 :> Reach(2)
MCLegal == Reachable

\* What the theorems about LegalRuns and CallIsCheckpointed assume of code,
\* for the code of this run.
ASSUME SendsRouted == SendsAreRouted
ASSUME CallsCheckpointed == CallsAreCheckpointed

OnePipe == [c \in Calls |-> CHOOSE p \in Pipes : TRUE]
EachItsPipe == CHOOSE f \in [Calls -> Pipes] : \A c, d \in Calls : f[c] = f[d] => c = d
AllDurable == [p \in Pipes |-> TRUE]
OneDurable == [p \in Pipes |-> p = CHOOSE q \in Pipes : TRUE]
\* Callers of one Pipeline, runs and inputs are interchangeable.
MCSymmetry ==
    Permutations(Calls) \cup Permutations(Runs) \cup Permutations(Inputs)

NoSteps == {}
FromA == {<<"a", 1>>, <<"zz", 1>>}
=============================================================================
