--------------------------- MODULE StreamContract ---------------------------
(***************************************************************************)
(* What Pipeline.stream promises the client that iterates over it: the     *)
(* chunks of every STREAM stage arrive complete and in the order produced, *)
(* the iteration only ends normally after the last of them, and an error   *)
(* of a stage only arrives after the chunks that stage produced before it. *)
(* No queue and no task appears here; Streaming implements it with four    *)
(* kinds of tasks and queues of bounded size.                              *)
(***************************************************************************)
EXTENDS Naturals, Sequences

CONSTANT Stages

VARIABLES
    made,       \* stage -> number of chunks its generator has yielded
    fate,       \* stage -> how its generator ended, or "running"
    broken,     \* stages ended by their timeout or by a callback's exception
    got,        \* stage -> chunks the client has received, in order
    outcome     \* how the iteration ended, or "open"

cvars == <<made, fate, broken, got, outcome>>

Delivered(s) == Len(got[s]) = made[s]

Produce(s) ==
    /\ fate[s] = "running"
    /\ made' = [made EXCEPT ![s] = @ + 1]
    /\ UNCHANGED <<fate, broken, got, outcome>>

Stop(s) ==
    /\ fate[s] = "running"
    /\ \E end \in {"ended", "raised", "cancelled"} :
            fate' = [fate EXCEPT ![s] = end]
    /\ UNCHANGED <<made, broken, got, outcome>>

Break(s) ==
    /\ broken' = broken \cup {s}
    /\ UNCHANGED <<made, fate, got, outcome>>

Deliver(s) ==
    /\ outcome = "open"
    /\ ~Delivered(s)
    /\ got' = [got EXCEPT ![s] = Append(@, Len(@) + 1)]
    /\ UNCHANGED <<made, fate, broken, outcome>>

Complete(s) == fate[s] = "ended" /\ Delivered(s)

Finish(how) ==
    /\ outcome = "open"
    /\ outcome' = how
    /\ UNCHANGED <<made, fate, broken, got>>

Return == Finish("returned") /\ \A s \in Stages : Complete(s)

\* A stage raised, a stage was broken off, or a later stage failed.
Raise ==
    /\ Finish("raised")
    /\ \/ \E s \in Stages : fate[s] = "raised" /\ Delivered(s)
       \/ broken # {}
       \/ \A s \in Stages : Complete(s)

\* The client stops iterating, or is cancelled.
Close == Finish("closed")

Init ==
    /\ made = [s \in Stages |-> 0]
    /\ fate = [s \in Stages |-> "running"]
    /\ broken = {}
    /\ got = [s \in Stages |-> <<>>]
    /\ outcome = "open"

Next ==
    \/ \E s \in Stages : Produce(s) \/ Stop(s) \/ Break(s) \/ Deliver(s)
    \/ Return \/ Raise \/ Close

Spec == Init /\ [][Next]_cvars
=============================================================================
