--------------------------- MODULE DurableContract ---------------------------
(***************************************************************************)
(* What durable execution promises its clients (docs/en/guides/durable.md),*)
(* without instructions, versions, locks or phases.  Values are kept safe  *)
(* for a run and worked on by calls.  They only flow from what is safe     *)
(* into a call that continues the run, grow there by one stage (or block)  *)
(* at a time, and flow back as a whole: a call never continues from        *)
(* anything but what is safe at that moment, a fresh durable call starts   *)
(* with nothing safe, and a call that is not durable changes nothing.      *)
(* Work may be lost at any time; what is safe may be lost, not altered.    *)
(***************************************************************************)
EXTENDS Sequences

CONSTANTS Calls, Runs, Nodes, Sources, Nothing

VARIABLES
    safe,       \* run -> [source, trail], or Nothing
    work        \* call -> [run, durable, source, trail], or Nothing

Value(w) == [source |-> w.source, trail |-> w.trail]

Without(r) == [safe EXCEPT ![r] = Nothing]

With(w) == [safe EXCEPT ![w.run] = Value(w)]

Begins(c, w) == work' = [work EXCEPT ![c] = w]

Ends(c) == work' = [work EXCEPT ![c] = Nothing]

Fresh(c) ==
    \E r \in Runs, s \in Sources, durable \in BOOLEAN :
        /\ Begins(c, [run |-> r, durable |-> durable, source |-> s, trail |-> <<>>])
        /\ safe' = IF durable THEN Without(r) ELSE safe

Continue(c) ==
    \E r \in Runs, durable \in BOOLEAN :
        /\ safe[r] # Nothing
        /\ Begins(c, [run |-> r, durable |-> durable,
                      source |-> safe[r].source, trail |-> safe[r].trail])
        /\ UNCHANGED safe

Extend(c) ==
    /\ work[c] # Nothing
    /\ \E nodes \in SUBSET Nodes :
          work' = [work EXCEPT ![c].trail = Append(@, nodes)]
    /\ UNCHANGED safe

Save(c) ==
    /\ work[c] # Nothing /\ work[c].durable
    /\ safe' = With(work[c])
    /\ UNCHANGED work

\* Completed, failed or cancelled; a store operation may have been under way.
Stop(c) ==
    /\ work[c] # Nothing
    /\ Ends(c)
    /\ \/ UNCHANGED safe
       \/ work[c].durable /\ safe' \in {With(work[c]), Without(work[c].run)}

Lose(r) == safe' = Without(r) /\ UNCHANGED work

\* A process dies, and a store in its memory with it.
Crash ==
    /\ \E dead \in SUBSET Calls :
          work' = [c \in Calls |-> IF c \in dead THEN Nothing ELSE work[c]]
    /\ safe' \in {safe, [r \in Runs |-> Nothing]}

Init ==
    /\ safe = [r \in Runs |-> Nothing]
    /\ work = [c \in Calls |-> Nothing]

Next ==
    \/ \E c \in Calls : Fresh(c) \/ Continue(c) \/ Extend(c) \/ Save(c) \/ Stop(c)
    \/ \E r \in Runs : Lose(r)
    \/ Crash

Spec == Init /\ [][Next]_<<safe, work>>
=============================================================================
