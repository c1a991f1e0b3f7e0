------------------------------- MODULE Context -------------------------------
(***************************************************************************)
(* Context (context/context.py): the immutable values that stages pass on, *)
(* with the keys written since the last fork.                              *)
(*                                                                         *)
(* A context is [data, written, name]: data is a function from keys to     *)
(* values.  Values are only compared, so the deep copies of snapshot() and *)
(* from_snapshot() are equal to what they copy.                            *)
(***************************************************************************)
EXTENDS Sequences, SequencesExt

MergeConflict == [error |-> "MergeConflictError"]

\* The dict old after old.update(new).
Over(new, old) ==
    [k \in DOMAIN new \cup DOMAIN old |->
        IF k \in DOMAIN new THEN new[k] ELSE old[k]]

Create(initial) == [data |-> initial, written |-> {}, name |-> "root"]

\* update(patch); set(key, value) is update of one key.
Update(ctx, patch) ==
    [data |-> Over(patch, ctx.data), written |-> ctx.written \cup DOMAIN patch,
     name |-> ctx.name]

\* fork(branch_name): the write set starts afresh.
Branch(ctx, name) == [data |-> ctx.data, written |-> {}, name |-> name]

\* Mutant: a later branch takes what an earlier one has written.
Claim_LastWins(acc, branch) ==
    [acc EXCEPT !.data = Over(Restrict(branch.data, branch.written), @),
                !.written = @ \cup branch.written]

\* One branch of a merge: a key seen from a branch of another name is a
\* conflict and keeps the value of the branch that was first.
Claim(acc, branch) ==
    LET clash == {k \in branch.written \cap DOMAIN acc.seen :
                     acc.seen[k] # branch.name}
        taken == branch.written \ clash
    IN  [data |-> Over(Restrict(branch.data, taken), acc.data),
         written |-> acc.written \cup taken,
         seen |-> Over([k \in taken |-> branch.name], acc.seen),
         conflicts |-> acc.conflicts \cup clash]

Merge(base, branches) ==
    LET all == FoldLeft(Claim,
                        [data |-> base.data, written |-> base.written,
                         seen |-> <<>>, conflicts |-> {}],
                        branches)
    IN  IF all.conflicts # {} THEN MergeConflict
        ELSE [data |-> all.data, written |-> all.written, name |-> base.name]

Snapshot(ctx) == ctx.data

FromSnapshot(data, name, written) ==
    [data |-> data, written |-> written, name |-> name]
=============================================================================
