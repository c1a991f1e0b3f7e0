-------------------------- MODULE CompilerAutoProofs --------------------------
(***************************************************************************)
(* Auto-parallelism, for every list of nodes: what the fold puts together  *)
(* may run together, so folding adds no error but the TypeError that       *)
(* `_independent` raises itself.                                           *)
(***************************************************************************)
EXTENDS CompilerProofs

-----------------------------------------------------------------------------
(* What _independent promises of a group.                                  *)

\* Neither stage reads or writes what the other one writes.
Apart(f, g) ==
    /\ Undeclared \notin {f.reads, f.writes, g.reads, g.writes}
    /\ f.writes \cap g.reads = {}
    /\ g.writes \cap f.reads = {}
    /\ f.writes \cap g.writes = {}

LEMMA YesMeansApart ==
    ASSUME NEW f, NEW g, IndependentOf(f, g) = "yes"
    PROVE  Apart(f, g) /\ Apart(g, f)
BY DEF IndependentOf, Apart

LEMMA VerdictsAre ==
    ASSUME NEW f, NEW g
    PROVE  IndependentOf(f, g) \in {"yes", "no", "TypeError"}
BY Zenon DEF IndependentOf

LEMMA IndependentMeansApart ==
    ASSUME NEW group, IsSeq(group), NEW c
    PROVE  /\ Independent(group, c) \in {"yes", "no", "TypeError"}
           /\ Independent(group, c) = "yes" =>
                  \A i \in 1..Len(group) : Apart(group[i], c) /\ Apart(c, group[i])
<1> DEFINE n == Len(group)
<1>1. n \in Nat /\ DOMAIN group = 1..n
  BY SeqIs
<1> HIDE DEF n
<1>2. PICK h : /\ Rounds(h, "verdict", c, "yes", group, n)
               /\ VerdictLoop(c, "yes", group) = h[n]
  BY <1>1, VerdictRounds
<1> DEFINE OK(k) == /\ h[k] \in {"yes", "no", "TypeError"}
                    /\ h[k] = "yes" =>
                           \A i \in 1..k : Apart(group[i], c) /\ Apart(c, group[i])
           S == {k \in 0..n : OK(k)}
<1>3. 0 \in S
  BY <1>1, <1>2 DEF Rounds
<1>4. ASSUME NEW k \in 0..(n - 1), k \in S PROVE k + 1 \in S
  <2>1. k + 1 \in 1..n /\ (k + 1) - 1 = k /\ \A i \in 1..(k + 1) : i \in 1..k \/ i = k + 1
    BY <1>1
  <2>2. h[k + 1] = Round("verdict", c, h[k], group[k + 1])
    BY <1>2, <2>1 DEF Rounds
  <2>3. h[k + 1] = IF h[k] = "yes" THEN IndependentOf(group[k + 1], c) ELSE h[k]
    BY <2>2, Zenon DEF Round
  <2>4. OK(k)
    BY <1>4
  <2>5. OK(k + 1)
    <3>1. CASE h[k] = "yes"
      BY <2>1, <2>3, <2>4, <3>1, YesMeansApart, VerdictsAre
    <3>2. CASE h[k] # "yes"
      BY <2>3, <2>4, <3>2
    <3> QED
      BY <3>1, <3>2
  <2> QED
    BY <1>1, <2>1, <2>5
<1> HIDE DEF S
<1>5. n \in S
  BY <1>1, <1>3, <1>4, UpTo
<1>6. OK(n)
  BY <1>5 DEF S
<1>7. Independent(group, c) \in {"no", VerdictLoop(c, "yes", group)}
  BY Zenon DEF Independent, VerdictLoop
<1> QED
  BY <1>2, <1>6, <1>7 DEF n

-----------------------------------------------------------------------------
(* The fold, round by round.                                               *)

\* Stages that may run together.
GroupOK(group) ==
    /\ group \in Seq(Nodes)
    /\ \A i \in 1..Len(group) : group[i].kind = "stage"
    /\ \A i, j \in 1..Len(group) : i # j => Apart(group[i], group[j])

\* The accumulator after k nodes: the router of a dict is in no group.
FoldOK(acc, list, k) ==
    /\ Folding(acc)
    /\ acc.err \in {NoError, "TypeError"}
    /\ acc.err = NoError =>
           /\ GroupOK(acc.group)
           /\ acc.group # <<>> => ~IsDict(list, k + 1)

Block(group) == [kind |-> "parallel", branches |-> group, mode |-> "parallel"]

\* What became of out when the group was flushed.
Flushed(new, acc) ==
    \/ acc.group = <<>> /\ new = acc.out
    \/ Len(acc.group) = 1 /\ new = Append(acc.out, acc.group[1])
    \/ Len(acc.group) > 1 /\ new = Append(acc.out, Block(acc.group))

LEMMA FlushIs ==
    ASSUME NEW acc, Folding(acc)
    PROVE  /\ Flush(acc) = [err |-> acc.err, out |-> Flush(acc).out, group |-> <<>>]
           /\ Flushed(Flush(acc).out, acc)
<1> DEFINE node == IF Len(acc.group) > 1
                   THEN [kind |-> "parallel", branches |-> acc.group, mode |-> "parallel"]
                   ELSE acc.group[1]
<1>1. Flush(acc) = IF acc.group = <<>> THEN acc
                   ELSE [acc EXCEPT !.out = Append(@, node), !.group = <<>>]
  BY Zenon DEF Flush
<1>2. CASE acc.group = <<>>
  BY <1>1, <1>2 DEF Folding, Flushed
<1>3. CASE acc.group # <<>>
  <2>1. Len(acc.group) \in Nat \ {0}
    BY <1>3 DEF Folding
  <2>2. \/ Len(acc.group) = 1 /\ node = acc.group[1]
        \/ Len(acc.group) > 1 /\ node = Block(acc.group)
    <3>1. Len(acc.group) = 1 \/ Len(acc.group) > 1
      <4>1. \A n \in Nat \ {0} : n = 1 \/ n > 1
        OBVIOUS
      <4> QED
        BY <2>1, <4>1, Zenon
    <3>2. ~(1 > 1)
      OBVIOUS
    <3> QED
      BY <3>1, <3>2, Zenon DEF Block
  <2> HIDE DEF node
  <2>3. Flush(acc) = [err |-> acc.err, out |-> Append(acc.out, node), group |-> <<>>]
    BY <1>1, <1>3 DEF Folding
  <2> QED
    BY <2>2, <2>3 DEF Flushed
<1> QED
  BY <1>2, <1>3

LEMMA GroupGrows ==
    ASSUME NEW group, GroupOK(group), NEW x \in Nodes, x.kind = "stage",
           \A i \in 1..Len(group) : Apart(group[i], x) /\ Apart(x, group[i])
    PROVE  GroupOK(Append(group, x))
<1> DEFINE new == Append(group, x)
           n == Len(group)
<1>1. n \in Nat /\ new \in Seq(Nodes) /\ IsSeq(group)
  BY DEF GroupOK, IsSeq
<1>2. Len(new) = n + 1 /\ (\A i \in 1..n : new[i] = group[i]) /\ new[n + 1] = x
  BY <1>1, AppendIs
<1>3. \A i \in 1..(n + 1) : i \in 1..n \/ i = n + 1
  BY <1>1
<1> HIDE DEF new, n
<1>4. \A i \in 1..n : group[i].kind = "stage" /\ Apart(group[i], x) /\ Apart(x, group[i])
  BY DEF GroupOK, n
<1>5. ASSUME NEW i \in 1..(n + 1), NEW j \in 1..(n + 1), i # j PROVE Apart(new[i], new[j])
  <2>1. CASE i \in 1..n /\ j \in 1..n
    BY <1>2, <1>5, <2>1 DEF GroupOK, n
  <2>2. CASE i = n + 1
    BY <1>2, <1>3, <1>4, <1>5, <2>2
  <2>3. CASE j = n + 1
    BY <1>2, <1>3, <1>4, <1>5, <2>3
  <2> QED
    BY <1>3, <2>1, <2>2, <2>3
<1>6. \A i \in 1..(n + 1) : new[i].kind = "stage"
  BY <1>2, <1>3, <1>4
<1> QED
  BY <1>1, <1>2, <1>5, <1>6 DEF GroupOK, new

LEMMA GroupStarts ==
    /\ GroupOK(<<>>)
    /\ \A x \in Nodes : x.kind = "stage" => GroupOK(<<x>>)
<1>1. GroupOK(<<>>)
  <2>1. <<>> \in Seq(Nodes) /\ 1..Len(<<>>) = {}
    OBVIOUS
  <2> QED
    BY <2>1 DEF GroupOK
<1>2. ASSUME NEW x \in Nodes, x.kind = "stage" PROVE GroupOK(<<x>>)
  <2>1. <<x>> \in Seq(Nodes) /\ Len(<<x>>) = 1 /\ <<x>>[1] = x
    OBVIOUS
  <2>2. \A i \in 1..1 : i = 1
    OBVIOUS
  <2> HIDE DEF GroupOK
  <2> QED
    BY <1>2, <2>1, <2>2 DEF GroupOK
<1> QED
  BY <1>1, <1>2

\* One node is put in the group, starts another one, or stands for itself.
Visited(new, acc, x) ==
    \/ /\ acc.group # <<>> /\ x.kind = "stage"
       /\ new.out = acc.out /\ new.group = Append(acc.group, x)
    \/ x.kind = "stage" /\ Flushed(new.out, acc) /\ new.group = <<x>>
    \/ /\ x.kind = "dict" => acc.group = <<>>
       /\ \E out1 : Flushed(out1, acc) /\ new.out = Append(out1, x)
       /\ new.group = <<>>

LEMMA VisitIs ==
    ASSUME NEW list \in Seq(Nodes), NEW k \in Nat, k + 1 \in 1..Len(list),
           NEW acc, FoldOK(acc, list, k), acc.err = NoError
    PROVE  LET new == Visit(list, k + 1, acc)
           IN  /\ FoldOK(new, list, k + 1)
               /\ new.err = NoError => Visited(new, acc, list[k + 1])
<1> DEFINE x == list[k + 1]
           new == Visit(list, k + 1, acc)
           verdict == Verdict(acc.group, x)
           flushed == Flush(acc)
<1>1. Folding(acc) /\ x \in Nodes /\ GroupOK(acc.group) /\ DOMAIN list = 1..Len(list)
  BY DEF FoldOK
<1>2. Folding(new)
  BY <1>1, VisitFolds
<1>3. new = IF Foldable(list, k + 1)
            THEN Placed(acc, x, verdict)
            ELSE [flushed EXCEPT !.out = Append(@, x)]
  BY Zenon DEF Visit
<1>4. /\ flushed = [err |-> NoError, out |-> flushed.out, group |-> <<>>]
      /\ Flushed(flushed.out, acc)
  BY <1>1, FlushIs
<1>5. /\ verdict \in {"yes", "no", "TypeError"}
      /\ verdict = "yes" =>
             /\ acc.group # <<>>
             /\ \A i \in 1..Len(acc.group) : Apart(acc.group[i], x) /\ Apart(x, acc.group[i])
  <2>1. IsSeq(acc.group)
    BY <1>1 DEF Folding, IsSeq
  <2> QED
    BY <2>1, IndependentMeansApart DEF Verdict
<1> HIDE DEF new, verdict, flushed, x
<1>6. CASE ~Foldable(list, k + 1)
  <2> DEFINE out1 == flushed.out
  <2>0. flushed = [err |-> NoError, out |-> out1, group |-> <<>>]
    BY <1>4
  <2> HIDE DEF out1
  <2>1. new = [err |-> NoError, out |-> Append(out1, x), group |-> <<>>]
    BY <1>3, <2>0, <1>6
  <2>2. x.kind = "dict" => acc.group = <<>>
    BY <1>1 DEF FoldOK, IsDict, x
  <2>3. Visited(new, acc, x)
    BY <1>4, <2>1, <2>2 DEF Visited, out1
  <2>4. FoldOK(new, list, k + 1)
    BY <1>2, <2>1, GroupStarts DEF FoldOK
  <2> QED
    BY <2>3, <2>4 DEF new, x
<1>7. CASE Foldable(list, k + 1)
  <2>1. x.kind = "stage" /\ ~IsDict(list, (k + 1) + 1)
    BY <1>7 DEF Foldable, x
  <2>2. new = Placed(acc, x, verdict)
    BY <1>3, <1>7
  <2>3. CASE verdict = "TypeError"
    <3>1. new = [err |-> "TypeError", out |-> acc.out, group |-> acc.group]
      BY <1>1, <2>2, <2>3 DEF Placed, Raise, Folding
    <3>2. FoldOK(new, list, k + 1) /\ new.err # NoError
      BY <1>2, <3>1, NoErrorIsNone DEF FoldOK
    <3> QED
      BY <3>2 DEF new, x
  <2>4. CASE verdict = "yes"
    <3>1. new = [err |-> NoError, out |-> acc.out, group |-> Append(acc.group, x)]
      BY <1>1, <2>2, <2>4 DEF Placed, Folding
    <3>2. GroupOK(Append(acc.group, x))
      BY <1>1, <1>5, <2>1, <2>4, GroupGrows
    <3>3. FoldOK(new, list, k + 1)
      BY <1>2, <2>1, <3>1, <3>2 DEF FoldOK
    <3>4. Visited(new, acc, x)
      BY <1>5, <2>1, <2>4, <3>1 DEF Visited
    <3> QED
      BY <3>3, <3>4 DEF new, x
  <2>5. CASE verdict = "no"
    <3>1. new = [err |-> NoError, out |-> flushed.out, group |-> <<x>>]
      BY <1>4, <2>2, <2>5 DEF Placed, flushed
    <3>2. FoldOK(new, list, k + 1)
      BY <1>1, <1>2, <2>1, <3>1, GroupStarts DEF FoldOK
    <3>3. Visited(new, acc, x)
      BY <1>4, <2>1, <3>1 DEF Visited
    <3> QED
      BY <3>2, <3>3 DEF new, x
  <2> QED
    BY <1>5, <2>3, <2>4, <2>5
<1> QED
  BY <1>6, <1>7

-----------------------------------------------------------------------------
(* Two compilations of one list, with and without auto_parallel.           *)

\* The states of the two: the same error, and until then the same table.
Same(s, t) ==
    /\ Shaped(s)
    /\ \/ s.err = "TypeError"
       \/ /\ Shaped(t) /\ s.err = t.err
          /\ s.err = NoError => s.table = t.table

\* Both go on.
Going(s, t) == Same(s, t) /\ s.err = NoError

LEMMA GoingBoth ==
    ASSUME NEW s, NEW t, Going(s, t)
    PROVE  /\ Shaped(s) /\ Shaped(t) /\ s.err = NoError /\ t.err = NoError
           /\ s.table = t.table
BY NoErrorIsNone DEF Going, Same

LEMMA ShapedIsSound ==
    ASSUME NEW st, Shaped(st)
    PROVE  Sound(st, Nat)
<1>1. Len(st.code) \in Nat
  BY SeqIs DEF Shaped
<1>2. \A ip \in 1..Len(st.code) : ip \in Nat
  BY <1>1
<1> QED
  BY <1>2 DEF Sound

\* The symbol table once fn is registered.
With(fn, table) ==
    [k \in {NodeId(fn, table)} \cup DOMAIN table |->
        IF k = NodeId(fn, table) THEN fn ELSE table[k]]

LEMMA RegisterIs ==
    ASSUME NEW st, Shaped(st), NEW fn
    PROVE  /\ Shaped(Register(fn, st)) /\ Register(fn, st).code = st.code
           /\ fn.kind # "stage" =>
                  Register(fn, st).err = "NotAStage" /\ Register(fn, st).table = st.table
           /\ fn.kind = "stage" =>
                  Register(fn, st).err = st.err /\ Register(fn, st).table = With(fn, st.table)
<1>1. Sound(Register(fn, st), Nat) /\ Register(fn, st).code = st.code
  BY ShapedIsSound, RegisterSound
<1>2. CASE fn.kind # "stage"
  <2>1. Register(fn, st) = Raise(st, "NotAStage")
    BY <1>2 DEF Register
  <2> QED
    <3>1. Sound(st, Nat)
      BY ShapedIsSound
    <3> DEFINE res == Raise(st, "NotAStage")
    <3>2. Shaped(res) /\ res.err = "NotAStage" /\ res.code = st.code /\ res.table = st.table
      BY <3>1, RaiseSound
    <3> HIDE DEF res
    <3> QED
      BY <1>2, <2>1, <3>2 DEF res
<1>3. CASE fn.kind = "stage"
  <2> DEFINE id == NodeId(fn, st.table)
             table == [k \in {id} \cup DOMAIN st.table |->
                           IF k = id THEN fn ELSE st.table[k]]
  <2>1. Register(fn, st) = [err |-> st.err, code |-> st.code, table |-> table]
    BY <1>3 DEF Register, Shaped
  <2>2. With(fn, st.table) = table
    BY Zenon DEF With
  <2> HIDE DEF table
  <2> QED
    BY <1>1, <1>3, <2>1, <2>2 DEF Sound
<1> QED
  BY <1>2, <1>3

LEMMA EmittedIs ==
    ASSUME NEW st, Shaped(st), NEW new, IsSeq(new)
    PROVE  /\ Shaped(Emitted(st, new))
           /\ Emitted(st, new).err = st.err /\ Emitted(st, new).table = st.table
           /\ Emitted(st, new).code = st.code \o new
<1>1. Len(st.code) \in Nat /\ Len(new) \in Nat
  BY SeqIs DEF Shaped
<1>2. \A k \in 1..Len(new) : Len(st.code) + k \in Nat
  BY <1>1
<1> QED
  BY <1>2, ShapedIsSound, EmittedSound DEF Sound

LEMMA StageIs ==
    ASSUME NEW st, Shaped(st), st.err = NoError, NEW fn
    PROVE  /\ Shaped(CompileStage(fn, st))
           /\ fn.kind # "stage" => CompileStage(fn, st).err = "NotAStage"
           /\ fn.kind = "stage" =>
                  /\ CompileStage(fn, st).err = NoError
                  /\ CompileStage(fn, st).table = With(fn, st.table)
                  /\ CompileStage(fn, st).code =
                         st.code \o StageCode(fn, NodeId(fn, st.table))
<1> DEFINE new == Register(fn, st)
           code == StageCode(fn, NodeId(fn, st.table))
<1>1. CompileStage(fn, st) = IF new.err = NoError THEN Emitted(new, code) ELSE new
  BY Zenon DEF CompileStage, Then
<1>2. IsSeq(code)
  BY StageCodePlain DEF Plain
<1> HIDE DEF code
<1>3. Shaped(new) /\ new.code = st.code
  BY RegisterIs
<1>4. CASE fn.kind # "stage"
  <2>1. new.err = "NotAStage"
    BY <1>4, RegisterIs
  <2> HIDE DEF new
  <2> QED
    BY <1>1, <1>3, <1>4, <2>1, NoErrorIsNone
<1>5. CASE fn.kind = "stage"
  <2>1. new.err = NoError /\ new.table = With(fn, st.table)
    BY <1>5, RegisterIs
  <2> HIDE DEF new
  <2> QED
    <3>1. CompileStage(fn, st) = Emitted(new, code)
      BY <1>1, <2>1
    <3>2. /\ Shaped(Emitted(new, code)) /\ Emitted(new, code).err = NoError
          /\ Emitted(new, code).table = With(fn, st.table)
          /\ Emitted(new, code).code = st.code \o code
      BY <1>2, <1>3, <2>1, EmittedIs
    <3> QED
      BY <1>5, <3>1, <3>2 DEF code
<1> QED
  BY <1>4, <1>5

LEMMA StageSame ==
    ASSUME NEW s, NEW t, Going(s, t), NEW fn
    PROVE  Same(CompileStage(fn, s), CompileStage(fn, t))
<1>1. /\ Shaped(s) /\ Shaped(t) /\ s.err = NoError /\ t.err = NoError
      /\ s.table = t.table
  BY GoingBoth
<1>2. CASE fn.kind # "stage"
  BY <1>1, <1>2, StageIs, NoErrorIsNone, ZenonT(30) DEF Same
<1>3. CASE fn.kind = "stage"
  BY <1>1, <1>3, StageIs DEF Same
<1> QED
  BY <1>2, <1>3

\* The branches registered so far: the same ids.
Registers(fns, st) == FoldLeft(RegisterBranch, [st |-> st, ids |-> <<>>], fns)

LEMMA BranchesSame ==
    ASSUME NEW s, NEW t, Going(s, t), NEW fns, IsSeq(fns)
    PROVE  /\ Same(Registers(fns, s).st, Registers(fns, t).st)
           /\ Registers(fns, s).st.err = NoError =>
                  Registers(fns, s).ids = Registers(fns, t).ids
<1> DEFINE n == Len(fns)
           left == [st |-> s, ids |-> <<>>]
           right == [st |-> t, ids |-> <<>>]
<1>1. n \in Nat /\ DOMAIN fns = 1..n
  BY SeqIs
<1>2. left.st = s /\ right.st = t /\ left.ids = right.ids
  OBVIOUS
<1>3. FoldLeft(RegisterBranch, left, fns) = Registers(fns, s)
      /\ FoldLeft(RegisterBranch, right, fns) = Registers(fns, t)
  BY Zenon DEF Registers
<1> HIDE DEF n, left, right
<1>4. PICK g : /\ Rounds(g, "branches", 0, left, fns, n)
               /\ FoldLeft(RegisterBranch, left, fns) = g[n]
  BY <1>1, BranchRounds
<1>5. PICK h : /\ Rounds(h, "branches", 0, right, fns, n)
               /\ FoldLeft(RegisterBranch, right, fns) = h[n]
  BY <1>1, BranchRounds
<1> DEFINE OK(a, b) == Same(a.st, b.st) /\ (a.st.err = NoError => a.ids = b.ids)
           S == {k \in 0..n : OK(g[k], h[k])}
<1>6. 0 \in S
  BY <1>1, <1>2, <1>4, <1>5 DEF Rounds, Going
<1>7. ASSUME NEW k \in 0..(n - 1), k \in S PROVE k + 1 \in S
  <2>1. k + 1 \in 1..n /\ (k + 1) - 1 = k
    BY <1>1
  <2> DEFINE fn == fns[k + 1]
  <2>2. /\ g[k + 1] = Round("branches", 0, g[k], fn)
        /\ h[k + 1] = Round("branches", 0, h[k], fn)
    BY <1>4, <1>5, <2>1 DEF Rounds
  <2>3. g[k + 1] = RegisterBranch(g[k], fn) /\ h[k + 1] = RegisterBranch(h[k], fn)
    BY <2>2 DEF Round
  <2>4. OK(g[k], h[k])
    BY <1>7
  <2> HIDE DEF fn
  <2>5. CASE g[k].st.err = "TypeError"
    <3>1. g[k + 1] = g[k]
      BY <2>3, <2>5, NoErrorIsNone DEF RegisterBranch
    <3> QED
      BY <2>1, <2>4, <2>5, <3>1, NoErrorIsNone DEF Same
  <2>6. CASE g[k].st.err \notin {NoError, "TypeError"}
    <3>1. g[k + 1] = g[k] /\ h[k + 1] = h[k]
      BY <2>3, <2>4, <2>6 DEF RegisterBranch, Same
    <3> QED
      BY <2>1, <2>4, <3>1
  <2>7. CASE g[k].st.err = NoError
    <3> DEFINE a == g[k].st
               b == h[k].st
               ida == NodeId(fn, a.table)
               idb == NodeId(fn, b.table)
    <3>1. /\ Shaped(a) /\ Shaped(b) /\ a.err = NoError /\ b.err = NoError
          /\ a.table = b.table /\ g[k].ids = h[k].ids
      BY <2>4, <2>7, GoingBoth DEF Going
    <3>2. /\ g[k + 1] = [st |-> Register(fn, a), ids |-> Append(g[k].ids, ida)]
          /\ h[k + 1] = [st |-> Register(fn, b), ids |-> Append(h[k].ids, idb)]
      BY <2>3, <3>1, Zenon DEF RegisterBranch
    <3>3. ida = idb
      BY <3>1
    <3> HIDE DEF a, b, ida, idb
    <3>4. Same(Register(fn, a), Register(fn, b))
      <4> DEFINE c == Register(fn, a)
                 d == Register(fn, b)
      <4>1. Shaped(c) /\ Shaped(d)
        BY <3>1, RegisterIs
      <4>2. CASE fn.kind = "stage"
        <5>1. /\ c.err = NoError /\ c.table = With(fn, a.table)
              /\ d.err = NoError /\ d.table = With(fn, b.table)
          BY <3>1, <4>2, RegisterIs
        <5> HIDE DEF c, d
        <5> QED
          BY <3>1, <4>1, <5>1 DEF Same, c, d
      <4>3. CASE fn.kind # "stage"
        <5>1. c.err = "NotAStage" /\ d.err = "NotAStage"
          BY <3>1, <4>3, RegisterIs
        <5> HIDE DEF c, d
        <5> QED
          BY <4>1, <5>1, NoErrorIsNone DEF Same, c, d
      <4> QED
        BY <4>2, <4>3
    <3>5. g[k + 1].ids = h[k + 1].ids /\ Same(g[k + 1].st, h[k + 1].st)
      BY <3>1, <3>2, <3>3, <3>4
    <3> QED
      BY <2>1, <3>5
  <2> QED
    BY <2>5, <2>6, <2>7
<1> HIDE DEF S
<1>8. n \in S
  BY <1>1, <1>6, <1>7, UpTo
<1>9. OK(g[n], h[n])
  BY <1>8 DEF S
<1> QED
  BY <1>3, <1>4, <1>5, <1>9, Zenon

LEMMA ParallelIs ==
    ASSUME NEW st, Shaped(st), NEW block, IsSeq(block.branches)
    PROVE  LET all == Registers(block.branches, st)
           IN  /\ Shaped(all.st) /\ Shaped(CompileParallel(block, st))
               /\ all.st.err # NoError => CompileParallel(block, st) = all.st
               /\ (all.st.err = NoError /\ WriteConflict(block.branches, all.ids))
                     => CompileParallel(block, st).err = "WriteConflict"
               /\ (all.st.err = NoError /\ ~WriteConflict(block.branches, all.ids))
                     => /\ CompileParallel(block, st) =
                               Emitted(all.st, BlockCode(all.ids, block.mode))
                        /\ CompileParallel(block, st).err = NoError
                        /\ CompileParallel(block, st).table = all.st.table
<1> DEFINE all == Registers(block.branches, st)
           conflict == WriteConflict(block.branches, all.ids)
           code == BlockCode(all.ids, block.mode)
<1>1. CompileParallel(block, st) =
          IF all.st.err = NoError
          THEN IF conflict THEN Raise(all.st, "WriteConflict") ELSE Emitted(all.st, code)
          ELSE all.st
  BY Zenon DEF CompileParallel, EmitBlock, Then, Registers
<1>2. Shaped(all.st) /\ Shaped(CompileParallel(block, st))
  <2>1. Registered(all, st, Nat, block.branches, Len(block.branches))
    BY ShapedIsSound, BranchesRegistered DEF Registers
  <2>2. Sound(CompileParallel(block, st), Nat)
    BY ShapedIsSound, ParallelSound
  <2> QED
    BY <2>1, <2>2 DEF Registered, Sound
<1>3. Emitted(all.st, code).err = all.st.err /\ Emitted(all.st, code).table = all.st.table
  <2> HIDE DEF all, code
  <2> QED
    BY <1>2 DEF Emitted, Shaped
<1>4. Raise(all.st, "WriteConflict").err = "WriteConflict"
  <2> HIDE DEF all
  <2> QED
    BY <1>2, ShapedIsSound, RaiseSound
<1> HIDE DEF all, conflict, code
<1> QED
  BY <1>1, <1>2, <1>3, <1>4, Zenon DEF all, conflict, code

LEMMA ParallelSame ==
    ASSUME NEW s, NEW t, Going(s, t), NEW block, IsSeq(block.branches)
    PROVE  Same(CompileParallel(block, s), CompileParallel(block, t))
<1> DEFINE a == Registers(block.branches, s)
           b == Registers(block.branches, t)
           left == CompileParallel(block, s)
           right == CompileParallel(block, t)
           Conflict(ids) == WriteConflict(block.branches, ids)
<1> SUFFICES Same(left, right)
  OBVIOUS
<1>1. Same(a.st, b.st) /\ (a.st.err = NoError => a.ids = b.ids)
  BY BranchesSame
<1>2. /\ Shaped(a.st) /\ Shaped(left)
      /\ a.st.err # NoError => left = a.st
      /\ (a.st.err = NoError /\ Conflict(a.ids)) => left.err = "WriteConflict"
      /\ (a.st.err = NoError /\ ~Conflict(a.ids))
             => left.err = NoError /\ left.table = a.st.table
  <2>1. Shaped(s)
    BY GoingBoth
  <2> HIDE DEF left
  <2> QED
    BY <2>1, ParallelIs, Zenon DEF left
<1>3. /\ Shaped(b.st) /\ Shaped(right)
      /\ b.st.err # NoError => right = b.st
      /\ (b.st.err = NoError /\ Conflict(b.ids)) => right.err = "WriteConflict"
      /\ (b.st.err = NoError /\ ~Conflict(b.ids))
             => right.err = NoError /\ right.table = b.st.table
  <2>1. Shaped(t)
    BY GoingBoth
  <2> HIDE DEF right
  <2> QED
    BY <2>1, ParallelIs, Zenon DEF right
<1> HIDE DEF a, b, left, right, Conflict
<1>4. CASE a.st.err = "TypeError"
  <2>1. left = a.st
    BY <1>2, <1>4, NoErrorIsNone
  <2> QED
    BY <1>2, <1>4, <2>1 DEF Same
<1>5. CASE a.st.err \notin {NoError, "TypeError"}
  <2>1. left = a.st /\ right = b.st
    BY <1>1, <1>2, <1>3, <1>5 DEF Same
  <2> QED
    BY <1>1, <2>1
<1>6. CASE a.st.err = NoError
  <2>1. b.st.err = NoError /\ a.st.table = b.st.table /\ a.ids = b.ids
    BY <1>1, <1>6, NoErrorIsNone DEF Same
  <2> QED
    <3>1. CASE Conflict(a.ids)
      <4>1. left.err = "WriteConflict" /\ right.err = "WriteConflict"
        BY <1>2, <1>3, <1>6, <2>1, <3>1
      <4> QED
        BY <1>2, <1>3, <4>1, NoErrorIsNone DEF Same
    <3>2. CASE ~Conflict(a.ids)
      <4>1. /\ left.err = NoError /\ right.err = NoError
            /\ left.table = right.table
        BY <1>2, <1>3, <1>6, <2>1, <3>2
      <4> QED
        BY <1>2, <1>3, <4>1 DEF Same
    <3> QED
      BY <3>1, <3>2
<1> QED
  BY <1>4, <1>5, <1>6

-----------------------------------------------------------------------------
(* A list compiled node after node.                                        *)

AutoOn(level) == [level |-> level, auto |-> TRUE]

AutoOff(level) == [level |-> level, auto |-> FALSE]

From(st) == [st |-> st, router |-> FALSE]

LEMMA FlowIs ==
    ASSUME NEW given, NEW acc, NEW node
    PROVE  /\ acc.st.err # NoError => Round("flow", given, acc, node).st = acc.st
           /\ acc.st.err = NoError => Round("flow", given, acc, node).st =
                                          NodeAfter(given, acc.router, node, acc.st)
           /\ Round("flow", given, acc, node).router = (node.kind = "stage")
BY DEF Round

LEMMA StageAfter ==
    ASSUME NEW given, NEW router, NEW st, NEW fn, fn.kind = "stage"
    PROVE  NodeAfter(given, router, fn, st) = CompileStage(fn, st)
BY DEF NodeAfter, BodyNode

LEMMA ParallelAfter ==
    ASSUME NEW given, NEW router, NEW st, NEW block, block.kind = "parallel"
    PROVE  NodeAfter(given, router, block, st) = CompileParallel(block, st)
BY DEF NodeAfter, BodyNode

LEMMA BodyLoopFlows ==
    ASSUME NEW st, NEW list, IsSeq(list), NEW given, given.level = "body"
    PROVE  BodyLoop(st, list) = Loop("flow", given, From(st), list).st
<1> DEFINE n == Len(list)
<1>1. n \in Nat /\ DOMAIN list = 1..n
  BY SeqIs
<1> HIDE DEF n
<1>2. PICK h : Rounds(h, "body", 0, st, list, n) /\ BodyLoop(st, list) = h[n]
  BY <1>1, BodyRounds
<1>3. PICK g : /\ Rounds(g, "flow", given, From(st), list, n)
               /\ Loop("flow", given, From(st), list) = g[n]
  BY <1>1, LoopRounds
<1> DEFINE S == {k \in 0..n : h[k] = g[k].st}
<1>4. 0 \in S
  BY <1>1, <1>2, <1>3 DEF Rounds, From
<1>5. ASSUME NEW k \in 0..(n - 1), k \in S PROVE k + 1 \in S
  <2>1. k + 1 \in 1..n /\ (k + 1) - 1 = k
    BY <1>1
  <2>2. /\ h[k + 1] = Round("body", 0, h[k], list[k + 1])
        /\ g[k + 1] = Round("flow", given, g[k], list[k + 1])
    BY <1>2, <1>3, <2>1 DEF Rounds
  <2>3. h[k + 1] = IF h[k].err = NoError THEN BodyNode(list[k + 1], h[k]) ELSE h[k]
    BY <2>2, Zenon DEF Round, Then
  <2>4. \A router, node, s : NodeAfter(given, router, node, s) = BodyNode(node, s)
    BY DEF NodeAfter
  <2>5. h[k] = g[k].st
    BY <1>5
  <2>6. h[k + 1] = g[k + 1].st
    BY <2>2, <2>3, <2>4, <2>5, FlowIs
  <2> QED
    BY <1>1, <2>1, <2>6
<1> HIDE DEF S
<1>6. n \in S
  BY <1>1, <1>4, <1>5, UpTo
<1> QED
  BY <1>2, <1>3, <1>6 DEF S

\* The stages of a group, one after the other, register what the block does.
LEMMA GroupFlows ==
    ASSUME NEW group, GroupOK(group), NEW given, NEW acc
    PROVE  LET end == Loop("flow", given, acc, group)
               all == Registers(group, acc.st)
           IN  /\ acc.st.err # NoError => end.st = acc.st
               /\ (Shaped(acc.st) /\ acc.st.err = NoError) =>
                      /\ Shaped(end.st) /\ end.st.err = NoError
                      /\ all.st.err = NoError /\ all.st.table = end.st.table
<1> DEFINE n == Len(group)
           base == [st |-> acc.st, ids |-> <<>>]
<1>1. n \in Nat /\ DOMAIN group = 1..n
  BY DEF GroupOK
<1>2. base.st = acc.st /\ FoldLeft(RegisterBranch, base, group) = Registers(group, acc.st)
  BY Zenon DEF Registers
<1> HIDE DEF n, base
<1>3. PICK g : /\ Rounds(g, "flow", given, acc, group, n)
               /\ Loop("flow", given, acc, group) = g[n]
  BY <1>1, LoopRounds
<1>4. PICK h : /\ Rounds(h, "branches", 0, base, group, n)
               /\ FoldLeft(RegisterBranch, base, group) = h[n]
  BY <1>1, BranchRounds
<1> DEFINE OK(a, b) ==
               /\ acc.st.err # NoError => a.st = acc.st
               /\ (Shaped(acc.st) /\ acc.st.err = NoError) =>
                      /\ Shaped(a.st) /\ a.st.err = NoError /\ Shaped(b.st)
                      /\ b.st.err = NoError /\ b.st.table = a.st.table
           S == {k \in 0..n : OK(g[k], h[k])}
<1>5. 0 \in S
  BY <1>1, <1>2, <1>3, <1>4 DEF Rounds
<1>6. ASSUME NEW k \in 0..(n - 1), k \in S PROVE k + 1 \in S
  <2>1. k + 1 \in 1..n /\ (k + 1) - 1 = k
    BY <1>1
  <2> DEFINE fn == group[k + 1]
  <2>2. /\ g[k + 1] = Round("flow", given, g[k], fn)
        /\ h[k + 1] = Round("branches", 0, h[k], fn)
    BY <1>3, <1>4, <2>1 DEF Rounds
  <2>3. h[k + 1] = RegisterBranch(h[k], fn)
    BY <2>2 DEF Round
  <2>4. OK(g[k], h[k]) /\ fn.kind = "stage"
    BY <1>6, <2>1 DEF GroupOK, n
  <2> HIDE DEF fn
  <2>5. CASE acc.st.err # NoError
    BY <2>1, <2>2, <2>4, <2>5, FlowIs
  <2>6. CASE acc.st.err = NoError /\ Shaped(acc.st)
    <3> DEFINE a == g[k].st
               b == h[k].st
    <3>1. /\ Shaped(a) /\ Shaped(b) /\ a.err = NoError /\ b.err = NoError
          /\ a.table = b.table
      BY <2>4, <2>6
    <3>2. h[k + 1].st = Register(fn, b)
      BY <2>3, <3>1 DEF RegisterBranch
    <3>3. g[k + 1].st = CompileStage(fn, a)
      BY <2>2, <2>4, <3>1, FlowIs, StageAfter
    <3> HIDE DEF a, b
    <3>4. OK(g[k + 1], h[k + 1])
      <4> DEFINE c == CompileStage(fn, a)
                 d == Register(fn, b)
      <4>1. Shaped(c) /\ c.err = NoError /\ c.table = With(fn, a.table)
        BY <2>4, <3>1, StageIs
      <4>2. Shaped(d) /\ d.err = NoError /\ d.table = With(fn, b.table)
        BY <2>4, <3>1, RegisterIs, ZenonT(60)
      <4> HIDE DEF c, d
      <4> QED
        BY <2>6, <3>1, <3>2, <3>3, <4>1, <4>2 DEF c, d
    <3> QED
      BY <2>1, <3>4
  <2>7. CASE acc.st.err = NoError /\ ~Shaped(acc.st)
    BY <2>1, <2>7
  <2> QED
    BY <2>5, <2>6, <2>7
<1> HIDE DEF S
<1>7. n \in S
  BY <1>1, <1>5, <1>6, UpTo
<1>8. OK(g[n], h[n])
  BY <1>7 DEF S
<1> QED
  BY <1>2, <1>3, <1>4, <1>8, Zenon

LEMMA GroupNeverConflicts ==
    ASSUME NEW group, GroupOK(group), NEW ids
    PROVE  ~WriteConflict(group, ids)
<1>1. DOMAIN group = 1..Len(group)
  BY DEF GroupOK
<1> QED
  BY <1>1 DEF WriteConflict, GroupOK, Apart

\* Folding the group changes neither the error nor the symbol table.
LEMMA BlockAlike ==
    ASSUME NEW group, GroupOK(group), NEW given, NEW acc, Shaped(acc.st)
    PROVE  LET end == Loop("flow", given, acc, group).st
               new == Round("flow", given, acc, Block(group)).st
           IN  /\ Shaped(new) /\ new.err = end.err
               /\ new.err = NoError => new.table = end.table
<1> DEFINE end == Loop("flow", given, acc, group).st
           new == Round("flow", given, acc, Block(group)).st
           all == Registers(group, acc.st)
           block == Block(group)
<1>1. /\ acc.st.err # NoError => end = acc.st
      /\ acc.st.err = NoError =>
             /\ Shaped(end) /\ end.err = NoError
             /\ all.st.err = NoError /\ all.st.table = end.table
  BY GroupFlows
<1>2. block.kind = "parallel" /\ block.branches = group /\ IsSeq(group)
  BY DEF Block, GroupOK, IsSeq
<1>3. CASE acc.st.err # NoError
  <2>1. new = acc.st
    BY <1>3, FlowIs
  <2> HIDE DEF new, end
  <2> QED
    BY <1>1, <1>3, <2>1 DEF new, end
<1>4. CASE acc.st.err = NoError
  <2>1. new = CompileParallel(block, acc.st)
    BY <1>2, <1>4, FlowIs, ParallelAfter
  <2>2. Shaped(new) /\ new.err = NoError /\ new.table = all.st.table
    <3>1. ~WriteConflict(group, all.ids)
      BY GroupNeverConflicts
    <3>2. all = Registers(block.branches, acc.st)
      BY <1>2
    <3> HIDE DEF new, block, all
    <3> QED
      BY <1>1, <1>2, <1>4, <2>1, <3>1, <3>2, ParallelIs, Zenon
  <2> HIDE DEF new, end, all
  <2> QED
    BY <1>1, <1>4, <2>2 DEF new, end
<1> QED
  BY <1>3, <1>4

\* Compiling a dict after its router.
DictsAgree ==
    \A dict \in Nodes : dict.kind = "dict" =>
        \A s, t : Going(s, t) => Same(DictCode(dict, TRUE, s), DictCode(dict, FALSE, t))

LEMMA NodeSame ==
    ASSUME NEW s, NEW t, Going(s, t), NEW node, IsNode(node), NEW router,
           NEW level \in {"top", "body"}, level = "body" \/ DictsAgree
    PROVE  Same(NodeAfter(AutoOn(level), router, node, s),
                NodeAfter(AutoOff(level), router, node, t))
<1>1. CASE node.kind = "parallel"
  <2>1. IsSeq(node.branches)
    BY <1>1, NodesTyped DEF IsNode, IsSeq
  <2> QED
    <3>1. Same(CompileParallel(node, s), CompileParallel(node, t))
      BY <2>1, ParallelSame
    <3> QED
      BY <1>1, <3>1, ParallelAfter
<1>2. CASE node.kind # "parallel" /\ (level = "body" \/ node.kind # "dict")
  <2>1. /\ NodeAfter(AutoOn(level), router, node, s) = CompileStage(node, s)
        /\ NodeAfter(AutoOff(level), router, node, t) = CompileStage(node, t)
    BY <1>2 DEF NodeAfter, BodyNode, AutoOn, AutoOff
  <2> QED
    BY <2>1, StageSame
<1>3. CASE node.kind = "dict" /\ level = "top"
  <2>1. /\ NodeAfter(AutoOn(level), router, node, s) =
               IF router THEN DictCode(node, TRUE, s) ELSE Raise(s, "DictFirst")
        /\ NodeAfter(AutoOff(level), router, node, t) =
               IF router THEN DictCode(node, FALSE, t) ELSE Raise(t, "DictFirst")
    BY <1>3 DEF NodeAfter, AutoOn, AutoOff
  <2>2. CASE router
    <3>1. node \in Nodes
      BY <1>3 DEF IsNode
    <3>2. Same(DictCode(node, TRUE, s), DictCode(node, FALSE, t))
      BY <1>3, <3>1, Zenon DEF DictsAgree
    <3> QED
      BY <2>1, <2>2, <3>2
  <2>3. CASE ~router
    <3> DEFINE a == Raise(s, "DictFirst")
               b == Raise(t, "DictFirst")
    <3>1. Shaped(a) /\ Shaped(b) /\ a.err = "DictFirst" /\ b.err = "DictFirst"
      BY GoingBoth, ShapedIsSound, RaiseSound
    <3> HIDE DEF a, b
    <3>2. Same(a, b)
      BY <3>1, NoErrorIsNone DEF Same
    <3> QED
      BY <2>1, <2>3, <3>2 DEF a, b
  <2> QED
    BY <2>2, <2>3
<1> QED
  BY <1>1, <1>2, <1>3

\* One node more on both sides.
LEMMA RoundSame ==
    ASSUME NEW a, NEW b, Same(a.st, b.st), NEW node, IsNode(node),
           node.kind = "dict" => a.router = b.router,
           NEW level \in {"top", "body"}, level = "body" \/ DictsAgree
    PROVE  /\ Same(Round("flow", AutoOn(level), a, node).st,
                   Round("flow", AutoOff(level), b, node).st)
           /\ Round("flow", AutoOn(level), a, node).router =
                  Round("flow", AutoOff(level), b, node).router
<1> DEFINE left == AutoOn(level)
           right == AutoOff(level)
           c == Round("flow", left, a, node)
           d == Round("flow", right, b, node)
<1> SUFFICES Same(c.st, d.st) /\ c.router = d.router
  OBVIOUS
<1> HIDE DEF left, right
<1>1. c.router = d.router
  BY FlowIs
<1>2. /\ a.st.err # NoError => c.st = a.st
      /\ b.st.err # NoError => d.st = b.st
      /\ a.st.err = NoError => c.st = NodeAfter(left, a.router, node, a.st)
      /\ b.st.err = NoError => d.st = NodeAfter(right, b.router, node, b.st)
  BY FlowIs
<1> HIDE DEF c, d
<1>3. CASE a.st.err = "TypeError"
  <2>1. c.st = a.st
    BY <1>2, <1>3, NoErrorIsNone
  <2> QED
    BY <1>1, <1>3, <2>1 DEF Same
<1>4. CASE a.st.err \notin {NoError, "TypeError"}
  <2>1. b.st.err # NoError
    BY <1>4 DEF Same
  <2> QED
    BY <1>1, <1>2, <1>4, <2>1
<1>5. CASE a.st.err = NoError
  <2>1. Going(a.st, b.st) /\ b.st.err = NoError
    BY <1>5, GoingBoth DEF Going
  <2> DEFINE After(given, router, st) == NodeAfter(given, router, node, st)
  <2>2. Same(After(left, b.router, a.st), After(right, b.router, b.st))
    BY <2>1, NodeSame DEF left, right
  <2>3. After(left, a.router, a.st) = After(left, b.router, a.st)
    <3>1. CASE node.kind = "dict"
      BY <3>1
    <3>2. CASE node.kind # "dict"
      BY <3>2 DEF NodeAfter
    <3> QED
      BY <3>1, <3>2
  <2>4. c.st = After(left, a.router, a.st) /\ d.st = After(right, b.router, b.st)
    BY <1>2, <1>5, <2>1
  <2> HIDE DEF After
  <2> QED
    BY <1>1, <2>2, <2>3, <2>4
<1> QED
  BY <1>3, <1>4, <1>5

LEMMA AlikeSame ==
    ASSUME NEW y, NEW z, NEW u, Same(y, u), Shaped(z), z.err = y.err,
           z.err = NoError => z.table = y.table
    PROVE  Same(z, u)
BY DEF Same

LEMMA LoopOfNone ==
    ASSUME NEW loop, NEW given, NEW base
    PROVE  Loop(loop, given, base, <<>>) = base
BY TuplesAre, LoopGrows, SMT

LEMMA LoopOfOne ==
    ASSUME NEW loop, NEW given, NEW base, NEW x
    PROVE  Loop(loop, given, base, <<x>>) = Round(loop, given, base, x)
<1>1. <<x>> = Append(<<>>, x) /\ IsSeq(<<>>)
  BY TuplesAre
<1>2. Loop(loop, given, base, Append(<<>>, x)) =
          Round(loop, given, Loop(loop, given, base, <<>>), x)
  <2>1. \A e : IsSeq(e) => Loop(loop, given, base, Append(e, x)) =
                               Round(loop, given, Loop(loop, given, base, e), x)
    BY LoopGrows
  <2> QED
    BY <1>1, <2>1, Zenon
<1> QED
  BY <1>1, <1>2, LoopOfNone

LEMMA OneIs ==
    ASSUME NEW S, NEW s \in Seq(S), Len(s) = 1
    PROVE  s = <<s[1]>>
OBVIOUS

LEMMA FlushedIsSeq ==
    ASSUME NEW acc, IsSeq(acc.out), NEW new, Flushed(new, acc)
    PROVE  IsSeq(new)
<1>1. \A y : IsSeq(Append(acc.out, y))
  BY AppendIs
<1> QED
  BY <1>1, Zenon DEF Flushed

\* What the group is flushed to is compiled like its stages.
LEMMA FlushedAlike ==
    ASSUME NEW acc, Folding(acc), GroupOK(acc.group), NEW new, Flushed(new, acc),
           NEW given, NEW base, Shaped(Loop("flow", given, base, acc.out).st)
    PROVE  LET end == Loop("flow", given, Loop("flow", given, base, acc.out), acc.group)
               res == Loop("flow", given, base, new)
           IN  /\ Shaped(res.st) /\ res.st.err = end.st.err
               /\ res.st.err = NoError => res.st.table = end.st.table
               /\ acc.group = <<>> => res = end
<1> DEFINE at == Loop("flow", given, base, acc.out)
           end == Loop("flow", given, at, acc.group)
           res == Loop("flow", given, base, new)
<1> SUFFICES /\ Shaped(res.st) /\ res.st.err = end.st.err
             /\ res.st.err = NoError => res.st.table = end.st.table
             /\ acc.group = <<>> => res = end
  OBVIOUS
<1>1. IsSeq(acc.out) /\ acc.group \in Seq(Nodes) /\ IsSeq(acc.group)
  BY DEF Folding, ListOK, IsSeq
<1>2. \A x : Loop("flow", given, base, Append(acc.out, x)) = Round("flow", given, at, x)
  BY <1>1, LoopGrows
<1>3. Shaped(at.st)
  OBVIOUS
<1>4. Shaped(end.st)
  <2> HIDE DEF at
  <2>1. \/ at.st.err # NoError /\ end.st = at.st
        \/ at.st.err = NoError /\ Shaped(end.st)
    BY <1>3, GroupFlows
  <2> QED
    BY <1>3, <2>1
<1> HIDE DEF at, res
<1>5. CASE acc.group = <<>> /\ new = acc.out
  <2>1. end = at
    BY <1>1, <1>5, LoopGrows
  <2>2. res = at
    BY <1>5 DEF res, at
  <2> QED
    BY <1>4, <2>1, <2>2
<1>6. CASE Len(acc.group) = 1 /\ new = Append(acc.out, acc.group[1])
  <2>1. res = Round("flow", given, at, acc.group[1])
    BY <1>2, <1>6 DEF res
  <2>2. acc.group = <<acc.group[1]>>
    BY <1>1, <1>6, OneIs
  <2>3. end = Round("flow", given, at, acc.group[1])
    BY <2>2, LoopOfOne
  <2> HIDE DEF end
  <2> QED
    BY <1>4, <2>1, <2>3
<1>7. CASE Len(acc.group) > 1 /\ new = Append(acc.out, Block(acc.group))
  <2>1. res = Round("flow", given, at, Block(acc.group))
    BY <1>2, <1>7 DEF res
  <2>2. acc.group # <<>>
    <3>1. Len(<<>>) = 0
      OBVIOUS
    <3> QED
      BY <1>7, <3>1
  <2> DEFINE block == Round("flow", given, at, Block(acc.group)).st
  <2>3. /\ Shaped(block) /\ block.err = end.st.err
        /\ block.err = NoError => block.table = end.st.table
    BY <1>3, BlockAlike
  <2> HIDE DEF end, block
  <2>4. res.st = block
    BY <2>1 DEF block
  <2> QED
    BY <2>2, <2>3, <2>4
<1> QED
  BY <1>5, <1>6, <1>7 DEF Flushed

\* The fold so far, compiled from s, is the list so far, which gave b.
Agreed(acc, b, level, s) ==
    LET at == Loop("flow", AutoOn(level), From(s), acc.out)
        end == Loop("flow", AutoOn(level), at, acc.group)
    IN  Shaped(at.st) /\ Same(end.st, b.st) /\ end.router = b.router

LEMMA VisitAgrees ==
    ASSUME NEW acc, Folding(acc), GroupOK(acc.group), NEW x \in Nodes,
           NEW new, Visited(new, acc, x),
           NEW level \in {"top", "body"}, level = "body" \/ DictsAgree,
           NEW s, NEW b, Agreed(acc, b, level, s)
    PROVE  Agreed(new, Round("flow", AutoOff(level), b, x), level, s)
<1> DEFINE left == AutoOn(level)
           right == AutoOff(level)
           base == From(s)
           at == Loop("flow", left, base, acc.out)
           end == Loop("flow", left, at, acc.group)
           next == Round("flow", right, b, x)
<1>1. Shaped(at.st) /\ Same(end.st, b.st) /\ end.router = b.router
  BY DEF Agreed
<1>2. IsNode(x) /\ IsSeq(acc.out) /\ IsSeq(acc.group)
  BY DEF IsNode, Folding, ListOK, IsSeq
<1>3. ASSUME NEW c, Same(c.st, b.st), x.kind = "dict" => c.router = b.router
      PROVE  /\ Same(Round("flow", left, c, x).st, next.st)
             /\ Round("flow", left, c, x).router = next.router
  BY <1>2, <1>3, RoundSame, SMTT(30)
<1>4. ASSUME NEW flushed, Flushed(flushed, acc)
      PROVE  LET res == Loop("flow", left, base, flushed)
             IN  /\ Shaped(res.st) /\ Same(res.st, b.st)
                 /\ acc.group = <<>> => res = end
  <2> DEFINE res == Loop("flow", left, base, flushed)
  <2>1. /\ Shaped(res.st) /\ res.st.err = end.st.err
        /\ res.st.err = NoError => res.st.table = end.st.table
        /\ acc.group = <<>> => res = end
    <3> HIDE DEF left, base
    <3> QED
      BY <1>1, <1>4, FlushedAlike
  <2> HIDE DEF res, end
  <2> QED
    BY <1>1, <2>1, AlikeSame DEF res
<1> SUFFICES Agreed(new, next, level, s)
  OBVIOUS
<1>5. Agreed(new, next, level, s) <=>
          LET a == Loop("flow", left, base, new.out)
              e == Loop("flow", left, a, new.group)
          IN  Shaped(a.st) /\ Same(e.st, next.st) /\ e.router = next.router
  BY Zenon DEF Agreed
<1> HIDE DEF left, right, base, next
<1>6. CASE /\ acc.group # <<>> /\ x.kind = "stage"
           /\ new.out = acc.out /\ new.group = Append(acc.group, x)
  <2>1. Loop("flow", left, at, new.group) = Round("flow", left, end, x)
    BY <1>2, <1>6, LoopGrows
  <2>2. /\ Same(Round("flow", left, end, x).st, next.st)
        /\ Round("flow", left, end, x).router = next.router
    BY <1>1, <1>3
  <2>3. Loop("flow", left, base, new.out) = at
    BY <1>6
  <2> HIDE DEF at, end
  <2> QED
    BY <1>1, <1>5, <2>1, <2>2, <2>3
<1>7. CASE x.kind = "stage" /\ Flushed(new.out, acc) /\ new.group = <<x>>
  <2> DEFINE res == Loop("flow", left, base, new.out)
  <2>1. Shaped(res.st) /\ Same(res.st, b.st)
    BY <1>4, <1>7
  <2>2. Loop("flow", left, res, new.group) = Round("flow", left, res, x)
    BY <1>7, LoopOfOne
  <2> HIDE DEF res
  <2>3. /\ Same(Round("flow", left, res, x).st, next.st)
        /\ Round("flow", left, res, x).router = next.router
    BY <1>3, <1>7, <2>1
  <2> QED
    BY <1>5, <2>1, <2>2, <2>3 DEF res
<1>8. ASSUME x.kind = "dict" => acc.group = <<>>, NEW flushed, Flushed(flushed, acc),
             new.out = Append(flushed, x), new.group = <<>>
      PROVE  Agreed(new, next, level, s)
  <2> DEFINE res == Loop("flow", left, base, flushed)
             step == Round("flow", left, res, x)
  <2>1. Shaped(res.st) /\ Same(res.st, b.st) /\ (acc.group = <<>> => res = end)
    BY <1>4, <1>8
  <2>2. IsSeq(flushed)
    BY <1>2, <1>8, FlushedIsSeq
  <2>3. Loop("flow", left, base, new.out) = step
    BY <1>8, <2>2, LoopGrows
  <2>4. Loop("flow", left, step, new.group) = step
    BY <1>8, LoopOfNone, SMT
  <2> HIDE DEF res, end
  <2>5. Same(step.st, next.st) /\ step.router = next.router
    BY <1>1, <1>3, <1>8, <2>1
  <2>6. Shaped(step.st)
    BY <2>5 DEF Same
  <2> HIDE DEF step
  <2> QED
    BY <1>5, <2>3, <2>4, <2>5, <2>6
<1> QED
  BY <1>6, <1>7, <1>8 DEF Visited

\* The loop of _auto_parallelize.
Folded(list) ==
    FoldLoop(list, [err |-> NoError, out |-> <<>>, group |-> <<>>],
             [i \in DOMAIN list |-> i])

LEMMA AutoIs ==
    ASSUME NEW list
    PROVE  Normalize(list, TRUE) =
               IF Folded(list).err = NoError THEN Flush(Folded(list)) ELSE Folded(list)
BY Zenon DEF Normalize, AutoParallelize, Then, FoldLoop, Folded

\* The rounds of the fold of a list.
FoldsTo(f, list) ==
    /\ f[0] = [err |-> NoError, out |-> <<>>, group |-> <<>>]
    /\ f[Len(list)] = Folded(list)
    /\ \A k \in 0..(Len(list) - 1) :
           f[k + 1] = IF f[k].err = NoError THEN Visit(list, k + 1, f[k]) ELSE f[k]

LEMMA FoldedIs ==
    ASSUME NEW list \in Seq(Nodes)
    PROVE  \E f : /\ FoldsTo(f, list)
                  /\ \A k \in 0..Len(list) : FoldOK(f[k], list, k)
                  /\ \A k \in 0..(Len(list) - 1) :
                         (f[k].err = NoError /\ f[k + 1].err = NoError) =>
                             Visited(f[k + 1], f[k], list[k + 1])
<1> DEFINE n == Len(list)
           seq == [i \in DOMAIN list |-> i]
           base == [err |-> NoError, out |-> <<>>, group |-> <<>>]
<1>1. n \in Nat /\ DOMAIN seq = 1..n /\ DOMAIN list = 1..n /\ \A k \in 1..n : seq[k] = k
  OBVIOUS
<1>2. Folded(list) = FoldLoop(list, base, seq)
  BY Zenon DEF Folded
<1>3. FoldOK(base, list, 0)
  BY TuplesAre, GroupStarts DEF FoldOK, Folding, ListOK
<1> HIDE DEF n, seq, base
<1>4. PICK f : Rounds(f, "fold", list, base, seq, n) /\ FoldLoop(list, base, seq) = f[n]
  BY <1>1, FoldRounds
<1>5. ASSUME NEW k \in 0..(n - 1)
      PROVE  f[k + 1] = IF f[k].err = NoError THEN Visit(list, k + 1, f[k]) ELSE f[k]
  <2>1. k + 1 \in 1..n /\ (k + 1) - 1 = k /\ seq[k + 1] = k + 1
    BY <1>1
  <2>2. f[k + 1] = Round("fold", list, f[k], k + 1)
    BY <1>4, <2>1 DEF Rounds
  <2> QED
    BY <2>2, Zenon DEF Round, Then
<1>6. FoldsTo(f, list)
  BY <1>2, <1>4, <1>5, Zenon DEF FoldsTo, Rounds, n, base
<1> DEFINE S == {k \in 0..n : FoldOK(f[k], list, k)}
<1>7. 0 \in S
  BY <1>1, <1>3, <1>4 DEF Rounds
<1>8. ASSUME NEW k \in 0..(n - 1), FoldOK(f[k], list, k)
      PROVE  /\ FoldOK(f[k + 1], list, k + 1)
             /\ (f[k].err = NoError /\ f[k + 1].err = NoError) =>
                    Visited(f[k + 1], f[k], list[k + 1])
  <2>1. CASE f[k].err # NoError
    <3>1. f[k + 1] = f[k]
      BY <1>5, <2>1
    <3> QED
      BY <1>8, <2>1, <3>1 DEF FoldOK
  <2>2. CASE f[k].err = NoError
    <3>1. f[k + 1] = Visit(list, k + 1, f[k])
      BY <1>5, <2>2
    <3>2. k \in Nat /\ k + 1 \in 1..Len(list)
      BY <1>1 DEF n
    <3> QED
      BY <1>8, <2>2, <3>1, <3>2, VisitIs
  <2> QED
    BY <2>1, <2>2
<1>9. ASSUME NEW k \in 0..(n - 1), k \in S PROVE k + 1 \in S
  BY <1>1, <1>8, <1>9
<1> HIDE DEF S
<1>10. ASSUME NEW k \in 0..n PROVE FoldOK(f[k], list, k)
  <2> DEFINE T == S \cup ((k + 1)..n)
  <2>1. \A j \in 0..(k - 1) : j \in S => j + 1 \in S
    BY <1>1, <1>9
  <2>2. k \in Nat
    BY <1>1
  <2>3. k \in S
    BY <1>7, <2>1, <2>2, UpTo
  <2> QED
    BY <2>3 DEF S
<1>11. ASSUME NEW k \in 0..(n - 1), f[k].err = NoError, f[k + 1].err = NoError
       PROVE  Visited(f[k + 1], f[k], list[k + 1])
  <2>1. k \in 0..n
    BY <1>1
  <2> QED
    BY <1>8, <1>10, <1>11, <2>1
<1> QED
  BY <1>6, <1>10, <1>11 DEF n

\* What the auto-parallel list compiles to.
LEMMA NormalSame ==
    ASSUME NEW list \in Seq(Nodes), NEW s, NEW t, Same(s, t),
           NEW level \in {"top", "body"}, level = "body" \/ DictsAgree
    PROVE  LET normal == Normalize(list, TRUE)
           IN  /\ normal.err \in {NoError, "TypeError"}
               /\ normal.err = NoError =>
                      Same(Loop("flow", AutoOn(level), From(s), normal.out).st,
                           Loop("flow", AutoOff(level), From(t), list).st)
<1> DEFINE n == Len(list)
           normal == Normalize(list, TRUE)
           left == AutoOn(level)
           right == AutoOff(level)
<1>1. n \in Nat /\ DOMAIN list = 1..n
  OBVIOUS
<1>2. PICK f : /\ FoldsTo(f, list)
               /\ \A k \in 0..n : FoldOK(f[k], list, k)
               /\ \A k \in 0..(n - 1) :
                      (f[k].err = NoError /\ f[k + 1].err = NoError) =>
                          Visited(f[k + 1], f[k], list[k + 1])
  BY FoldedIs
<1>3. PICK g : /\ Rounds(g, "flow", right, From(t), list, n)
               /\ Loop("flow", right, From(t), list) = g[n]
  <2> HIDE DEF right
  <2> QED
    BY <1>1, LoopRounds
<1> DEFINE S == {k \in 0..n : f[k].err = NoError => Agreed(f[k], g[k], level, s)}
<1>4. 0 \in S
  <2>1. f[0].out = <<>> /\ f[0].group = <<>> /\ g[0] = From(t)
    BY <1>2, <1>3 DEF FoldsTo, Rounds
  <2>2. \A base : Loop("flow", left, base, <<>>) = base
    BY TuplesAre, LoopGrows
  <2>3. Shaped(From(s).st) /\ Same(From(s).st, From(t).st) /\ From(s).router = From(t).router
    BY DEF Same, From
  <2> HIDE DEF left
  <2>4. Agreed(f[0], g[0], level, s)
    BY <2>1, <2>2, <2>3 DEF Agreed, left
  <2> QED
    BY <1>1, <2>4
<1>5. ASSUME NEW k \in 0..(n - 1), k \in S PROVE k + 1 \in S
  <2> SUFFICES ASSUME f[k + 1].err = NoError
               PROVE  Agreed(f[k + 1], g[k + 1], level, s)
    BY <1>1
  <2>1. k + 1 \in 1..n /\ (k + 1) - 1 = k /\ k \in 0..n /\ k + 1 \in DOMAIN list
    BY <1>1
  <2>2. f[k].err = NoError
    BY <1>2 DEF FoldsTo
  <2>3. Visited(f[k + 1], f[k], list[k + 1]) /\ FoldOK(f[k], list, k)
    BY <1>2, <2>1, <2>2
  <2>4. g[k + 1] = Round("flow", right, g[k], list[k + 1])
    BY <1>3, <2>1 DEF Rounds
  <2>5. Agreed(f[k], g[k], level, s) /\ list[k + 1] \in Nodes
    BY <1>5, <2>1, <2>2
  <2> QED
    BY <2>2, <2>3, <2>4, <2>5, VisitAgrees DEF FoldOK
<1> HIDE DEF S
<1>6. n \in S
  BY <1>1, <1>4, <1>5, UpTo
<1>7. /\ f[n] = Folded(list) /\ FoldOK(f[n], list, n)
      /\ f[n].err = NoError => Agreed(f[n], g[n], level, s)
  BY <1>1, <1>2, <1>6 DEF S, FoldsTo
<1>8. CASE f[n].err # NoError
  <2>1. normal = f[n]
    BY <1>7, <1>8, AutoIs
  <2> HIDE DEF normal
  <2> QED
    BY <1>7, <1>8, <2>1 DEF FoldOK, normal
<1>9. CASE f[n].err = NoError
  <2>1. normal = Flush(f[n])
    BY <1>7, <1>9, AutoIs
  <2>2. /\ Folding(f[n]) /\ GroupOK(f[n].group)
        /\ normal.err = NoError /\ Flushed(normal.out, f[n])
    <3>1. Flush(f[n]).err = NoError /\ Flushed(Flush(f[n]).out, f[n])
      BY <1>7, <1>9, FlushIs DEF FoldOK
    <3> HIDE DEF normal
    <3> QED
      BY <1>7, <1>9, <2>1, <3>1 DEF FoldOK
  <2> DEFINE at == Loop("flow", left, From(s), f[n].out)
             end == Loop("flow", left, at, f[n].group)
             res == Loop("flow", left, From(s), normal.out)
  <2>3. Shaped(at.st) /\ Same(end.st, g[n].st)
    BY <1>7, <1>9 DEF Agreed
  <2>4. /\ Shaped(res.st) /\ res.st.err = end.st.err
        /\ res.st.err = NoError => res.st.table = end.st.table
    <3> HIDE DEF left, normal
    <3> QED
      BY <2>2, <2>3, FlushedAlike
  <2> HIDE DEF end, res, normal
  <2>5. Same(res.st, g[n].st)
    BY <2>3, <2>4, AlikeSame
  <2> QED
    BY <1>3, <2>2, <2>5 DEF res, normal
<1> QED
  BY <1>8, <1>9

-----------------------------------------------------------------------------
(* The routes of a dict.                                                   *)

LEMMA RaiseSame ==
    ASSUME NEW s, Shaped(s), NEW t, Shaped(t), NEW err, err # NoError
    PROVE  Same(Raise(s, err), Raise(t, err))
<1> DEFINE a == Raise(s, err)
           b == Raise(t, err)
<1>1. Shaped(a) /\ a.err = err /\ Shaped(b) /\ b.err = err
  BY ShapedIsSound, RaiseSound
<1> HIDE DEF a, b
<1>2. Same(a, b)
  BY <1>1 DEF Same
<1> QED
  BY <1>2 DEF a, b

LEMMA EmittedSame ==
    ASSUME NEW s, NEW t, Same(s, t), NEW new, IsSeq(new)
    PROVE  Same(Emitted(s, new), Emitted(t, new))
<1> DEFINE a == Emitted(s, new)
           b == Emitted(t, new)
<1>1. Shaped(s) => Shaped(a) /\ a.err = s.err /\ a.table = s.table
  BY EmittedIs
<1>2. Shaped(t) => Shaped(b) /\ b.err = t.err /\ b.table = t.table
  BY EmittedIs
<1> HIDE DEF a, b
<1>3. Same(a, b)
  BY <1>1, <1>2 DEF Same
<1> QED
  BY <1>3 DEF a, b

LEMMA BodySame ==
    ASSUME NEW s, NEW t, Going(s, t), NEW body \in Seq(Nodes)
    PROVE  Same(CompileBody(body, TRUE, s), CompileBody(body, FALSE, t))
<1> DEFINE normal == Normalize(body, TRUE)
           left == NormalBody(normal, s)
           right == BodyLoop(t, body)
<1>1. /\ CompileBody(body, TRUE, s) = IF body = <<>> THEN Raise(s, "EmptyRoute") ELSE left
      /\ CompileBody(body, FALSE, t) = IF body = <<>> THEN Raise(t, "EmptyRoute") ELSE right
  <2>1. /\ Normalize(body, FALSE).err = NoError /\ Normalize(body, FALSE).out = body
    BY DEF Normalize
  <2>2. NormalBody(Normalize(body, FALSE), t) = right
    BY <2>1, Zenon DEF NormalBody, BodyLoop
  <2> QED
    BY <2>2, Zenon DEF CompileBody
<1>2. Shaped(s) /\ Shaped(t)
  BY GoingBoth
<1>3. left = IF normal.err # NoError THEN Raise(s, normal.err) ELSE BodyLoop(s, normal.out)
  BY Zenon DEF NormalBody, BodyLoop
<1>4. normal.err \in {NoError, "TypeError"} /\ Same(left, right)
  <2> DEFINE on == AutoOn("body")
             off == AutoOff("body")
  <2>0. Same(s, t)
    BY DEF Going
  <2>1. /\ normal.err \in {NoError, "TypeError"}
        /\ normal.err = NoError => Same(Loop("flow", on, From(s), normal.out).st,
                                        Loop("flow", off, From(t), body).st)
    BY <2>0, NormalSame
  <2>2. IsSeq(normal.out) /\ IsSeq(body)
    BY NormalizeKeepsNodes DEF ListOK, IsSeq
  <2>3. on.level = "body" /\ off.level = "body"
    BY DEF AutoOn, AutoOff
  <2> HIDE DEF normal, left, right, on, off
  <2>4. CASE normal.err = NoError
    <3>1. left = Loop("flow", on, From(s), normal.out).st
      BY <1>3, <2>2, <2>3, <2>4, BodyLoopFlows
    <3>2. right = Loop("flow", off, From(t), body).st
      BY <2>2, <2>3, BodyLoopFlows DEF right
    <3> QED
      BY <2>1, <2>4, <3>1, <3>2
  <2>5. CASE normal.err # NoError
    <3>1. normal.err = "TypeError" /\ left = Raise(s, "TypeError")
      BY <1>3, <2>1, <2>5
    <3> DEFINE a == Raise(s, "TypeError")
    <3>2. Shaped(a) /\ a.err = "TypeError"
      BY <1>2, ShapedIsSound, RaiseSound
    <3> HIDE DEF a
    <3>3. left = a
      BY <3>1 DEF a
    <3> QED
      BY <3>1, <3>2, <3>3 DEF Same
  <2> QED
    BY <2>4, <2>5
<1> HIDE DEF left, right
<1>5. CASE body = <<>>
  BY <1>1, <1>2, <1>5, RaiseSame, NoErrorIsNone
<1>6. CASE body # <<>>
  BY <1>1, <1>4, <1>6
<1> QED
  BY <1>5, <1>6

LEMMA RoutesSame ==
    ASSUME NEW s, NEW t, Going(s, t), NEW dict,
           dict.routes \in Seq([route : Routes, body : Seq(Nodes)])
    PROVE  Same(CompileRoutes(dict, TRUE, s).st, CompileRoutes(dict, FALSE, t).st)
<1> DEFINE list == dict.routes
           n == Len(list)
           hole == <<Route(<<>>)>>
           first == [st |-> Emitted(s, hole), starts |-> <<>>, jumps |-> {}]
           second == [st |-> Emitted(t, hole), starts |-> <<>>, jumps |-> {}]
<1>1. n \in Nat /\ DOMAIN list = 1..n /\ \A k \in 1..n : list[k].body \in Seq(Nodes)
  <2> DEFINE T == [route : Routes, body : Seq(Nodes)]
  <2>1. \A r \in T : r.body \in Seq(Nodes)
    OBVIOUS
  <2>2. list \in Seq(T)
    OBVIOUS
  <2> HIDE DEF T, list
  <2>3. n \in Nat /\ DOMAIN list = 1..n /\ \A k \in 1..n : list[k] \in T
    BY <2>2
  <2> QED
    BY <2>1, <2>3
<1>2. /\ CompileRoutes(dict, TRUE, s) = RouteLoop(TRUE, first, list)
      /\ CompileRoutes(dict, FALSE, t) = RouteLoop(FALSE, second, list)
  BY Zenon DEF CompileRoutes, RouteLoop
<1>3. Same(first.st, second.st)
  <2>1. Same(s, t) /\ IsSeq(hole)
    BY TuplesAre DEF Going
  <2> HIDE DEF hole
  <2>2. Same(Emitted(s, hole), Emitted(t, hole))
    BY <2>1, EmittedSame
  <2> QED
    BY <2>2
<1> HIDE DEF first, second, list, n
<1>4. PICK g : Rounds(g, "routes", TRUE, first, list, n) /\ RouteLoop(TRUE, first, list) = g[n]
  BY <1>1, RouteRounds, ZenonT(30)
<1>5. PICK h : Rounds(h, "routes", FALSE, second, list, n) /\ RouteLoop(FALSE, second, list) = h[n]
  BY <1>1, RouteRounds, ZenonT(30)
<1> DEFINE S == {k \in 0..n : Same(g[k].st, h[k].st)}
<1>6. 0 \in S
  BY <1>1, <1>3, <1>4, <1>5 DEF Rounds
<1>7. ASSUME NEW k \in 0..(n - 1), k \in S PROVE k + 1 \in S
  <2>1. k + 1 \in 1..n /\ (k + 1) - 1 = k
    BY <1>1
  <2> DEFINE a == g[k]
             b == h[k]
             c == CompileBody(list[k + 1].body, TRUE, a.st)
             d == CompileBody(list[k + 1].body, FALSE, b.st)
             jump == <<Jump(0)>>
  <2>2. /\ g[k + 1] = Round("routes", TRUE, a, list[k + 1])
        /\ h[k + 1] = Round("routes", FALSE, b, list[k + 1])
    BY <1>4, <1>5, <2>1 DEF Rounds
  <2>3. /\ g[k + 1] = IF a.st.err # NoError THEN a ELSE AddRoute(a, list[k + 1].route, c)
        /\ h[k + 1] = IF b.st.err # NoError THEN b ELSE AddRoute(b, list[k + 1].route, d)
    BY <2>2, Zenon DEF Round
  <2>4. \A acc, route, body : AddRoute(acc, route, body).st = Emitted(body, jump)
    BY DEF AddRoute
  <2>5. Same(a.st, b.st) /\ IsSeq(jump)
    BY <1>7, TuplesAre
  <2>6. Going(a.st, b.st) => Same(c, d)
    BY <1>1, <2>1, BodySame
  <2> HIDE DEF a, b, c, d, jump
  <2>7. CASE a.st.err = "TypeError"
    <3>1. g[k + 1] = a
      BY <2>3, <2>7, NoErrorIsNone
    <3>2. Same(g[k + 1].st, h[k + 1].st)
      BY <2>5, <2>7, <3>1 DEF Same
    <3> QED
      BY <2>1, <3>2
  <2>8. CASE a.st.err \notin {NoError, "TypeError"}
    <3>1. g[k + 1] = a /\ h[k + 1] = b
      BY <2>3, <2>5, <2>8 DEF Same
    <3> QED
      BY <2>1, <2>5, <3>1
  <2>9. CASE a.st.err = NoError
    <3>1. Going(a.st, b.st) /\ b.st.err = NoError
      BY <2>5, <2>9, GoingBoth DEF Going
    <3>2. g[k + 1].st = Emitted(c, jump) /\ h[k + 1].st = Emitted(d, jump)
      BY <2>3, <2>4, <2>9, <3>1
    <3>3. Same(Emitted(c, jump), Emitted(d, jump))
      BY <2>5, <2>6, <3>1, EmittedSame
    <3> QED
      BY <2>1, <3>2, <3>3
  <2> QED
    BY <2>7, <2>8, <2>9
<1> HIDE DEF S
<1>8. n \in S
  BY <1>1, <1>6, <1>7, UpTo
<1> QED
  BY <1>2, <1>4, <1>5, <1>8 DEF S

LEMMA PatchIs ==
    ASSUME NEW st, Shaped(st), NEW hole, NEW starts, NEW jumps
    PROVE  LET new == PatchRoutes(st, hole, starts, jumps)
           IN  /\ Shaped(new) /\ new.err = st.err /\ new.table = st.table
               /\ Len(new.code) = Len(st.code)
               /\ \A i \in 1..Len(st.code) :
                      new.code[i] = IF i = hole THEN Route(starts)
                                    ELSE IF i \in jumps THEN Jump(Len(st.code) + 1)
                                    ELSE st.code[i]
<1> DEFINE n == Len(st.code)
           code == [i \in DOMAIN st.code |->
                       IF i = hole THEN Route(starts)
                       ELSE IF i \in jumps THEN Jump(n + 1)
                       ELSE st.code[i]]
           new == PatchRoutes(st, hole, starts, jumps)
<1> SUFFICES /\ Shaped(new) /\ new.err = st.err /\ new.table = st.table
             /\ Len(new.code) = n
             /\ \A i \in 1..n : new.code[i] = IF i = hole THEN Route(starts)
                                               ELSE IF i \in jumps THEN Jump(n + 1)
                                               ELSE st.code[i]
  OBVIOUS
<1>1. new = [err |-> st.err, code |-> code, table |-> st.table]
  <2>1. new = [st EXCEPT !.code = code]
    BY Zenon DEF PatchRoutes
  <2>2. st = [err |-> st.err, code |-> st.code, table |-> st.table]
    BY DEF Shaped
  <2> HIDE DEF code, new
  <2> QED
    BY <2>1, <2>2
<1>2. n \in Nat /\ DOMAIN st.code = 1..n
  BY SeqIs DEF Shaped
<1>3. IsSeq(code) /\ Len(code) = n
  <2>1. code = [i \in 1..n |-> code[i]]
    BY <1>2
  <2> HIDE DEF code, n
  <2> QED
    BY <1>2, <2>1, FunctionIsSeq
<1>4. \A i \in 1..n : code[i] = IF i = hole THEN Route(starts)
                                ELSE IF i \in jumps THEN Jump(n + 1)
                                ELSE st.code[i]
  BY <1>2
<1> HIDE DEF code, new, n
<1> QED
  BY <1>1, <1>3, <1>4 DEF Shaped

LEMMA DictSame == DictsAgree
<1> SUFFICES ASSUME NEW dict \in Nodes, dict.kind = "dict", NEW s, NEW t, Going(s, t)
             PROVE  Same(DictCode(dict, TRUE, s), DictCode(dict, FALSE, t))
  BY Zenon DEF DictsAgree
<1> DEFINE a == CompileRoutes(dict, TRUE, s)
           b == CompileRoutes(dict, FALSE, t)
           c == PatchRoutes(a.st, Len(s.code) + 1, a.starts, a.jumps)
           d == PatchRoutes(b.st, Len(t.code) + 1, b.starts, b.jumps)
<1>1. /\ DictCode(dict, TRUE, s) = IF a.st.err = NoError THEN c ELSE a.st
      /\ DictCode(dict, FALSE, t) = IF b.st.err = NoError THEN d ELSE b.st
  BY Zenon DEF DictCode, EmitRoutes, Then
<1>2. Same(a.st, b.st)
  BY NodesTyped, RoutesSame
<1> SUFFICES Same(IF a.st.err = NoError THEN c ELSE a.st, IF b.st.err = NoError THEN d ELSE b.st)
  BY <1>1, Zenon
<1> HIDE DEF a, b
<1>3. CASE a.st.err = "TypeError"
  BY <1>2, <1>3, NoErrorIsNone DEF Same
<1>4. CASE a.st.err \notin {NoError, "TypeError"}
  <2>1. b.st.err # NoError
    BY <1>2, <1>4 DEF Same
  <2> QED
    BY <1>2, <1>4, <2>1
<1>5. CASE a.st.err = NoError
  <2>1. Shaped(a.st) /\ Shaped(b.st) /\ b.st.err = NoError /\ a.st.table = b.st.table
    BY <1>2, <1>5, GoingBoth DEF Going
  <2> DEFINE ast == a.st
             bst == b.st
  <2> HIDE DEF ast, bst
  <2>2. Shaped(c) /\ c.err = NoError /\ c.table = a.st.table
    <3>1. Shaped(ast)
      BY <2>1 DEF ast
    <3>2. \A hole, starts, jumps :
             /\ Shaped(PatchRoutes(ast, hole, starts, jumps))
             /\ PatchRoutes(ast, hole, starts, jumps).err = ast.err
             /\ PatchRoutes(ast, hole, starts, jumps).table = ast.table
      BY <3>1, PatchIs
    <3>3. ast.err = NoError /\ ast = a.st
      BY <1>5, <2>1 DEF ast
    <3>4. c = PatchRoutes(ast, Len(s.code) + 1, a.starts, a.jumps)
      BY DEF ast
    <3> HIDE DEF c
    <3> QED
      BY <3>2, <3>3, <3>4
  <2>3. Shaped(d) /\ d.err = NoError /\ d.table = b.st.table
    <3>1. Shaped(bst)
      BY <2>1 DEF bst
    <3>2. \A hole, starts, jumps :
             /\ Shaped(PatchRoutes(bst, hole, starts, jumps))
             /\ PatchRoutes(bst, hole, starts, jumps).err = bst.err
             /\ PatchRoutes(bst, hole, starts, jumps).table = bst.table
      BY <3>1, PatchIs
    <3>3. bst.err = NoError /\ bst = b.st
      BY <1>5, <2>1 DEF bst
    <3>4. d = PatchRoutes(bst, Len(t.code) + 1, b.starts, b.jumps)
      BY DEF bst
    <3> HIDE DEF d
    <3> QED
      BY <3>2, <3>3, <3>4
  <2> HIDE DEF c, d
  <2>4. Same(c, d)
    BY <2>1, <2>2, <2>3 DEF Same
  <2> QED
    BY <1>5, <2>1, <2>4
<1> QED
  BY <1>3, <1>4, <1>5

-----------------------------------------------------------------------------
(* The list of nodes.                                                      *)

\* _compile looks ahead from a router to its dict; the flow looks back.
LEMMA NodeLoopFlows ==
    ASSUME NEW st, NEW top, ListOK(top), NEW given, given.level = "top"
    PROVE  NodeLoop(top, given.auto, st, [i \in DOMAIN top |-> i]) =
               Loop("flow", given, From(st), top).st
<1> DEFINE n == Len(top)
           seq == [i \in DOMAIN top |-> i]
           flag == given.auto
           with == [out |-> top, auto |-> flag]
<1>1. n \in Nat /\ DOMAIN seq = 1..n /\ DOMAIN top = 1..n /\ \A k \in 1..n : seq[k] = k
  BY SeqIs DEF ListOK
<1>2. with.out = top /\ with.auto = flag
  OBVIOUS
<1> HIDE DEF n, seq, flag
<1>3. PICK h : Rounds(h, "nodes", with, st, seq, n) /\ NodeLoop(top, flag, st, seq) = h[n]
  BY <1>1, NodeRounds
<1>4. PICK g : /\ Rounds(g, "flow", given, From(st), top, n)
               /\ Loop("flow", given, From(st), top) = g[n]
  BY <1>1, LoopRounds
<1> HIDE DEF with
<1> DEFINE Router(k) == k \in 1..n /\ top[k].kind = "stage" /\ IsDict(top, k + 1)
           OK(k) == /\ g[k].router = (k \in 1..n /\ top[k].kind = "stage")
                    /\ Router(k) => h[k] = g[k + 1].st
                    /\ ~Router(k) => h[k] = g[k].st
           S == {k \in 0..n : OK(k)}
<1>5. 0 \in S
  <2>1. h[0] = st /\ g[0] = From(st) /\ 0 \notin 1..n /\ 0 \in 0..n
    BY <1>1, <1>3, <1>4 DEF Rounds
  <2>2. g[0].st = st /\ g[0].router = FALSE
    BY <2>1 DEF From
  <2>3. OK(0)
    BY <2>1, <2>2
  <2> HIDE DEF OK
  <2> QED
    BY <2>1, <2>3
<1>6. ASSUME NEW k \in 0..(n - 1), k \in S PROVE k + 1 \in S
  <2> DEFINE x == top[k + 1]
  <2>1. k + 1 \in 1..n /\ (k + 1) - 1 = k /\ (k + 1 > 1 <=> k \in 1..n)
    BY <1>1
  <2>2. h[k + 1] = IF h[k].err = NoError THEN CompileNode(top, k + 1, flag, h[k]) ELSE h[k]
    <3>1. h[k + 1] = Round("nodes", with, h[k], k + 1)
      BY <1>1, <1>3, <2>1 DEF Rounds
    <3> QED
      BY <1>2, <3>1, Zenon DEF Round, Then
  <2>3. g[k + 1] = Round("flow", given, g[k], x)
    BY <1>4, <2>1 DEF Rounds
  <2>4. /\ g[k].st.err # NoError => g[k + 1].st = g[k].st
        /\ g[k].st.err = NoError => g[k + 1].st = NodeAfter(given, g[k].router, x, g[k].st)
        /\ g[k + 1].router = (x.kind = "stage")
    BY <2>3, FlowIs
  <2>5. OK(k)
    BY <1>6
  <2>6. x.kind \in {"stage", "parallel", "dict"}
    BY <2>1, NodesTyped DEF ListOK, IsNode, n
  <2>7. k + 2 \in DOMAIN top =>
            /\ k + 2 \in 1..n /\ g[k + 2] = Round("flow", given, g[k + 1], top[k + 2])
    <3>1. (k + 2) - 1 = k + 1
      BY <1>1
    <3> QED
      BY <1>1, <1>4, <3>1 DEF Rounds
  <2>8. (k + 1) + 1 = k + 2
    BY <1>1
  <2> SUFFICES OK(k + 1)
    BY <2>1
  <2>9. g[k + 1].router = (k + 1 \in 1..n /\ top[k + 1].kind = "stage")
    BY <2>1, <2>4
  <2>10. CASE x.kind = "parallel"
    <3>1. ~Router(k) /\ ~Router(k + 1)
      BY <2>10 DEF IsDict
    <3>2. h[k] = g[k].st
      BY <2>5, <3>1
    <3>3. CompileNode(top, k + 1, flag, h[k]) = CompileParallel(x, h[k])
      BY <2>10 DEF CompileNode
    <3>4. NodeAfter(given, g[k].router, x, g[k].st) = CompileParallel(x, g[k].st)
      BY <2>10, ParallelAfter
    <3>5. h[k + 1] = g[k + 1].st
      BY <2>2, <2>4, <3>2, <3>3, <3>4
    <3> QED
      BY <2>9, <3>1, <3>5
  <2>11. CASE x.kind = "dict"
    <3>1. ~Router(k + 1) /\ IsDict(top, k + 1)
      BY <1>1, <2>1, <2>11 DEF IsDict
    <3>2. CASE k \in 1..n /\ top[k].kind = "stage"
      <4>1. h[k] = g[k + 1].st
        BY <2>5, <3>1, <3>2
      <4>2. CompileNode(top, k + 1, flag, h[k]) = h[k]
        BY <2>1, <2>11, <3>2 DEF CompileNode
      <4>3. h[k + 1] = g[k + 1].st
        BY <2>2, <4>1, <4>2
      <4> QED
        BY <2>9, <3>1, <4>3
    <3>3. CASE ~(k \in 1..n /\ top[k].kind = "stage")
      <4>1. h[k] = g[k].st /\ ~g[k].router
        BY <2>5, <3>3
      <4>2. CompileNode(top, k + 1, flag, h[k]) = Raise(h[k], "DictFirst")
        BY <2>1, <2>11, <3>3 DEF CompileNode
      <4>3. NodeAfter(given, g[k].router, x, g[k].st) = Raise(g[k].st, "DictFirst")
        BY <2>11, <4>1 DEF NodeAfter
      <4>4. h[k + 1] = g[k + 1].st
        BY <2>2, <2>4, <4>1, <4>2, <4>3
      <4> QED
        BY <2>9, <3>1, <4>4
    <3> QED
      BY <3>2, <3>3
  <2>12. CASE x.kind = "stage" /\ ~IsDict(top, k + 2)
    <3>1. ~Router(k) /\ ~Router(k + 1)
      BY <2>8, <2>12 DEF IsDict
    <3>2. h[k] = g[k].st
      BY <2>5, <3>1
    <3>3. CompileNode(top, k + 1, flag, h[k]) = CompileStage(x, h[k])
      BY <2>8, <2>12 DEF CompileNode
    <3>4. NodeAfter(given, g[k].router, x, g[k].st) = CompileStage(x, g[k].st)
      BY <2>12, StageAfter
    <3>5. h[k + 1] = g[k + 1].st
      BY <2>2, <2>4, <3>2, <3>3, <3>4
    <3> QED
      BY <2>9, <3>1, <3>5
  <2>13. CASE x.kind = "stage" /\ IsDict(top, k + 2)
    <3> DEFINE dict == top[k + 2]
               entry == CompileStage(x, h[k])
    <3>1. ~Router(k) /\ Router(k + 1) /\ dict.kind = "dict"
      BY <2>1, <2>8, <2>13 DEF IsDict
    <3>2. h[k] = g[k].st
      BY <2>5, <3>1
    <3>3. CompileNode(top, k + 1, flag, h[k]) =
              IF entry.err = NoError THEN DictCode(dict, flag, entry) ELSE entry
      <4>1. CompileNode(top, k + 1, flag, h[k]) = CompileRouter(x, dict, flag, h[k])
        BY <2>8, <2>13 DEF CompileNode
      <4> QED
        BY <4>1, Zenon DEF CompileRouter, Then, DictCode
    <3>4. NodeAfter(given, g[k].router, x, g[k].st) = CompileStage(x, g[k].st)
      BY <2>13, StageAfter
    <3>5. g[k + 2] = Round("flow", given, g[k + 1], dict) /\ g[k + 1].router = TRUE
      BY <2>4, <2>7, <2>13 DEF IsDict
    <3>6. \A acc, node :
             /\ acc.st.err # NoError => Round("flow", given, acc, node).st = acc.st
             /\ acc.st.err = NoError => Round("flow", given, acc, node).st =
                                            NodeAfter(given, acc.router, node, acc.st)
      BY FlowIs
    <3>11. /\ g[k + 1].st.err # NoError => g[k + 2].st = g[k + 1].st
           /\ g[k + 1].st.err = NoError =>
                  g[k + 2].st = NodeAfter(given, g[k + 1].router, dict, g[k + 1].st)
      <4> HIDE DEF dict
      <4> QED
        BY <3>5, <3>6
    <3>7. \A s : NodeAfter(given, g[k + 1].router, dict, s) = DictCode(dict, flag, s)
      BY <3>1, <3>5 DEF NodeAfter, flag
    <3> HIDE DEF dict, entry
    <3>8. h[k + 1] = g[k + 2].st
      <4>1. CASE h[k].err # NoError
        <5>1. h[k + 1] = h[k] /\ g[k + 1].st = g[k].st
          BY <2>2, <2>4, <3>2, <4>1
        <5> QED
          BY <3>2, <3>11, <4>1, <5>1
      <4>2. CASE h[k].err = NoError
        <5>1. g[k + 1].st = entry
          BY <2>4, <3>2, <3>4, <4>2 DEF entry
        <5>2. h[k + 1] = IF entry.err = NoError THEN DictCode(dict, flag, entry) ELSE entry
          BY <2>2, <3>3, <4>2
        <5> QED
          BY <3>11, <3>7, <5>1, <5>2
      <4> QED
        BY <4>1, <4>2
    <3> QED
      BY <2>8, <2>9, <3>1, <3>8
  <2> QED
    BY <2>6, <2>10, <2>11, <2>12, <2>13
<1> HIDE DEF S
<1>7. n \in S
  BY <1>1, <1>5, <1>6, UpTo
<1>8. OK(n) /\ ~Router(n)
  BY <1>1, <1>7 DEF S, IsDict
<1> QED
  BY <1>3, <1>4, <1>8 DEF flag, seq

LEMMA CompileIs ==
    ASSUME NEW list \in Seq(Nodes), NEW given, given.level = "top"
    PROVE  LET normal == Normalize(list, given.auto)
               flow == Loop("flow", given, From(Start), normal.out).st
           IN  /\ normal.err # NoError =>
                      Compile(list, given.auto) = Raise(Start, normal.err)
               /\ (normal.err = NoError /\ flow.err # NoError) =>
                      Compile(list, given.auto) = flow
               /\ (normal.err = NoError /\ flow.err = NoError) =>
                      Compile(list, given.auto) =
                          Emitted(flow, <<EmitPipeline("pipeline_end")>>)
<1> DEFINE flag == given.auto
           normal == Normalize(list, flag)
           loop == NodeLoop(normal.out, flag, Start, [i \in DOMAIN normal.out |-> i])
           flow == Loop("flow", given, From(Start), normal.out).st
           end == <<EmitPipeline("pipeline_end")>>
<1>1. Compile(list, flag) =
          IF normal.err # NoError THEN Raise(Start, normal.err)
          ELSE IF loop.err = NoError THEN Emitted(loop, end) ELSE loop
  BY Zenon DEF Compile, CompileNormal, Then, NodeLoop
<1>2. loop = flow
  <2>1. ListOK(normal.out)
    BY NormalizeKeepsNodes
  <2> HIDE DEF normal
  <2> QED
    BY <2>1, NodeLoopFlows
<1> HIDE DEF loop, flow, normal, end
<1> QED
  BY <1>1, <1>2 DEF flow, normal, end

LEMMA AutoErrors ==
    ASSUME NEW list \in Seq(Nodes)
    PROVE  Compile(list, TRUE).err \in {Compile(list, FALSE).err, "TypeError"}
<1> DEFINE on == AutoOn("top")
           off == AutoOff("top")
           normal == Normalize(list, TRUE)
           plain == Normalize(list, FALSE)
           left == Loop("flow", on, From(Start), normal.out).st
           right == Loop("flow", off, From(Start), list).st
           end == <<EmitPipeline("pipeline_end")>>
           a == Compile(list, TRUE)
           b == Compile(list, FALSE)
<1>1. /\ on.level = "top" /\ on.auto = TRUE /\ off.level = "top" /\ off.auto = FALSE
  BY DEF AutoOn, AutoOff
<1>2. Shaped(Start) /\ Same(Start, Start)
  BY StartSound DEF Sound, Same
<1>3. plain.err = NoError /\ plain.out = list
  BY DEF Normalize
<1>4. /\ normal.err \in {NoError, "TypeError"}
      /\ normal.err = NoError => Same(left, right)
  BY <1>2, NormalSame, DictSame
<1>5. /\ normal.err # NoError => a = Raise(Start, normal.err)
      /\ (normal.err = NoError /\ left.err # NoError) => a = left
      /\ (normal.err = NoError /\ left.err = NoError) => a = Emitted(left, end)
  <2> HIDE DEF on, left, end
  <2> QED
    BY <1>1, CompileIs, Zenon DEF left, end
<1>6. /\ right.err # NoError => b = right
      /\ right.err = NoError => b = Emitted(right, end)
  <2> HIDE DEF off, right, end, plain
  <2> QED
    BY <1>1, <1>3, CompileIs, Zenon DEF right, end, plain
<1>7. IsSeq(end)
  BY TuplesAre
<1> SUFFICES a.err \in {b.err, "TypeError"}
  OBVIOUS
<1> HIDE DEF on, off, normal, left, right, end, a, b
<1>8. CASE normal.err # NoError
  <2>1. a = Raise(Start, "TypeError")
    BY <1>4, <1>5, <1>8
  <2>2. Raise(Start, "TypeError").err = "TypeError"
    BY DEF Raise, Start
  <2> QED
    BY <2>1, <2>2
<1>9. CASE normal.err = NoError
  <2>1. Same(left, right)
    BY <1>4, <1>9
  <2>2. a.err = left.err
    BY <1>5, <1>7, <1>9, <2>1, EmittedIs DEF Same
  <2>3. CASE left.err = "TypeError"
    BY <2>2, <2>3
  <2>4. CASE left.err # "TypeError"
    <3>1. Shaped(right) /\ left.err = right.err
      BY <2>1, <2>4 DEF Same
    <3>2. b.err = right.err
      BY <1>6, <1>7, <3>1, EmittedIs
    <3> QED
      BY <2>2, <3>1, <3>2
  <2> QED
    BY <2>3, <2>4
<1> QED
  BY <1>8, <1>9

(***************************************************************************)
(* _auto_parallelize: with auto_parallel=True a list compiles, or fails    *)
(* with the error it fails with anyway, or with the TypeError of           *)
(* _independent.  No group it folds is refused as a declared conflict, and *)
(* no dict loses its router to a group.                                    *)
(***************************************************************************)
THEOREM AutoNeverAddsAnError == Spec => []AutoAddsNoError
<1>1. CompilerInv => AutoAddsNoError
  BY AutoErrors DEF CompilerInv, AutoAddsNoError
<1> QED
  BY <1>1, CompilerInductive, PTL
=============================================================================
