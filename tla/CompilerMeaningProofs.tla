------------------------ MODULE CompilerMeaningProofs ------------------------
(***************************************************************************)
(* Compiled code computes what the list of nodes says, for every list: the *)
(* fold of _auto_parallelize keeps the meaning of a list, and the code of  *)
(* each node computes the meaning of the node.                             *)
(***************************************************************************)
EXTENDS CompilerAutoProofs

-----------------------------------------------------------------------------
(* Values.                                                                 *)

\* The values of all keys, or the conflict.
ValueOK(v) == v # MergeConflict => v = [data |-> [k \in Keys |-> v.data[k]]]

AllOK(all) == \A v \in all : ValueOK(v)

LEMMA DataIsValue ==
    ASSUME NEW d
    PROVE  /\ [data |-> d] # MergeConflict /\ [data |-> d].data = d
           /\ d = [k \in Keys |-> d[k]] => ValueOK([data |-> d])
<1>1. DOMAIN [data |-> d] # DOMAIN MergeConflict
  BY DEF MergeConflict
<1>2. [data |-> d].data = d
  OBVIOUS
<1>3. [data |-> d] # MergeConflict
  BY <1>1, Zenon
<1> QED
  BY <1>2, <1>3, Zenon DEF ValueOK

LEMMA ValueIs ==
    ASSUME NEW v, ValueOK(v), v # MergeConflict
    PROVE  v = [data |-> v.data] /\ v.data = [k \in Keys |-> v.data[k]]
<1> DEFINE d == [k \in Keys |-> v.data[k]]
<1>1. v = [data |-> d]
  BY DEF ValueOK
<1> HIDE DEF d
<1>2. v.data = d
  BY <1>1
<1> QED
  BY <1>1, <1>2, Zenon DEF d

\* What a stage writes are keys.
LEMMA WritesAreKeys ==
    ASSUME NEW fn \in Nodes, fn.kind = "stage"
    PROVE  /\ KeysOf(fn.writes) \subseteq Keys
           /\ fn.reads # Undeclared => fn.reads \subseteq Keys
  BY NodesTyped DEF KeysOf

\* A stage replaces what it writes.
LEMMA StageData ==
    ASSUME NEW fn \in Nodes, fn.kind = "stage", NEW d, d = [k \in Keys |-> d[k]]
    PROVE  LET new == Over(Patch(fn, d), d)
           IN  /\ new = [k \in Keys |-> new[k]]
               /\ \A k \in Keys : new[k] = IF k \in KeysOf(fn.writes)
                                           THEN Patch(fn, d)[k] ELSE d[k]
<1> DEFINE patch == Patch(fn, d)
<1>1. DOMAIN patch = KeysOf(fn.writes)
  BY DEF Patch
<1>2. KeysOf(fn.writes) \subseteq Keys
  BY WritesAreKeys
<1>3. DOMAIN d = Keys
  OBVIOUS
<1>4. DOMAIN patch \cup DOMAIN d = Keys
  BY <1>1, <1>2, <1>3, Zenon
<1> HIDE DEF patch
<1>5. Over(patch, d) = [k \in Keys |-> IF k \in KeysOf(fn.writes) THEN patch[k] ELSE d[k]]
  BY <1>1, <1>4 DEF Over
<1> QED
  BY <1>5 DEF patch

LEMMA NodeKeepsValues ==
    ASSUME NEW node, IsNode(node), NEW v, ValueOK(v)
    PROVE  ValueOK(NodeMeaning(node, v))
<1>1. CASE v = MergeConflict
  BY <1>1, Zenon DEF NodeMeaning
<1>2. CASE v # MergeConflict /\ node.kind = "stage"
  <2> DEFINE new == Over(Patch(node, v.data), v.data)
  <2>1. NodeMeaning(node, v) = [data |-> new]
    BY <1>2, Zenon DEF NodeMeaning
  <2>2. node \in Nodes
    BY <1>2 DEF IsNode
  <2>3. new = [k \in Keys |-> new[k]]
    <3> DEFINE d == v.data
    <3>1. d = [k \in Keys |-> d[k]]
      BY <1>2, ValueIs, Zenon
    <3> HIDE DEF d
    <3>2. Over(Patch(node, d), d) = [k \in Keys |-> Over(Patch(node, d), d)[k]]
      BY <1>2, <2>2, <3>1, StageData, Zenon
    <3> QED
      BY <3>2, Zenon DEF d
  <2> HIDE DEF new
  <2> QED
    BY <2>1, <2>3, DataIsValue
<1>3. CASE v # MergeConflict /\ node.kind # "stage" /\ node.mode # "parallel"
  BY <1>3, Zenon DEF NodeMeaning
<1>4. CASE /\ v # MergeConflict /\ node.kind # "stage" /\ node.mode = "parallel"
           /\ Clash(node.branches)
  BY <1>4, Zenon DEF NodeMeaning, ValueOK
<1>5. CASE /\ v # MergeConflict /\ node.kind # "stage" /\ node.mode = "parallel"
           /\ ~Clash(node.branches)
  <2> DEFINE new == Together(node.branches, v.data)
  <2>1. NodeMeaning(node, v) = [data |-> new]
    BY <1>5, Zenon DEF NodeMeaning
  <2>2. new = [k \in Keys |-> new[k]]
    BY DEF Together
  <2> HIDE DEF new
  <2> QED
    BY <2>1, <2>2, DataIsValue
<1> QED
  BY <1>1, <1>2, <1>3, <1>4, <1>5

LEMMA ThroughKeepsValues ==
    ASSUME NEW node, IsNode(node), NEW all, AllOK(all)
    PROVE  AllOK(Through(node, all))
BY NodeKeepsValues DEF AllOK, Through

-----------------------------------------------------------------------------
(* The meaning of a list, node after node.                                 *)

LEMMA BodyMeansLoop ==
    ASSUME NEW seq, IsSeq(seq), NEW base
    PROVE  BodyMeaning(seq, base) = Loop("mean", "body", base, seq)
<1>1. Len(seq) \in Nat /\ DOMAIN seq = 1..Len(seq)
  BY SeqIs
<1>2. PICK g : /\ Rounds(g, "mean", "body", base, seq, Len(seq))
               /\ BodyMeaning(seq, base) = g[Len(seq)]
  BY <1>1, BodyMeaningRounds
<1>3. PICK h : /\ Rounds(h, "mean", "body", base, seq, Len(seq))
               /\ Loop("mean", "body", base, seq) = h[Len(seq)]
  BY <1>1, LoopRounds
<1> QED
  BY <1>1, <1>2, <1>3, RoundsAgree

LEMMA TopMeansLoop ==
    ASSUME NEW seq, IsSeq(seq), NEW base
    PROVE  TopMeaning(base, seq) = Loop("mean", "top", base, seq)
<1>1. Len(seq) \in Nat /\ DOMAIN seq = 1..Len(seq)
  BY SeqIs
<1>2. PICK g : /\ Rounds(g, "mean", "top", base, seq, Len(seq))
               /\ TopMeaning(base, seq) = g[Len(seq)]
  BY <1>1, TopMeaningRounds
<1>3. PICK h : /\ Rounds(h, "mean", "top", base, seq, Len(seq))
               /\ Loop("mean", "top", base, seq) = h[Len(seq)]
  BY <1>1, LoopRounds
<1> QED
  BY <1>1, <1>2, <1>3, RoundsAgree

\* A round of the loop is one node.
LEMMA MeanIs ==
    ASSUME NEW level, NEW node, NEW all
    PROVE  /\ Round("mean", level, all, node) = Means(level, node, all)
           /\ level = "body" => Means(level, node, all) = Through(node, all)
           /\ node.kind # "dict" => Means(level, node, all) = Through(node, all)
           /\ (level = "top" /\ node.kind = "dict") =>
                  Means(level, node, all) = RoutesMeaning(node, all)
BY DEF Round, Means

KeepsValues(level) ==
    \A node, all : (IsNode(node) /\ AllOK(all)) => AllOK(Means(level, node, all))

LEMMA LoopKeepsValues ==
    ASSUME NEW level, KeepsValues(level), NEW list, ListOK(list), NEW all, AllOK(all)
    PROVE  AllOK(Loop("mean", level, all, list))
<1> DEFINE n == Len(list)
<1>1. n \in Nat /\ DOMAIN list = 1..n /\ \A k \in 1..n : IsNode(list[k])
  BY SeqIs DEF ListOK
<1> HIDE DEF n
<1>2. PICK h : /\ Rounds(h, "mean", level, all, list, n)
               /\ Loop("mean", level, all, list) = h[n]
  BY <1>1, LoopRounds
<1> DEFINE S == {k \in 0..n : AllOK(h[k])}
<1>3. 0 \in S
  BY <1>1, <1>2 DEF Rounds
<1>4. ASSUME NEW k \in 0..(n - 1), k \in S PROVE k + 1 \in S
  <2>1. k + 1 \in 1..n /\ (k + 1) - 1 = k
    BY <1>1
  <2>2. h[k + 1] = Round("mean", level, h[k], list[k + 1])
    BY <1>2, <2>1 DEF Rounds
  <2>3. h[k + 1] = Means(level, list[k + 1], h[k])
    BY <2>2, MeanIs
  <2> QED
    BY <1>1, <1>4, <2>1, <2>3 DEF KeepsValues
<1> HIDE DEF S
<1>5. n \in S
  BY <1>1, <1>3, <1>4, UpTo
<1> QED
  BY <1>2, <1>5 DEF S

LEMMA BodyKeepsValues == KeepsValues("body")
BY MeanIs, ThroughKeepsValues DEF KeepsValues

LEMMA NodesAreListed ==
    ASSUME NEW list \in Seq(Nodes)
    PROVE  ListOK(list) /\ IsSeq(list)
BY DEF ListOK, IsNode, IsSeq

\* The routes of a dict.
LEMMA RoutesAre ==
    ASSUME NEW dict \in Nodes, dict.kind = "dict"
    PROVE  /\ Len(dict.routes) \in Nat /\ DOMAIN dict.routes = 1..Len(dict.routes)
           /\ \A r \in 1..Len(dict.routes) : dict.routes[r].body \in Seq(Nodes)
           /\ \A i, j \in 1..Len(dict.routes) :
                  dict.routes[i].route = dict.routes[j].route => i = j
<1> DEFINE T == [route : Routes, body : Seq(Nodes)]
           routes == dict.routes
<1>1. routes \in Seq(T)
  BY NodesTyped
<1>2. \A i, j \in DOMAIN routes : routes[i].route = routes[j].route => i = j
  BY NodesTyped
<1>3. \A r \in T : r.body \in Seq(Nodes)
  OBVIOUS
<1> HIDE DEF T, routes
<1>4. Len(routes) \in Nat /\ DOMAIN routes = 1..Len(routes) /\ \A r \in 1..Len(routes) : routes[r] \in T
  BY <1>1
<1>5. \A r \in 1..Len(routes) : routes[r].body \in Seq(Nodes)
  BY <1>3, <1>4
<1> QED
  BY <1>2, <1>4, <1>5, Zenon DEF routes

LEMMA TopKeepsValues == KeepsValues("top")
<1> SUFFICES ASSUME NEW node, IsNode(node), NEW all, AllOK(all)
             PROVE  AllOK(Means("top", node, all))
  BY DEF KeepsValues
<1>1. CASE node.kind # "dict"
  BY <1>1, MeanIs, ThroughKeepsValues
<1>2. CASE node.kind = "dict"
  <2>1. node \in Nodes
    BY <1>2 DEF IsNode
  <2>2. ASSUME NEW r \in DOMAIN node.routes
        PROVE  AllOK(BodyMeaning(node.routes[r].body, all))
    <3> DEFINE body == node.routes[r].body
    <3>1. body \in Seq(Nodes)
      BY <1>2, <2>1, RoutesAre
    <3> HIDE DEF body
    <3>2. AllOK(BodyMeaning(body, all))
      BY <3>1, NodesAreListed, BodyMeansLoop, BodyKeepsValues, LoopKeepsValues
    <3> QED
      BY <3>2 DEF body
  <2>3. Means("top", node, all) = RoutesMeaning(node, all)
    BY <1>2, MeanIs
  <2> QED
    BY <2>2, <2>3 DEF RoutesMeaning, AllOK
<1> QED
  BY <1>1, <1>2

-----------------------------------------------------------------------------
(* A group that is folded means what its stages mean one after the other.  *)

\* The first k stages of the group.
First(group, k) == [i \in 1..k |-> group[i]]

\* One stage more changes what it writes, and has read what it would read
\* from the start.
LEMMA TogetherGrows ==
    ASSUME NEW group, GroupOK(group), NEW k \in Nat, k + 1 \in 1..Len(group),
           NEW d, d = [x \in Keys |-> d[x]]
    PROVE  LET so == Together(First(group, k), d)
           IN  Over(Patch(group[k + 1], so), so) = Together(First(group, k + 1), d)
<1> DEFINE f == group[k + 1]
           so == Together(First(group, k), d)
           new == Together(First(group, k + 1), d)
           Of(m, x) == {g \in Range(First(group, m)) : x \in KeysOf(g.writes)}
<1>1. /\ f \in Nodes /\ f.kind = "stage" /\ Len(group) \in Nat
      /\ \A i \in 1..k : /\ group[i].kind = "stage"
                         /\ Apart(group[i], f) /\ Apart(f, group[i])
  <2>1. \A i \in 1..k : i # k + 1 /\ i \in 1..Len(group)
    BY DEF GroupOK
  <2> QED
    BY <2>1 DEF GroupOK
<1>2. /\ Range(First(group, k)) = {group[i] : i \in 1..k}
      /\ Range(First(group, k + 1)) = {group[i] : i \in 1..k} \cup {f}
  BY DEF First, Range
<1>3. /\ so = [x \in Keys |-> so[x]]
      /\ \A x \in Keys : so[x] = IF Of(k, x) = {} THEN d[x]
                                 ELSE Patch(CHOOSE g \in Of(k, x) : TRUE, d)[x]
      /\ new = [x \in Keys |-> new[x]]
      /\ \A x \in Keys : new[x] = IF Of(k + 1, x) = {} THEN d[x]
                                  ELSE Patch(CHOOSE g \in Of(k + 1, x) : TRUE, d)[x]
  BY DEF Together
<1> HIDE DEF so, new, f
<1>4. /\ Over(Patch(f, so), so) = [x \in Keys |-> Over(Patch(f, so), so)[x]]
      /\ \A x \in Keys : Over(Patch(f, so), so)[x] =
             IF x \in KeysOf(f.writes) THEN Patch(f, so)[x] ELSE so[x]
  <2>1. so = [x \in Keys |-> so[x]]
    BY <1>3
  <2>2. Over(Patch(f, so), so) = [x \in Keys |-> Over(Patch(f, so), so)[x]]
    BY <1>1, <2>1, StageData, Zenon
  <2>3. \A x \in Keys : Over(Patch(f, so), so)[x] =
             IF x \in KeysOf(f.writes) THEN Patch(f, so)[x] ELSE so[x]
    BY <1>1, <2>1, StageData
  <2> QED
    BY <2>2, <2>3
<1>5. ASSUME NEW x \in Keys PROVE Over(Patch(f, so), so)[x] = new[x]
  <2>1. CASE x \notin KeysOf(f.writes)
    <3>1. Of(k + 1, x) = Of(k, x)
      BY <1>2, <2>1
    <3> HIDE DEF Of
    <3> QED
      BY <1>3, <1>4, <2>1, <3>1, ZenonT(60)
  <2>2. CASE x \in KeysOf(f.writes)
    <3>1. Of(k + 1, x) = {f}
      <4>1. \A i \in 1..k : x \notin KeysOf(group[i].writes)
        BY <1>1, <2>2 DEF Apart, KeysOf
      <4> QED
        BY <1>2, <2>2, <4>1
    <3> HIDE DEF Of
    <3>2. (CHOOSE g \in {f} : TRUE) = f
      OBVIOUS
    <3>3. new[x] = Patch(f, d)[x]
      BY <1>3, <3>1, <3>2
    <3>4. Restrict(so, KeysOf(f.reads)) = Restrict(d, KeysOf(f.reads))
      <4>1. CASE k = 0
        <5>1. so = d
          <6>1. \A y \in Keys : Of(0, y) = {}
            BY <1>2, <4>1 DEF Of
          <6>2. \A y \in Keys : so[y] = d[y]
            BY <1>3, <4>1, <6>1
          <6>3. [y \in Keys |-> so[y]] = [y \in Keys |-> d[y]]
            BY <6>2
          <6> QED
            BY <1>3, <6>3
        <5> QED
          BY <5>1
      <4>2. CASE k # 0
        <5>1. Apart(group[1], f)
          BY <1>1, <4>2
        <5>2. KeysOf(f.reads) \subseteq Keys /\ f.reads # Undeclared
          BY <1>1, <5>1, WritesAreKeys DEF Apart, KeysOf
        <5>3. ASSUME NEW y \in KeysOf(f.reads) PROVE so[y] = d[y]
          <6>1. \A i \in 1..k : y \notin KeysOf(group[i].writes)
            BY <1>1, <5>2 DEF Apart, KeysOf
          <6>2. Of(k, y) = {}
            BY <1>2, <6>1 DEF Of
          <6> QED
            BY <1>3, <5>2, <6>2
        <5> QED
          BY <5>3 DEF Restrict
      <4> QED
        BY <4>1, <4>2
    <3>5. Patch(f, so)[x] = Patch(f, d)[x]
      BY <2>2, <3>4 DEF Patch
    <3> QED
      BY <1>4, <2>2, <3>3, <3>5
  <2> QED
    BY <2>1, <2>2
<1>6. [x \in Keys |-> Over(Patch(f, so), so)[x]] = [x \in Keys |-> new[x]]
  <2> DEFINE left == Over(Patch(f, so), so)
  <2>1. \A x \in Keys : left[x] = new[x]
    BY <1>5
  <2> HIDE DEF left
  <2>2. [x \in Keys |-> left[x]] = [x \in Keys |-> new[x]]
    BY <2>1
  <2> QED
    BY <2>2 DEF left
<1>7. Over(Patch(f, so), so) = new
  BY <1>3, <1>4, <1>6
<1> QED
  BY <1>7 DEF f, so, new

\* What v has become after the first k stages of the group.
After(group, k, v) ==
    IF v = MergeConflict THEN v ELSE [data |-> Together(First(group, k), v.data)]

LEMMA StageAfterGroup ==
    ASSUME NEW group, GroupOK(group), NEW k \in Nat, k + 1 \in 1..Len(group),
           NEW v, ValueOK(v)
    PROVE  NodeMeaning(group[k + 1], After(group, k, v)) = After(group, k + 1, v)
<1> DEFINE f == group[k + 1]
           so == Together(First(group, k), v.data)
<1>1. CASE v = MergeConflict
  BY <1>1, Zenon DEF After, NodeMeaning
<1>2. CASE v # MergeConflict
  <2>1. f.kind = "stage"
    BY DEF GroupOK
  <2>2. Over(Patch(f, so), so) = Together(First(group, k + 1), v.data)
    <3> DEFINE d == v.data
    <3>1. d = [x \in Keys |-> d[x]]
      BY <1>2, ValueIs, Zenon
    <3> HIDE DEF d
    <3>2. Over(Patch(group[k + 1], Together(First(group, k), d)),
               Together(First(group, k), d)) = Together(First(group, k + 1), d)
      BY <3>1, TogetherGrows
    <3> QED
      BY <3>2, Zenon DEF d
  <2> HIDE DEF so, f
  <2>3. [data |-> so] # MergeConflict /\ [data |-> so].data = so
    BY DataIsValue
  <2>4. After(group, k, v) = [data |-> so]
    BY <1>2, Zenon DEF After, so
  <2>5. NodeMeaning(f, [data |-> so]) = [data |-> Over(Patch(f, so), so)]
    BY <2>1, <2>3, Zenon DEF NodeMeaning
  <2>6. After(group, k + 1, v) = [data |-> Together(First(group, k + 1), v.data)]
    BY <1>2, Zenon DEF After
  <2> QED
    BY <2>2, <2>4, <2>5, <2>6, Zenon DEF f
<1> QED
  BY <1>1, <1>2

LEMMA GroupDoesNotClash ==
    ASSUME NEW group, GroupOK(group)
    PROVE  ~Clash(group)
<1> SUFFICES ASSUME NEW f \in Range(group), NEW g \in Range(group), f # g,
                    KeysOf(f.writes) \cap KeysOf(g.writes) # {}
             PROVE  FALSE
  BY DEF Clash
<1>1. DOMAIN group = 1..Len(group)
  BY DEF GroupOK
<1>2. PICK i \in 1..Len(group), j \in 1..Len(group) : f = group[i] /\ g = group[j]
  BY <1>1 DEF Range
<1>3. Apart(f, g)
  BY <1>2 DEF GroupOK
<1> QED
  BY <1>3 DEF Apart, KeysOf

\* The block that a group becomes.
LEMMA BlockMeans ==
    ASSUME NEW group, GroupOK(group), NEW v
    PROVE  NodeMeaning(Block(group), v) = After(group, Len(group), v)
<1>1. First(group, Len(group)) = group
  <2>1. DOMAIN group = 1..Len(group) /\ group = [i \in DOMAIN group |-> group[i]]
    BY DEF GroupOK
  <2> QED
    BY <2>1 DEF First
<1>2. /\ Block(group).kind # "stage" /\ Block(group).mode = "parallel"
      /\ Block(group).branches = group
  BY DEF Block
<1>3. ~Clash(group)
  BY GroupDoesNotClash
<1> HIDE DEF Block
<1> QED
  BY <1>1, <1>2, <1>3, Zenon DEF NodeMeaning, After

LEMMA GroupMeansBlock ==
    ASSUME NEW group, GroupOK(group), NEW level, NEW all, AllOK(all)
    PROVE  Loop("mean", level, all, group) = Through(Block(group), all)
<1> DEFINE n == Len(group)
<1>1. n \in Nat /\ DOMAIN group = 1..n /\ \A k \in 1..n : group[k].kind = "stage"
  BY DEF GroupOK
<1> HIDE DEF n
<1>2. PICK h : /\ Rounds(h, "mean", level, all, group, n)
               /\ Loop("mean", level, all, group) = h[n]
  BY <1>1, LoopRounds
<1> DEFINE S == {k \in 0..n : h[k] = {After(group, k, v) : v \in all}}
<1>3. 0 \in S
  <2>1. ASSUME NEW v \in all PROVE After(group, 0, v) = v
    <3>1. CASE v = MergeConflict
      BY <3>1 DEF After
    <3>2. CASE v # MergeConflict
      <4> DEFINE d == v.data
      <4>1. v = [data |-> d] /\ d = [x \in Keys |-> d[x]]
        BY <3>2, ValueIs, Zenon DEF AllOK
      <4>2. After(group, 0, v) = [data |-> Together(First(group, 0), d)]
        BY <3>2, Zenon DEF After
      <4> HIDE DEF d
      <4>3. Together(First(group, 0), d) = [x \in Keys |-> d[x]]
        <5>1. Range(First(group, 0)) = {}
          BY DEF First, Range
        <5> QED
          BY <5>1 DEF Together
      <4> QED
        BY <4>1, <4>2, <4>3, Zenon
    <3> QED
      BY <3>1, <3>2
  <2>2. {After(group, 0, v) : v \in all} = all
    BY <2>1
  <2> QED
    BY <1>1, <1>2, <2>2 DEF Rounds
<1>4. ASSUME NEW k \in 0..(n - 1), k \in S PROVE k + 1 \in S
  <2>1. k + 1 \in 1..n /\ (k + 1) - 1 = k /\ k \in Nat
    BY <1>1
  <2>2. h[k + 1] = Round("mean", level, h[k], group[k + 1])
    BY <1>2, <2>1 DEF Rounds
  <2>3. group[k + 1].kind # "dict"
    BY <1>1, <2>1
  <2>4. h[k + 1] = Through(group[k + 1], h[k])
    BY <2>2, <2>3, MeanIs
  <2>5. \A v \in all : NodeMeaning(group[k + 1], After(group, k, v)) = After(group, k + 1, v)
    BY <2>1, StageAfterGroup DEF AllOK, n
  <2>6. h[k] = {After(group, k, v) : v \in all}
    BY <1>4
  <2>7. h[k + 1] = {NodeMeaning(group[k + 1], u) : u \in h[k]}
    BY <2>4, Zenon DEF Through
  <2>8. h[k + 1] = {After(group, k + 1, v) : v \in all}
    BY <2>5, <2>6, <2>7
  <2> QED
    BY <1>1, <2>8
<1> HIDE DEF S
<1>5. n \in S
  BY <1>1, <1>3, <1>4, UpTo
<1>6. h[n] = {After(group, n, v) : v \in all}
  BY <1>5 DEF S
<1>7. \A v \in all : After(group, n, v) = NodeMeaning(Block(group), v)
  BY BlockMeans DEF n
<1>8. h[n] = {NodeMeaning(Block(group), v) : v \in all}
  BY <1>6, <1>7
<1> QED
  BY <1>2, <1>8, Zenon DEF Through

-----------------------------------------------------------------------------
(* What the fold gives is the nodes of the list and blocks of its groups,  *)
(* and means what the list means.                                          *)

MadeNode(n) == n \in Nodes \/ \E group : GroupOK(group) /\ n = Block(group)

Made(list) == IsSeq(list) /\ \A k \in 1..Len(list) : MadeNode(list[k])

LEMMA MadeGrows ==
    ASSUME NEW list, Made(list), NEW n, MadeNode(n)
    PROVE  Made(Append(list, n))
<1>1. /\ IsSeq(Append(list, n)) /\ Len(Append(list, n)) = Len(list) + 1
      /\ \A i \in 1..Len(list) : Append(list, n)[i] = list[i]
      /\ Append(list, n)[Len(list) + 1] = n
  BY AppendIs DEF Made
<1>2. Len(list) \in Nat
  BY SeqIs DEF Made
<1>3. \A k \in 1..(Len(list) + 1) : k \in 1..Len(list) \/ k = Len(list) + 1
  BY <1>2
<1> HIDE DEF MadeNode
<1> QED
  BY <1>1, <1>3 DEF Made

LEMMA FlushedMeans ==
    ASSUME NEW acc, Made(acc.out), GroupOK(acc.group), NEW new, Flushed(new, acc),
           NEW level, NEW all, AllOK(Loop("mean", level, all, acc.out))
    PROVE  /\ Made(new)
           /\ Loop("mean", level, all, new) =
                  Loop("mean", level, Loop("mean", level, all, acc.out), acc.group)
<1> DEFINE at == Loop("mean", level, all, acc.out)
           end == Loop("mean", level, at, acc.group)
<1>1. \A x : Loop("mean", level, all, Append(acc.out, x)) = Round("mean", level, at, x)
  BY LoopGrows DEF Made
<1>2. \A x \in Nodes : MadeNode(x)
  BY DEF MadeNode
<1>3. CASE acc.group = <<>> /\ new = acc.out
  <2>1. end = at
    BY <1>3, LoopOfNone, Zenon
  <2> QED
    BY <1>3, <2>1
<1>4. CASE Len(acc.group) = 1 /\ new = Append(acc.out, acc.group[1])
  <2>1. acc.group \in Seq(Nodes) /\ acc.group[1] \in Nodes
    BY <1>4 DEF GroupOK
  <2>2. acc.group = <<acc.group[1]>>
    BY <1>4, <2>1, OneIs
  <2>3. end = Round("mean", level, at, acc.group[1])
    BY <2>2, LoopOfOne
  <2>4. Made(new)
    BY <1>2, <1>4, <2>1, MadeGrows
  <2> HIDE DEF end, at
  <2> QED
    BY <1>1, <1>4, <2>3, <2>4 DEF end, at
<1>5. CASE Len(acc.group) > 1 /\ new = Append(acc.out, Block(acc.group))
  <2>1. end = Through(Block(acc.group), at)
    BY GroupMeansBlock
  <2>2. Block(acc.group).kind # "dict"
    BY DEF Block
  <2>3. Round("mean", level, at, Block(acc.group)) = Through(Block(acc.group), at)
    BY <2>2, MeanIs
  <2>4. MadeNode(Block(acc.group))
    BY Zenon DEF MadeNode
  <2>5. Made(new)
    BY <1>5, <2>4, MadeGrows
  <2> HIDE DEF end, at
  <2> QED
    BY <1>1, <1>5, <2>1, <2>3, <2>5 DEF end, at
<1> QED
  BY <1>3, <1>4, <1>5 DEF Flushed

\* The fold so far means b.
MeansSo(acc, b, level, all) ==
    LET at == Loop("mean", level, all, acc.out)
    IN  Made(acc.out) /\ Loop("mean", level, at, acc.group) = b

LEMMA MadeIsList ==
    ASSUME NEW list, Made(list)
    PROVE  ListOK(list)
<1>1. ASSUME NEW n, MadeNode(n) PROVE IsNode(n)
  <2>1. \A group : GroupOK(group) => IsNode(Block(group))
    BY DEF IsNode, Block, GroupOK, IsSeq
  <2> QED
    BY <1>1, <2>1 DEF MadeNode, IsNode
<1> QED
  BY <1>1 DEF Made, ListOK

LEMMA VisitMeans ==
    ASSUME NEW acc, GroupOK(acc.group), NEW x \in Nodes, NEW new, Visited(new, acc, x),
           NEW level, KeepsValues(level), NEW all, AllOK(all),
           NEW b, MeansSo(acc, b, level, all)
    PROVE  MeansSo(new, Round("mean", level, b, x), level, all)
<1> DEFINE at == Loop("mean", level, all, acc.out)
           end == Loop("mean", level, at, acc.group)
           next == Round("mean", level, b, x)
<1>1. Made(acc.out) /\ end = b /\ IsSeq(acc.group)
  BY DEF MeansSo, GroupOK, IsSeq
<1>2. AllOK(at)
  BY <1>1, MadeIsList, LoopKeepsValues
<1>3. ASSUME NEW flushed, Flushed(flushed, acc)
      PROVE  Made(flushed) /\ Loop("mean", level, all, flushed) = b
  BY <1>1, <1>2, <1>3, FlushedMeans
<1>4. MadeNode(x)
  BY DEF MadeNode
<1> SUFFICES MeansSo(new, next, level, all)
  OBVIOUS
<1>5. MeansSo(new, next, level, all) <=>
          /\ Made(new.out)
          /\ Loop("mean", level, Loop("mean", level, all, new.out), new.group) = next
  BY Zenon DEF MeansSo
<1> HIDE DEF next
<1>6. CASE /\ acc.group # <<>> /\ x.kind = "stage"
           /\ new.out = acc.out /\ new.group = Append(acc.group, x)
  <2>1. Loop("mean", level, at, new.group) = Round("mean", level, end, x)
    BY <1>1, <1>6, LoopGrows
  <2> HIDE DEF end
  <2> QED
    BY <1>1, <1>5, <1>6, <2>1 DEF next
<1>7. CASE x.kind = "stage" /\ Flushed(new.out, acc) /\ new.group = <<x>>
  <2>1. Made(new.out) /\ Loop("mean", level, all, new.out) = b
    BY <1>3, <1>7
  <2>2. Loop("mean", level, b, new.group) = Round("mean", level, b, x)
    BY <1>7, LoopOfOne
  <2> QED
    BY <1>5, <2>1, <2>2 DEF next
<1>8. ASSUME NEW flushed, Flushed(flushed, acc),
             new.out = Append(flushed, x), new.group = <<>>
      PROVE  MeansSo(new, next, level, all)
  <2>1. Made(flushed) /\ Loop("mean", level, all, flushed) = b
    BY <1>3, <1>8
  <2>2. Loop("mean", level, all, new.out) = Round("mean", level, b, x)
    BY <1>8, <2>1, LoopGrows DEF Made
  <2>3. \A base : Loop("mean", level, base, new.group) = base
    BY <1>8, LoopOfNone, Zenon
  <2>4. Made(new.out)
    BY <1>4, <1>8, <2>1, MadeGrows
  <2> QED
    BY <1>5, <2>2, <2>3, <2>4 DEF next
<1> QED
  BY <1>6, <1>7, <1>8 DEF Visited

(***************************************************************************)
(* _auto_parallelize keeps the meaning of a list, or of a route's body:    *)
(* stages that run together compute what they compute one after the other. *)
(***************************************************************************)
LEMMA FoldKeepsMeaning ==
    ASSUME NEW list \in Seq(Nodes), NEW flag \in BOOLEAN,
           NEW level, KeepsValues(level), NEW all, AllOK(all),
           Normalize(list, flag).err = NoError
    PROVE  /\ Made(Normalize(list, flag).out)
           /\ Loop("mean", level, all, Normalize(list, flag).out) =
                  Loop("mean", level, all, list)
<1> DEFINE n == Len(list)
<1>1. n \in Nat /\ DOMAIN list = 1..n /\ \A k \in 1..n : list[k] \in Nodes
  OBVIOUS
<1>2. CASE flag = FALSE
  <2>1. Normalize(list, flag).out = list
    BY <1>2 DEF Normalize
  <2>2. Made(list)
    BY <1>1 DEF Made, MadeNode, IsSeq
  <2> QED
    BY <2>1, <2>2
<1>3. CASE flag = TRUE
  <2> DEFINE normal == Normalize(list, TRUE)
  <2>1. PICK f : /\ FoldsTo(f, list)
                 /\ \A k \in 0..n : FoldOK(f[k], list, k)
                 /\ \A k \in 0..(n - 1) :
                        (f[k].err = NoError /\ f[k + 1].err = NoError) =>
                            Visited(f[k + 1], f[k], list[k + 1])
    BY FoldedIs
  <2>2. PICK g : /\ Rounds(g, "mean", level, all, list, n)
                 /\ Loop("mean", level, all, list) = g[n]
    BY <1>1, LoopRounds
  <2> HIDE DEF n
  <2> DEFINE S == {k \in 0..n : f[k].err = NoError => MeansSo(f[k], g[k], level, all)}
  <2>3. 0 \in S
    <3>1. f[0].out = <<>> /\ f[0].group = <<>> /\ g[0] = all
      BY <2>1, <2>2 DEF FoldsTo, Rounds
    <3>2. \A base : Loop("mean", level, base, <<>>) = base
      BY TuplesAre, LoopGrows
    <3>3. Made(<<>>)
      BY TuplesAre DEF Made
    <3>4. MeansSo(f[0], g[0], level, all)
      BY <3>1, <3>2, <3>3 DEF MeansSo
    <3> QED
      BY <1>1, <3>4
  <2>4. ASSUME NEW k \in 0..(n - 1), k \in S PROVE k + 1 \in S
    <3> SUFFICES ASSUME f[k + 1].err = NoError
                 PROVE  MeansSo(f[k + 1], g[k + 1], level, all)
      BY <1>1
    <3>1. k + 1 \in 1..n /\ (k + 1) - 1 = k /\ k \in 0..n
      BY <1>1
    <3>2. f[k].err = NoError
      BY <2>1 DEF FoldsTo, n
    <3>3. Visited(f[k + 1], f[k], list[k + 1]) /\ FoldOK(f[k], list, k)
      BY <2>1, <3>1, <3>2
    <3>4. g[k + 1] = Round("mean", level, g[k], list[k + 1])
      BY <2>2, <3>1 DEF Rounds
    <3>5. MeansSo(f[k], g[k], level, all) /\ list[k + 1] \in Nodes
      BY <1>1, <2>4, <3>1, <3>2
    <3> QED
      BY <3>2, <3>3, <3>4, <3>5, VisitMeans DEF FoldOK
  <2> HIDE DEF S
  <2>5. n \in S
    BY <1>1, <2>3, <2>4, UpTo
  <2>6. /\ f[n] = Folded(list) /\ FoldOK(f[n], list, n)
        /\ f[n].err = NoError => MeansSo(f[n], g[n], level, all)
    BY <1>1, <2>1, <2>5 DEF S, FoldsTo, n
  <2>7. normal.err = NoError
    BY <1>3
  <2>8. f[n].err = NoError /\ normal = Flush(f[n])
    <3>1. normal = IF f[n].err = NoError THEN Flush(f[n]) ELSE f[n]
      BY <2>6, AutoIs
    <3> HIDE DEF normal
    <3> QED
      BY <2>7, <3>1
  <2> HIDE DEF normal
  <2>9. Flushed(normal.out, f[n]) /\ GroupOK(f[n].group)
    BY <2>6, <2>8, FlushIs DEF FoldOK
  <2>10. /\ Made(f[n].out)
         /\ Loop("mean", level, Loop("mean", level, all, f[n].out), f[n].group) = g[n]
    BY <2>6, <2>8, Zenon DEF MeansSo
  <2>11. AllOK(Loop("mean", level, all, f[n].out))
    BY <2>10, MadeIsList, LoopKeepsValues
  <2>12. Made(normal.out) /\ Loop("mean", level, all, normal.out) = g[n]
    BY <2>9, <2>10, <2>11, FlushedMeans
  <2> QED
    BY <1>3, <2>2, <2>12 DEF normal
<1> QED
  BY <1>2, <1>3

-----------------------------------------------------------------------------
(* The contexts that reach an instruction.                                 *)

\* What comes to ip from the instructions in front of it.
Coming(c, resumed, at, ip) ==
    IF ip = 1 THEN {Create(Initial)}
    ELSE UNION {{Computed(c, c.code[j], ctx, resumed) : ctx \in at[j]} :
                   j \in {j \in 1..(ip - 1) : ip \in Leads(c.code[j], j)}}

IsReached(at, c, resumed, n) == at = [ip \in 1..n |-> Coming(c, resumed, at, ip)]

LEMMA ComingAgrees ==
    ASSUME NEW c, NEW resumed, NEW n \in Nat, NEW ip \in 1..(n + 1), NEW a, NEW b,
           \A j \in 1..n : a[j] = b[j]
    PROVE  Coming(c, resumed, a, ip) = Coming(c, resumed, b, ip)
<1> DEFINE Ways == {j \in 1..(ip - 1) : ip \in Leads(c.code[j], j)}
           A(j) == {Computed(c, c.code[j], ctx, resumed) : ctx \in a[j]}
           B(j) == {Computed(c, c.code[j], ctx, resumed) : ctx \in b[j]}
<1>1. \A j \in Ways : A(j) = B(j)
  <2>1. \A j \in Ways : j \in 1..n
    OBVIOUS
  <2>2. \A j \in Ways : a[j] = b[j]
    BY <2>1
  <2> HIDE DEF Ways
  <2> QED
    BY <2>2
<1>2. {A(j) : j \in Ways} = {B(j) : j \in Ways}
  <2> HIDE DEF Ways, A, B
  <2> QED
    BY <1>1
<1>3. /\ Coming(c, resumed, a, ip) = IF ip = 1 THEN {Create(Initial)} ELSE UNION {A(j) : j \in Ways}
      /\ Coming(c, resumed, b, ip) = IF ip = 1 THEN {Create(Initial)} ELSE UNION {B(j) : j \in Ways}
  BY Zenon DEF Coming
<1> QED
  BY <1>2, <1>3, Zenon

\* The recursion of Reached is well founded: code only leads forward.
LEMMA ReachedExists ==
    ASSUME NEW c, NEW resumed, NEW n \in Nat
    PROVE  \E at : IsReached(at, c, resumed, n)
<1> DEFINE S == {k \in Nat : \E at : IsReached(at, c, resumed, k)}
<1>1. 0 \in S
  <2> DEFINE at == [ip \in 1..0 |-> {}]
  <2>1. at = [ip \in 1..0 |-> Coming(c, resumed, at, ip)]
    OBVIOUS
  <2>2. IsReached(at, c, resumed, 0)
    BY <2>1, Zenon DEF IsReached
  <2> HIDE DEF at
  <2> QED
    BY <2>2
<1>2. ASSUME NEW k \in Nat, k \in S PROVE k + 1 \in S
  <2>1. PICK at : IsReached(at, c, resumed, k)
    BY <1>2
  <2> DEFINE new == [ip \in 1..(k + 1) |-> Coming(c, resumed, at, ip)]
  <2>2. ASSUME NEW j \in 1..k PROVE new[j] = at[j]
    <3>1. at[j] = Coming(c, resumed, at, j)
      BY <2>1 DEF IsReached
    <3> QED
      BY <3>1
  <2>3. ASSUME NEW ip \in 1..(k + 1) PROVE Coming(c, resumed, at, ip) = Coming(c, resumed, new, ip)
    <3> HIDE DEF new, S
    <3>1. \A j \in 1..k : at[j] = new[j]
      BY <2>2
    <3>2. k \in Nat /\ ip \in 1..(k + 1)
      OBVIOUS
    <3>3. \A a, b : (\A j \in 1..k : a[j] = b[j]) =>
                        Coming(c, resumed, a, ip) = Coming(c, resumed, b, ip)
      BY <3>2, ComingAgrees
    <3> QED
      BY <3>1, <3>3
  <2>4. new = [ip \in 1..(k + 1) |-> Coming(c, resumed, new, ip)]
    <3>1. [ip \in 1..(k + 1) |-> Coming(c, resumed, at, ip)] =
              [ip \in 1..(k + 1) |-> Coming(c, resumed, new, ip)]
      <4> HIDE DEF new
      <4> QED
        BY <2>3
    <3>2. new = [ip \in 1..(k + 1) |-> Coming(c, resumed, at, ip)]
      OBVIOUS
    <3> HIDE DEF new
    <3> QED
      BY <3>1, <3>2, Zenon
  <2> HIDE DEF new
  <2>5. IsReached(new, c, resumed, k + 1)
    BY <2>4, Zenon DEF IsReached
  <2> QED
    BY <2>5
<1>3. n \in S
  <2> HIDE DEF S
  <2> QED
    BY <1>1, <1>2, UpTo
<1> QED
  BY <1>3

LEMMA ReachedIs ==
    ASSUME NEW c, NEW resumed, Len(c.code) \in Nat
    PROVE  LET at == Reached(c, resumed)
           IN  /\ at[1] = {Create(Initial)}
               /\ \A ip \in 2..(Len(c.code) + 1) : at[ip] = Coming(c, resumed, at, ip)
<1> DEFINE n == Len(c.code) + 1
           Is(at) == at = [ip \in 1..n |-> Coming(c, resumed, at, ip)]
           at == Reached(c, resumed)
<1>1. at = CHOOSE f : Is(f)
  BY Zenon DEF Reached, Coming
<1>2. \E f : Is(f)
  <2>1. n \in Nat
    OBVIOUS
  <2> HIDE DEF n
  <2> QED
    BY <2>1, ReachedExists, Zenon DEF IsReached
<1>3. Is(at)
  <2> HIDE DEF Is, at
  <2> QED
    BY <1>1, <1>2
<1> HIDE DEF at
<1>4. \A ip \in 1..n : at[ip] = Coming(c, resumed, at, ip)
  <2> HIDE DEF n
  <2>1. at = [ip \in 1..n |-> Coming(c, resumed, at, ip)]
    BY <1>3
  <2> QED
    BY <2>1
<1>5. 1 \in 1..n /\ \A ip \in 2..n : ip \in 1..n
  OBVIOUS
<1>6. Coming(c, resumed, at, 1) = {Create(Initial)}
  BY DEF Coming
<1> QED
  BY <1>4, <1>5, <1>6 DEF at

-----------------------------------------------------------------------------
(* What one instruction makes of the contexts that reach it.               *)

ContextIs(data, written, name) == [data |-> data, written |-> written, name |-> name]

\* A context of all keys, or the conflict.
ContextOK(ctx) ==
    \/ ctx = MergeConflict
    \/ \E data, written, name :
           data = [k \in Keys |-> data[k]] /\ ctx = ContextIs(data, written, name)

\* ctxs are the contexts of what all says.
Meets(ctxs, all) ==
    (\A ctx \in ctxs : ContextOK(ctx)) /\ all = {Outcome(ctx) : ctx \in ctxs}

LEMMA ContextHas ==
    ASSUME NEW data, NEW written, NEW name
    PROVE  LET ctx == ContextIs(data, written, name)
           IN  /\ ctx # MergeConflict /\ ctx.data = data /\ ctx.name = name
               /\ ctx.written = written /\ Outcome(ctx) = [data |-> data]
<1> DEFINE ctx == [data |-> data, written |-> written, name |-> name]
<1>1. DOMAIN ctx # DOMAIN MergeConflict
  BY DEF MergeConflict
<1>2. ctx.data = data /\ ctx.name = name /\ ctx.written = written
  OBVIOUS
<1> HIDE DEF ctx
<1>3. ctx # MergeConflict
  BY <1>1, Zenon
<1>4. ContextIs(data, written, name) = ctx
  BY Zenon DEF ContextIs, ctx
<1>5. Outcome(ctx) = [data |-> data]
  BY <1>2, <1>3, Zenon DEF Outcome
<1> QED
  BY <1>2, <1>3, <1>4, <1>5, Zenon

LEMMA MeetsIsOK ==
    ASSUME NEW ctxs, NEW all, Meets(ctxs, all)
    PROVE  AllOK(all)
<1> SUFFICES ASSUME NEW ctx \in ctxs PROVE ValueOK(Outcome(ctx))
  BY DEF Meets, AllOK
<1>1. CASE ctx = MergeConflict
  BY <1>1, Zenon DEF Outcome, ValueOK
<1>2. ASSUME NEW data, NEW written, NEW name, data = [k \in Keys |-> data[k]],
             ctx = ContextIs(data, written, name)
      PROVE  ValueOK(Outcome(ctx))
  <2>1. Outcome(ctx) = [data |-> data]
    BY <1>2, ContextHas
  <2> QED
    BY <1>2, <2>1, DataIsValue
<1>3. ContextOK(ctx)
  BY DEF Meets
<1> QED
  BY <1>1, <1>2, <1>3, Zenon DEF ContextOK

\* If an instruction makes of each context what node makes of its values, it
\* does so of all of them.
LEMMA MeetsThrough ==
    ASSUME NEW c, NEW i, NEW resumed, NEW ctxs, NEW all, Meets(ctxs, all), NEW node,
           \A ctx \in ctxs :
               /\ ContextOK(Computed(c, i, ctx, resumed))
               /\ Outcome(Computed(c, i, ctx, resumed)) = NodeMeaning(node, Outcome(ctx))
    PROVE  Meets({Computed(c, i, ctx, resumed) : ctx \in ctxs}, Through(node, all))
<1> DEFINE Onward(ctx) == Computed(c, i, ctx, resumed)
           So(ctx) == NodeMeaning(node, Outcome(ctx))
<1>1. \A ctx \in ctxs : ContextOK(Onward(ctx)) /\ Outcome(Onward(ctx)) = So(ctx)
  OBVIOUS
<1>2. all = {Outcome(ctx) : ctx \in ctxs}
  BY DEF Meets
<1>3. Through(node, all) = {So(ctx) : ctx \in ctxs}
  BY <1>2 DEF Through
<1> HIDE DEF Onward, So
<1>4. {So(ctx) : ctx \in ctxs} = {Outcome(ctx) : ctx \in {Onward(ctx) : ctx \in ctxs}}
  BY <1>1
<1>5. Meets({Onward(ctx) : ctx \in ctxs}, Through(node, all))
  BY <1>1, <1>3, <1>4 DEF Meets
<1> QED
  BY <1>5 DEF Onward

Quiet(i) == i.op \notin {"call", "fork"}

\* Events, checkpoints, validations, joins and jumps leave the values alone.
LEMMA QuietMeets ==
    ASSUME NEW c, NEW i, Quiet(i), NEW resumed, NEW ctxs, NEW all, Meets(ctxs, all)
    PROVE  Meets({Computed(c, i, ctx, resumed) : ctx \in ctxs}, all)
<1> DEFINE Onward(ctx) == Computed(c, i, ctx, resumed)
<1>1. ASSUME NEW ctx \in ctxs
      PROVE  ContextOK(Onward(ctx)) /\ Outcome(Onward(ctx)) = Outcome(ctx)
  <2>1. ContextOK(ctx)
    BY DEF Meets
  <2>2. Onward(ctx) = IF ctx = MergeConflict THEN ctx
                    ELSE IF i.op = "checkpoint" THEN AtCheckpoint(ctx, resumed)
                    ELSE ctx
    BY DEF Computed, Quiet
  <2> HIDE DEF Onward
  <2>3. CASE Onward(ctx) = ctx
    BY <2>1, <2>3
  <2>4. CASE ctx # MergeConflict /\ Onward(ctx) # ctx
    <3>1. PICK data, written, name : /\ data = [k \in Keys |-> data[k]]
                                     /\ ctx = ContextIs(data, written, name)
      BY <2>1, <2>4, Zenon DEF ContextOK
    <3>2. ctx.data = data /\ Outcome(ctx) = [data |-> data]
      BY <3>1, ContextHas
    <3>3. Onward(ctx) = ContextIs(data, {}, "root")
      <4>1. Onward(ctx) = AtCheckpoint(ctx, resumed)
        BY <2>2, <2>4, Zenon
      <4>2. Onward(ctx) = FromSnapshot(Snapshot(ctx), "root", {})
        BY <2>4, <4>1, Zenon DEF AtCheckpoint
      <4> QED
        BY <3>2, <4>2 DEF FromSnapshot, Snapshot, ContextIs
    <3>4. ContextOK(Onward(ctx))
      BY <3>1, <3>3, Zenon DEF ContextOK
    <3>5. Outcome(Onward(ctx)) = [data |-> data]
      BY <3>3, ContextHas
    <3> QED
      BY <3>2, <3>4, <3>5
  <2> QED
    BY <2>2, <2>3, <2>4, Zenon
<1> HIDE DEF Onward
<1>2. {Outcome(ctx) : ctx \in ctxs} = {Outcome(ctx) : ctx \in {Onward(ctx) : ctx \in ctxs}}
  BY <1>1
<1>3. Meets({Onward(ctx) : ctx \in ctxs}, all)
  BY <1>1, <1>2 DEF Meets
<1> QED
  BY <1>3 DEF Onward

\* A stage updates the context with what it computes from its values.
LEMMA CallIs ==
    ASSUME NEW fn, NEW data, NEW written, NEW name
    PROVE  RunStage(fn, ContextIs(data, written, name)) =
               ContextIs(Over(Patch(fn, data), data),
                         written \cup KeysOf(fn.writes), name)
<1> DEFINE ctx == ContextIs(data, written, name)
           new == Over(Patch(fn, data), data)
           res == ContextIs(new, written \cup KeysOf(fn.writes), name)
<1>1. ctx.data = data /\ ctx.name = name /\ ctx.written = written
  BY ContextHas
<1>2. DOMAIN Patch(fn, data) = KeysOf(fn.writes)
  BY DEF Patch
<1> HIDE DEF ctx, new
<1>3. RunStage(fn, ctx) = res
  BY <1>1, <1>2, Zenon DEF RunStage, Update, ContextIs, new
<1> QED
  BY <1>3, Zenon DEF ctx, new

\* Instruction i makes of the values what node makes of them.
Makes(c, resumed, i, node) ==
    \A ctxs, all : Meets(ctxs, all) =>
        Meets({Computed(c, i, ctx, resumed) : ctx \in ctxs}, Through(node, all))

Calls(c, id, fn) == fn \in Nodes /\ fn.kind = "stage" /\ c.table[id] = fn

LEMMA CallMeets ==
    ASSUME NEW c, NEW id, NEW fn, Calls(c, id, fn), NEW resumed
    PROVE  Makes(c, resumed, Call(id), fn)
<1> SUFFICES ASSUME NEW ctxs, NEW all, Meets(ctxs, all)
             PROVE  Meets({Computed(c, Call(id), ctx, resumed) : ctx \in ctxs}, Through(fn, all))
  BY DEF Makes
<1>4. fn \in Nodes /\ fn.kind = "stage" /\ c.table[id] = fn
  BY DEF Calls
<1> SUFFICES ASSUME NEW ctx \in ctxs
             PROVE  /\ ContextOK(Computed(c, Call(id), ctx, resumed))
                    /\ Outcome(Computed(c, Call(id), ctx, resumed)) =
                           NodeMeaning(fn, Outcome(ctx))
  BY MeetsThrough
<1>1. ContextOK(ctx)
  BY DEF Meets
<1>2. CASE ctx = MergeConflict
  <2>1. Computed(c, Call(id), ctx, resumed) = MergeConflict
    BY <1>2, Zenon DEF Computed
  <2>2. Outcome(MergeConflict) = MergeConflict
    BY Zenon DEF Outcome
  <2>3. NodeMeaning(fn, MergeConflict) = MergeConflict
    BY Zenon DEF NodeMeaning
  <2> QED
    BY <1>1, <1>2, <2>1, <2>2, <2>3, Zenon
<1>3. ASSUME NEW data, NEW written, NEW name, data = [k \in Keys |-> data[k]],
             ctx = ContextIs(data, written, name)
      PROVE  /\ ContextOK(Computed(c, Call(id), ctx, resumed))
             /\ Outcome(Computed(c, Call(id), ctx, resumed)) = NodeMeaning(fn, Outcome(ctx))
  <2> DEFINE new == Over(Patch(fn, data), data)
             wrote == written \cup KeysOf(fn.writes)
  <2>1. ctx # MergeConflict /\ Outcome(ctx) = [data |-> data]
    BY <1>3, ContextHas
  <2>2. Call(id).op = "call" /\ Call(id).node = id
    BY DEF Call
  <2>3. Computed(c, Call(id), ctx, resumed) = RunStage(fn, ctx)
    BY <1>4, <2>1, <2>2, Zenon DEF Computed
  <2>4. Computed(c, Call(id), ctx, resumed) = ContextIs(new, wrote, name)
    BY <1>3, <2>3, CallIs
  <2>5. new = [k \in Keys |-> new[k]]
    BY <1>3, <1>4, StageData
  <2> HIDE DEF new, wrote
  <2>6. ContextOK(Computed(c, Call(id), ctx, resumed))
    BY <2>4, <2>5, Zenon DEF ContextOK
  <2>7. Outcome(Computed(c, Call(id), ctx, resumed)) = [data |-> new]
    BY <2>4, ContextHas
  <2>8. [data |-> data] # MergeConflict /\ [data |-> data].data = data
    BY DataIsValue
  <2>9. NodeMeaning(fn, [data |-> data]) = [data |-> new]
    BY <1>4, <2>8, Zenon DEF NodeMeaning, new
  <2> QED
    BY <2>1, <2>6, <2>7, <2>9
<1> QED
  BY <1>1, <1>2, <1>3, Zenon DEF ContextOK

-----------------------------------------------------------------------------
(* A FORK and its JOIN.                                                    *)

\* What the FORK of a block finds in the symbol table.  A stage that stands in
\* the block with two ids writes nothing.
Forks(c, ids, block) ==
    /\ IsSeq(ids) /\ DOMAIN block.branches = DOMAIN ids
    /\ block.kind # "stage"
    /\ \A b \in DOMAIN ids : /\ block.branches[b] \in Nodes
                             /\ block.branches[b].kind = "stage"
                             /\ c.table[ids[b]] = block.branches[b]
    /\ block.mode = "parallel" =>
           \A a, b \in DOMAIN ids :
               (ids[a] # ids[b] /\ block.branches[a] = block.branches[b]) =>
                   KeysOf(block.branches[a].writes) = {}

BranchGives(fn, id, data) ==
    ContextIs(Over(Patch(fn, data), data), {} \cup KeysOf(fn.writes), id)

LEMMA ForkedAre ==
    ASSUME NEW c, NEW ids, NEW block, Forks(c, ids, block),
           NEW data, NEW written, NEW name, data = [k \in Keys |-> data[k]]
    PROVE  LET bs == Forked(c, ids, ContextIs(data, written, name))
           IN  /\ Mergeable(bs) /\ DOMAIN bs = DOMAIN ids
               /\ \A b \in DOMAIN ids :
                      /\ bs[b].name = ids[b]
                      /\ bs[b].written = KeysOf(block.branches[b].writes)
                      /\ \A k \in KeysOf(block.branches[b].writes) :
                             bs[b].data[k] = Patch(block.branches[b], data)[k]
<1> DEFINE fns == block.branches
           ctx == ContextIs(data, written, name)
           bs == Forked(c, ids, ctx)
<1>1. ctx.data = data
  BY ContextHas
<1> HIDE DEF ctx
<1>2. ASSUME NEW b \in DOMAIN ids PROVE bs[b] = BranchGives(fns[b], ids[b], data)
  <2>1. bs[b] = RunStage(c.table[ids[b]], Branch(ctx, ids[b]))
    BY DEF Forked
  <2>2. Branch(ctx, ids[b]) = ContextIs(data, {}, ids[b])
    BY <1>1, Zenon DEF Branch, ContextIs
  <2>3. c.table[ids[b]] = fns[b]
    BY DEF Forks
  <2> HIDE DEF bs, fns
  <2> QED
    BY <2>1, <2>2, <2>3, CallIs DEF BranchGives
<1>3. DOMAIN bs = DOMAIN ids
  BY DEF Forked
<1>4. bs = [b \in DOMAIN ids |-> bs[b]]
  BY DEF Forked
<1>5. Len(ids) \in Nat /\ DOMAIN ids = 1..Len(ids)
  BY SeqIs DEF Forks
<1> HIDE DEF bs
<1>6. IsSeq(bs)
  <2>1. bs = [b \in 1..Len(ids) |-> bs[b]]
    BY <1>4, <1>5
  <2> QED
    BY <1>5, <2>1, FunctionIsSeq
<1>7. ASSUME NEW b \in DOMAIN ids
      PROVE  /\ bs[b].name = ids[b] /\ bs[b].written = KeysOf(fns[b].writes)
             /\ \A k \in KeysOf(fns[b].writes) : bs[b].data[k] = Patch(fns[b], data)[k]
             /\ bs[b].written \subseteq DOMAIN bs[b].data
  <2> DEFINE fn == fns[b]
             new == Over(Patch(fn, data), data)
  <2>1. fn \in Nodes /\ fn.kind = "stage"
    BY DEF Forks
  <2> HIDE DEF fn
  <2>2. /\ new = [k \in Keys |-> new[k]]
        /\ \A k \in Keys : new[k] = IF k \in KeysOf(fn.writes)
                                    THEN Patch(fn, data)[k] ELSE data[k]
    BY <2>1, StageData
  <2> HIDE DEF new
  <2>3. bs[b] = ContextIs(new, {} \cup KeysOf(fn.writes), ids[b])
    BY <1>2, Zenon DEF BranchGives, fn, new
  <2>4. bs[b].name = ids[b] /\ bs[b].written = KeysOf(fn.writes) /\ bs[b].data = new
    BY <2>3, ContextHas
  <2>5. KeysOf(fn.writes) \subseteq Keys
    BY <2>1, WritesAreKeys
  <2> QED
    BY <2>2, <2>4, <2>5 DEF fn
<1>8. ASSUME NEW i \in DOMAIN ids, NEW j \in DOMAIN ids, bs[i].name = bs[j].name
      PROVE  bs[i] = bs[j]
  <2>1. ids[i] = ids[j]
    BY <1>7, <1>8
  <2>2. fns[i] = fns[j]
    BY <2>1 DEF Forks
  <2> HIDE DEF fns
  <2> QED
    BY <1>2, <2>1, <2>2
<1>9. Mergeable(bs)
  BY <1>3, <1>6, <1>7, <1>8 DEF Mergeable
<1> QED
  BY <1>3, <1>7, <1>9 DEF bs, ctx

\* Context.merge raises exactly when two functions of the block clash.
LEMMA ContestedMeansClash ==
    ASSUME NEW c, NEW ids, NEW block, Forks(c, ids, block), block.mode = "parallel",
           NEW bs, DOMAIN bs = DOMAIN ids,
           \A b \in DOMAIN ids : /\ bs[b].name = ids[b]
                                 /\ bs[b].written = KeysOf(block.branches[b].writes)
    PROVE  Contested(bs, DOMAIN bs) # {} <=> Clash(block.branches)
<1> DEFINE fns == block.branches
<1>1. Range(fns) = {fns[b] : b \in DOMAIN ids}
  BY DEF Range, Forks
<1>2. ASSUME Contested(bs, DOMAIN bs) # {} PROVE Clash(fns)
  <2>1. PICK k \in WrittenBy(bs, DOMAIN bs), i \in DOMAIN ids, j \in DOMAIN ids :
            k \in bs[i].written /\ k \in bs[j].written /\ bs[i].name # bs[j].name
    BY <1>2 DEF Contested
  <2>2. /\ ids[i] # ids[j] /\ k \in KeysOf(fns[i].writes) /\ k \in KeysOf(fns[j].writes)
    BY <2>1
  <2>3. fns[i] # fns[j]
    <3>1. fns[i] = fns[j] => KeysOf(fns[i].writes) = {}
      BY <2>2, Zenon DEF Forks
    <3> QED
      BY <2>2, <3>1
  <2>4. fns[i] \in Range(fns) /\ fns[j] \in Range(fns)
    BY <1>1
  <2> QED
    BY <2>2, <2>3, <2>4 DEF Clash
<1>3. ASSUME Clash(fns) PROVE Contested(bs, DOMAIN bs) # {}
  <2>1. PICK f \in Range(fns), g \in Range(fns) :
            f # g /\ KeysOf(f.writes) \cap KeysOf(g.writes) # {}
    BY <1>3 DEF Clash
  <2>2. PICK i \in DOMAIN ids, j \in DOMAIN ids : f = fns[i] /\ g = fns[j]
    BY <1>1
  <2>3. PICK k : k \in KeysOf(f.writes) /\ k \in KeysOf(g.writes)
    BY <2>1
  <2>4. ids[i] # ids[j]
    BY <2>1, <2>2 DEF Forks
  <2>5. k \in bs[i].written /\ k \in bs[j].written /\ bs[i].name # bs[j].name
    BY <2>2, <2>3, <2>4
  <2> QED
    BY <2>5 DEF Contested, WrittenBy
<1> QED
  BY <1>2, <1>3

\* The branches bs have written what the functions of the block compute.
Wrote(bs, ids, block, data) ==
    /\ DOMAIN bs = DOMAIN ids
    /\ \A b \in DOMAIN ids :
           /\ bs[b].written = KeysOf(block.branches[b].writes)
           /\ \A k \in KeysOf(block.branches[b].writes) :
                  bs[b].data[k] = Patch(block.branches[b], data)[k]

\* new is data with what the branches have written.
Overlaid(new, bs, data) ==
    /\ new = [k \in Keys \cup WrittenBy(bs, DOMAIN bs) |-> new[k]]
    /\ \A k \in Keys \ WrittenBy(bs, DOMAIN bs) : new[k] = data[k]
    /\ \A i \in DOMAIN bs : \A k \in bs[i].written : new[k] = bs[i].data[k]

\* Merged branches have what their functions compute from the same values.
LEMMA MergedMeansTogether ==
    ASSUME NEW c, NEW ids, NEW block, Forks(c, ids, block), ~Clash(block.branches),
           NEW data, data = [k \in Keys |-> data[k]],
           NEW bs, Wrote(bs, ids, block, data),
           NEW new, Overlaid(new, bs, data)
    PROVE  new = Together(block.branches, data)
<1> DEFINE fns == block.branches
           W == WrittenBy(bs, DOMAIN bs)
           Of(k) == {f \in Range(fns) : k \in KeysOf(f.writes)}
           so == Together(fns, data)
<1>1. Range(fns) = {fns[b] : b \in DOMAIN ids}
  BY DEF Range, Forks
<1>8. /\ DOMAIN bs = DOMAIN ids
      /\ \A b \in DOMAIN ids :
             /\ bs[b].written = KeysOf(fns[b].writes)
             /\ \A k \in KeysOf(fns[b].writes) : bs[b].data[k] = Patch(fns[b], data)[k]
      /\ \A k \in Keys \ W : new[k] = data[k]
      /\ \A i \in DOMAIN bs : \A k \in bs[i].written : new[k] = bs[i].data[k]
  BY DEF Wrote, Overlaid
<1>2. W \subseteq Keys
  <2>1. ASSUME NEW b \in DOMAIN ids PROVE bs[b].written \subseteq Keys
    <3>1. fns[b] \in Nodes /\ fns[b].kind = "stage"
      BY DEF Forks
    <3> HIDE DEF fns
    <3>2. KeysOf(fns[b].writes) \subseteq Keys
      BY <3>1, WritesAreKeys
    <3> QED
      BY <1>8, <3>2 DEF fns
  <2> QED
    BY <1>8, <2>1 DEF WrittenBy
<1>3. /\ so = [k \in Keys |-> so[k]]
      /\ \A k \in Keys : so[k] = IF Of(k) = {} THEN data[k]
                                 ELSE Patch(CHOOSE f \in Of(k) : TRUE, data)[k]
  BY DEF Together
<1> HIDE DEF so
<1>4. ASSUME NEW k \in Keys PROVE new[k] = so[k]
  <2>1. CASE k \in W
    <3>1. Of(k) # {}
      <4>1. PICK b \in DOMAIN ids : k \in KeysOf(fns[b].writes)
        BY <1>8, <2>1 DEF WrittenBy
      <4> QED
        BY <1>1, <4>1
    <3> DEFINE f == CHOOSE g \in Of(k) : TRUE
    <3>2. f \in Of(k)
      <4> HIDE DEF Of
      <4> QED
        BY <3>1
    <3>3. so[k] = Patch(f, data)[k]
      BY <1>3, <3>1
    <3> HIDE DEF f
    <3>4. PICK b \in DOMAIN ids : f = fns[b] /\ k \in KeysOf(fns[b].writes)
      BY <1>1, <3>2
    <3>5. new[k] = bs[b].data[k] /\ bs[b].data[k] = Patch(fns[b], data)[k]
      BY <1>8, <3>4
    <3> QED
      BY <3>3, <3>4, <3>5
  <2>2. CASE k \notin W
    <3>1. Of(k) = {}
      BY <1>1, <1>8, <2>2 DEF WrittenBy
    <3> QED
      BY <1>3, <1>8, <2>2, <3>1
  <2> QED
    BY <2>1, <2>2
<1>5. new = [k \in Keys |-> new[k]]
  <2>1. Keys \cup W = Keys
    BY <1>2
  <2> QED
    BY <2>1, Zenon DEF Overlaid
<1>6. [k \in Keys |-> new[k]] = [k \in Keys |-> so[k]]
  BY <1>4
<1>7. new = so
  BY <1>3, <1>5, <1>6, Zenon
<1> QED
  BY <1>7 DEF so

LEMMA ForkMeets ==
    ASSUME NEW c, NEW ids, NEW block, Forks(c, ids, block), NEW resumed
    PROVE  Makes(c, resumed, Fork(ids, block.mode), block)
<1> SUFFICES ASSUME NEW ctxs, NEW all, Meets(ctxs, all)
             PROVE  Meets({Computed(c, Fork(ids, block.mode), ctx, resumed) : ctx \in ctxs},
                          Through(block, all))
  BY DEF Makes
<1> DEFINE fork == Fork(ids, block.mode)
           fns == block.branches
<1> SUFFICES ASSUME NEW ctx \in ctxs
             PROVE  /\ ContextOK(Computed(c, fork, ctx, resumed))
                    /\ Outcome(Computed(c, fork, ctx, resumed)) =
                           NodeMeaning(block, Outcome(ctx))
  BY MeetsThrough
<1>1. ContextOK(ctx)
  BY DEF Meets
<1>2. fork.op = "fork" /\ fork.branches = ids /\ fork.mode = block.mode
  BY DEF Fork
<1>3. block.kind # "stage"
  BY DEF Forks
<1> HIDE DEF fork
<1>4. Outcome(MergeConflict) = MergeConflict
  BY Zenon DEF Outcome
<1>5. CASE ctx = MergeConflict
  <2>1. Computed(c, fork, ctx, resumed) = MergeConflict
    BY <1>5, Zenon DEF Computed
  <2>2. NodeMeaning(block, MergeConflict) = MergeConflict
    BY Zenon DEF NodeMeaning
  <2> QED
    BY <1>1, <1>4, <1>5, <2>1, <2>2, Zenon
<1>6. ASSUME NEW data, NEW written, NEW name, data = [k \in Keys |-> data[k]],
             ctx = ContextIs(data, written, name)
      PROVE  /\ ContextOK(Computed(c, fork, ctx, resumed))
             /\ Outcome(Computed(c, fork, ctx, resumed)) = NodeMeaning(block, Outcome(ctx))
  <2>1. /\ ctx # MergeConflict /\ Outcome(ctx) = [data |-> data] /\ ctx.data = data
        /\ ctx.name = name
    BY <1>6, ContextHas
  <2>2. [data |-> data] # MergeConflict /\ [data |-> data].data = data
    BY DataIsValue
  <2>3. Computed(c, fork, ctx, resumed) = Joined(c, fork, ctx)
    BY <1>2, <2>1 DEF Computed
  <2>4. CASE block.mode # "parallel"
    <3>1. Computed(c, fork, ctx, resumed) = ctx
      BY <1>2, <2>3, <2>4, Zenon DEF Joined
    <3>2. NodeMeaning(block, Outcome(ctx)) = Outcome(ctx)
      BY <1>3, <2>4, Zenon DEF NodeMeaning
    <3> QED
      BY <1>1, <3>1, <3>2
  <2>5. CASE block.mode = "parallel"
    <3> DEFINE bs == Forked(c, ids, ctx)
    <3>1. Computed(c, fork, ctx, resumed) = Merge(ctx, bs)
      BY <1>2, <2>3, <2>5, Zenon DEF Joined
    <3>2. NodeMeaning(block, Outcome(ctx)) =
              IF Clash(fns) THEN MergeConflict ELSE [data |-> Together(fns, data)]
      BY <1>3, <2>1, <2>2, <2>5, Zenon DEF NodeMeaning
    <3>3. /\ Mergeable(bs) /\ DOMAIN bs = DOMAIN ids
          /\ \A b \in DOMAIN ids :
                 /\ bs[b].name = ids[b]
                 /\ bs[b].written = KeysOf(fns[b].writes)
                 /\ \A k \in KeysOf(fns[b].writes) : bs[b].data[k] = Patch(fns[b], data)[k]
      BY <1>6, ForkedAre
    <3> HIDE DEF bs, fns
    <3>4. Contested(bs, DOMAIN bs) # {} <=> Clash(fns)
      BY <2>5, <3>3, ContestedMeansClash DEF fns
    <3>5. ctx.data = [k \in DOMAIN ctx.data |-> ctx.data[k]]
      <4>1. DOMAIN data = Keys
        BY <1>6
      <4> QED
        BY <1>6, <2>1, <4>1, Zenon
    <3>6. CASE Clash(fns)
      <4>1. Merge(ctx, bs) = MergeConflict
        BY <3>3, <3>4, <3>5, <3>6, MergeIs
      <4>2. ContextOK(MergeConflict)
        BY Zenon DEF ContextOK
      <4> QED
        BY <1>4, <3>1, <3>2, <3>6, <4>1, <4>2
    <3>7. CASE ~Clash(fns)
      <4> DEFINE W == WrittenBy(bs, DOMAIN bs)
                 Is(new) == IsMerge(Merge(ctx, bs), new, ctx, bs, W)
      <4>1. \E new : Is(new)
        BY <3>3, <3>4, <3>5, <3>7, MergeIs
      <4> HIDE DEF Is
      <4>2. PICK new : Is(new)
        BY <4>1
      <4>3. IsMerge(Merge(ctx, bs), new, ctx, bs, W)
        BY <4>2 DEF Is
      <4> HIDE DEF W
      <4>4. DOMAIN ctx.data = Keys
        BY <1>6, <2>1
      <4>5. /\ new = [k \in Keys \cup W |-> new[k]]
            /\ \A k \in Keys \ W : new[k] = data[k]
            /\ \A i \in DOMAIN bs : \A k \in bs[i].written : new[k] = bs[i].data[k]
        <5>1. new = [k \in Keys \cup W |-> new[k]]
          BY <4>3, <4>4, Zenon DEF IsMerge
        <5> QED
          BY <2>1, <4>3, <4>4, <5>1 DEF IsMerge
      <4>6. new = Together(fns, data)
        <5>1. Wrote(bs, ids, block, data)
          BY <3>3 DEF fns, Wrote
        <5>2. Overlaid(new, bs, data)
          BY <4>5 DEF W, Overlaid
        <5> QED
          BY <1>6, <3>7, <5>1, <5>2, MergedMeansTogether DEF fns
      <4>7. new = [k \in Keys |-> new[k]]
        <5>1. Together(fns, data) = [k \in Keys |-> Together(fns, data)[k]]
          BY DEF Together
        <5> QED
          BY <4>6, <5>1, Zenon
      <4>8. Merge(ctx, bs) = ContextIs(new, ctx.written \cup W, name)
        BY <2>1, <4>3, Zenon DEF IsMerge, MergedInto, ContextIs
      <4>9. Outcome(Merge(ctx, bs)) = [data |-> new]
        BY <4>8, ContextHas
      <4>10. ContextOK(Merge(ctx, bs))
        BY <4>7, <4>8, Zenon DEF ContextOK
      <4> QED
        BY <3>1, <3>2, <3>7, <4>6, <4>9, <4>10
    <3> QED
      BY <3>6, <3>7
  <2> QED
    BY <2>4, <2>5
<1> QED
  BY <1>1, <1>5, <1>6, Zenon DEF ContextOK

-----------------------------------------------------------------------------
(* Code that runs straight on.                                             *)

\* at are the contexts that reach the instructions of c.
Flows(c, resumed, at) ==
    /\ Len(c.code) \in Nat
    /\ at[1] = {Create(Initial)}
    /\ \A ip \in 2..(Len(c.code) + 1) : at[ip] = Coming(c, resumed, at, ip)

\* After lo, and up to hi, each instruction is reached from the one in front
\* of it and from no other.
Straight(c, lo, hi) ==
    \A ip \in (lo + 1)..hi :
        \A j \in 1..(ip - 1) : ip \in Leads(c.code[j], j) <=> j = ip - 1

LEMMA StepIs ==
    ASSUME NEW c, NEW resumed, NEW at, Flows(c, resumed, at), NEW lo \in Nat \ {0},
           NEW hi \in Nat, hi <= Len(c.code) + 1, Straight(c, lo, hi),
           NEW ip \in lo..(hi - 1)
    PROVE  at[ip + 1] = {Computed(c, c.code[ip], ctx, resumed) : ctx \in at[ip]}
<1>1. /\ ip + 1 \in 2..(Len(c.code) + 1) /\ ip + 1 \in (lo + 1)..hi
      /\ (ip + 1) - 1 = ip /\ ip \in 1..ip /\ ip + 1 # 1
  BY DEF Flows
<1> DEFINE Ways == {j \in 1..ip : ip + 1 \in Leads(c.code[j], j)}
           From1(j) == {Computed(c, c.code[j], ctx, resumed) : ctx \in at[j]}
<1>2. at[ip + 1] = Coming(c, resumed, at, ip + 1)
  BY <1>1 DEF Flows
<1>3. Coming(c, resumed, at, ip + 1) = UNION {From1(j) : j \in Ways}
  BY <1>1, Zenon DEF Coming
<1>4. \A j \in 1..ip : ip + 1 \in Leads(c.code[j], j) <=> j = ip
  BY <1>1 DEF Straight
<1>5. Ways = {ip}
  BY <1>1, <1>4
<1> HIDE DEF Ways, From1
<1>6. UNION {From1(j) : j \in {ip}} = From1(ip)
  OBVIOUS
<1> QED
  BY <1>2, <1>3, <1>5, <1>6 DEF From1

LEMMA QuietRuns ==
    ASSUME NEW c, NEW resumed, NEW at, Flows(c, resumed, at), NEW lo \in Nat \ {0},
           NEW hi \in Nat, lo <= hi, hi <= Len(c.code) + 1, Straight(c, lo, hi),
           \A ip \in lo..(hi - 1) : Quiet(c.code[ip]),
           NEW all, Meets(at[lo], all)
    PROVE  Meets(at[hi], all)
<1> DEFINE n == hi - lo
           S == {k \in 0..n : Meets(at[lo + k], all)}
<1>1. n \in Nat /\ lo + n = hi /\ lo + 0 = lo
  OBVIOUS
<1> HIDE DEF n
<1>2. 0 \in S
  BY <1>1
<1>3. ASSUME NEW k \in 0..(n - 1), k \in S PROVE k + 1 \in S
  <2> DEFINE ip == lo + k
  <2>1. ip \in lo..(hi - 1) /\ ip + 1 = lo + (k + 1) /\ k + 1 \in 0..n /\ Meets(at[ip], all)
    BY <1>1, <1>3
  <2>4. Quiet(c.code[ip])
    BY <2>1
  <2> HIDE DEF ip
  <2>2. at[ip + 1] = {Computed(c, c.code[ip], ctx, resumed) : ctx \in at[ip]}
    BY <2>1, StepIs
  <2> DEFINE i == c.code[ip]
             from == at[ip]
  <2>3. at[ip + 1] = {Computed(c, i, ctx, resumed) : ctx \in from}
    BY <2>2
  <2>5. Quiet(i) /\ Meets(from, all)
    BY <2>1, <2>4
  <2> HIDE DEF i, from
  <2>6. Meets({Computed(c, i, ctx, resumed) : ctx \in from}, all)
    BY <2>5, QuietMeets
  <2> QED
    BY <2>1, <2>3, <2>6
<1> HIDE DEF S
<1>4. n \in S
  BY <1>1, <1>2, <1>3, UpTo
<1> QED
  BY <1>1, <1>4 DEF S

LEMMA StraightPart ==
    ASSUME NEW c, NEW lo \in Nat, NEW hi \in Nat, Straight(c, lo, hi),
           NEW a \in Nat, NEW b \in Nat, lo <= a, b <= hi
    PROVE  Straight(c, a, b)
<1>1. \A ip \in (a + 1)..b : ip \in (lo + 1)..hi
  OBVIOUS
<1> QED
  BY <1>1 DEF Straight

-----------------------------------------------------------------------------
(* The code of a stage and of a block: one instruction acts, the others    *)
(* are quiet.                                                              *)

Silent(code) == IsSeq(code) /\ \A k \in 1..Len(code) : Quiet(code[k])

ActsOnce(code, i, m) ==
    /\ IsSeq(code) /\ m \in 1..Len(code) /\ code[m] = i
    /\ \A k \in 1..Len(code) : k # m => Quiet(code[k])

LEMMA SilentOnes ==
    /\ Silent(<<>>)
    /\ \A i : Quiet(i) => Silent(<<i>>)
    /\ \A i, j : (Quiet(i) /\ Quiet(j)) => Silent(<<i, j>>)
<1>1. Silent(<<>>)
  BY TuplesAre DEF Silent
<1>2. ASSUME NEW i, Quiet(i) PROVE Silent(<<i>>)
  <2>1. IsSeq(<<i>>) /\ Len(<<i>>) = 1 /\ <<i>>[1] = i
    BY TuplesAre
  <2>2. \A k \in 1..1 : k = 1
    OBVIOUS
  <2> QED
    BY <1>2, <2>1, <2>2 DEF Silent
<1>3. ASSUME NEW i, NEW j, Quiet(i), Quiet(j) PROVE Silent(<<i, j>>)
  <2>1. IsSeq(<<i, j>>) /\ Len(<<i, j>>) = 2 /\ <<i, j>>[1] = i /\ <<i, j>>[2] = j
    BY TuplesAre
  <2>2. \A k \in 1..2 : k = 1 \/ k = 2
    OBVIOUS
  <2> DEFINE s == <<i, j>>
  <2>3. IsSeq(s) /\ Len(s) = 2 /\ s[1] = i /\ s[2] = j
    BY <2>1
  <2> HIDE DEF s
  <2>4. Silent(s)
    BY <1>3, <2>2, <2>3 DEF Silent
  <2> QED
    BY <2>4 DEF s
<1> QED
  BY <1>1, <1>2, <1>3

LEMMA ActsAlone == ASSUME NEW i PROVE ActsOnce(<<i>>, i, 1)
<1>1. IsSeq(<<i>>) /\ Len(<<i>>) = 1 /\ <<i>>[1] = i
  BY TuplesAre
<1>2. \A k \in 1..1 : k = 1
  OBVIOUS
<1> QED
  BY <1>1, <1>2 DEF ActsOnce

LEMMA SilentAndActs ==
    ASSUME NEW a, Silent(a), NEW b, NEW i, NEW m, ActsOnce(b, i, m)
    PROVE  ActsOnce(a \o b, i, Len(a) + m)
<1>1. /\ IsSeq(a \o b) /\ Len(a \o b) = Len(a) + Len(b)
      /\ \A k \in 1..Len(a) : (a \o b)[k] = a[k]
      /\ \A k \in (Len(a) + 1)..Len(a \o b) :
             k - Len(a) \in 1..Len(b) /\ (a \o b)[k] = b[k - Len(a)]
  BY ConcatIs DEF Silent, ActsOnce
<1>2. Len(a) \in Nat /\ Len(b) \in Nat /\ m \in 1..Len(b)
  BY SeqIs DEF Silent, ActsOnce
<1> DEFINE s == a \o b
<1> HIDE DEF s
<1>3. Len(a) + m \in (Len(a) + 1)..Len(s) /\ (Len(a) + m) - Len(a) = m
  BY <1>1, <1>2 DEF s
<1>4. s[Len(a) + m] = i
  BY <1>1, <1>3 DEF s, ActsOnce
<1>5. ASSUME NEW k \in 1..Len(s), k # Len(a) + m PROVE Quiet(s[k])
  <2>1. CASE k \in 1..Len(a)
    BY <1>1, <2>1 DEF s, Silent
  <2>2. CASE k \in (Len(a) + 1)..Len(s)
    <3>1. k - Len(a) \in 1..Len(b) /\ s[k] = b[k - Len(a)] /\ k - Len(a) # m
      BY <1>1, <1>2, <1>5, <2>2 DEF s
    <3> QED
      BY <3>1 DEF ActsOnce
  <2> QED
    BY <1>1, <1>2, <2>1, <2>2 DEF s
<1>6. Len(a) + m \in 1..Len(s) /\ IsSeq(s)
  BY <1>1, <1>2, <1>3 DEF s
<1> QED
  BY <1>4, <1>5, <1>6 DEF ActsOnce, s

LEMMA ActsAndSilent ==
    ASSUME NEW a, NEW i, NEW m, ActsOnce(a, i, m), NEW b, Silent(b)
    PROVE  ActsOnce(a \o b, i, m)
<1>1. /\ IsSeq(a \o b) /\ Len(a \o b) = Len(a) + Len(b)
      /\ \A k \in 1..Len(a) : (a \o b)[k] = a[k]
      /\ \A k \in (Len(a) + 1)..Len(a \o b) :
             k - Len(a) \in 1..Len(b) /\ (a \o b)[k] = b[k - Len(a)]
  BY ConcatIs DEF Silent, ActsOnce
<1>2. Len(a) \in Nat /\ Len(b) \in Nat /\ m \in 1..Len(a)
  BY SeqIs DEF Silent, ActsOnce
<1> DEFINE s == a \o b
<1> HIDE DEF s
<1>3. s[m] = i
  BY <1>1, <1>2 DEF s, ActsOnce
<1>4. ASSUME NEW k \in 1..Len(s), k # m PROVE Quiet(s[k])
  <2>1. CASE k \in 1..Len(a)
    BY <1>1, <1>4, <2>1 DEF s, ActsOnce
  <2>2. CASE k \in (Len(a) + 1)..Len(s)
    BY <1>1, <2>2 DEF s, Silent
  <2> QED
    BY <1>1, <1>2, <2>1, <2>2 DEF s
<1>5. m \in 1..Len(s) /\ IsSeq(s)
  BY <1>1, <1>2 DEF s
<1> QED
  BY <1>3, <1>4, <1>5 DEF ActsOnce, s

LEMMA SilentTogether ==
    ASSUME NEW a, Silent(a), NEW b, Silent(b)
    PROVE  Silent(a \o b)
<1>1. /\ IsSeq(a \o b) /\ Len(a \o b) = Len(a) + Len(b)
      /\ \A k \in 1..Len(a) : (a \o b)[k] = a[k]
      /\ \A k \in (Len(a) + 1)..Len(a \o b) :
             k - Len(a) \in 1..Len(b) /\ (a \o b)[k] = b[k - Len(a)]
  BY ConcatIs DEF Silent
<1>2. Len(a) \in Nat /\ Len(b) \in Nat
  BY SeqIs DEF Silent
<1> DEFINE s == a \o b
<1> HIDE DEF s
<1>3. \A k \in 1..Len(s) : k \in 1..Len(a) \/ k \in (Len(a) + 1)..Len(s)
  BY <1>1, <1>2 DEF s
<1>4. \A k \in 1..Len(s) : Quiet(s[k])
  BY <1>1, <1>3 DEF s, Silent
<1> QED
  BY <1>1, <1>4 DEF Silent, s

LEMMA StageCodeActs ==
    ASSUME NEW fn, NEW id
    PROVE  \E m : ActsOnce(StageCode(fn, id), Call(id), m)
<1> DEFINE a == <<Checkpoint(id), Emit("step_start", id)>>
           b == IF fn.input THEN <<ValidateInput(id)>> ELSE <<>>
           c == <<Call(id)>>
           d == IF fn.output THEN <<ValidateOutput(id)>> ELSE <<>>
           e == <<Emit("step_end", id)>>
<1>1. Silent(a) /\ Silent(e)
  BY SilentOnes DEF Quiet, Checkpoint, Emit
<1>2. Silent(b) /\ Silent(d)
  BY SilentOnes DEF Quiet, ValidateInput, ValidateOutput
<1>3. ActsOnce(c, Call(id), 1)
  BY ActsAlone
<1>4. StageCode(fn, id) = a \o b \o c \o d \o e
  BY Zenon DEF StageCode
<1> HIDE DEF a, b, c, d, e
<1>5. Silent(a \o b)
  BY <1>1, <1>2, SilentTogether
<1>6. ActsOnce(a \o b \o c, Call(id), Len(a \o b) + 1)
  BY <1>3, <1>5, SilentAndActs
<1>7. ActsOnce(a \o b \o c \o d, Call(id), Len(a \o b) + 1)
  BY <1>2, <1>6, ActsAndSilent
<1>8. ActsOnce(a \o b \o c \o d \o e, Call(id), Len(a \o b) + 1)
  BY <1>1, <1>7, ActsAndSilent
<1> QED
  BY <1>4, <1>8

LEMMA BlockCodeActs ==
    ASSUME NEW ids, NEW mode
    PROVE  \E m : ActsOnce(BlockCode(ids, mode), Fork(ids, mode), m)
<1> DEFINE fork == Fork(ids, mode)
           event == EmitBranch(ids)
           a == <<event, fork>>
           b == IF mode = "parallel" THEN <<Join>> ELSE <<>>
<1>1. ActsOnce(a, fork, 2)
  <2>1. Quiet(event)
    BY DEF Quiet, EmitBranch
  <2> HIDE DEF event, fork
  <2>2. IsSeq(a) /\ Len(a) = 2 /\ a[1] = event /\ a[2] = fork
    BY TuplesAre
  <2>3. \A k \in 1..2 : k = 1 \/ k = 2
    OBVIOUS
  <2> HIDE DEF a
  <2> QED
    BY <2>1, <2>2, <2>3 DEF ActsOnce
<1>2. Silent(b)
  BY SilentOnes DEF Quiet, Join
<1>3. BlockCode(ids, mode) = a \o b
  BY Zenon DEF BlockCode
<1> HIDE DEF a, b, fork
<1>4. ActsOnce(a \o b, fork, 2)
  BY <1>1, <1>2, ActsAndSilent
<1> QED
  BY <1>3, <1>4 DEF fork

\* code stands in c from lo on.
Holds(c, lo, code) == \A k \in 1..Len(code) : c.code[lo + k - 1] = code[k]

LEMMA ActsRuns ==
    ASSUME NEW c, NEW resumed, NEW at, Flows(c, resumed, at), NEW lo \in Nat \ {0},
           NEW code, NEW i, NEW m, ActsOnce(code, i, m), Holds(c, lo, code),
           lo + Len(code) <= Len(c.code) + 1, Straight(c, lo, lo + Len(code)),
           NEW node, Makes(c, resumed, i, node), NEW all, Meets(at[lo], all)
    PROVE  Meets(at[lo + Len(code)], Through(node, all))
<1> DEFINE hi == lo + Len(code)
           ip == lo + m - 1
<1>1. Len(code) \in Nat /\ m \in 1..Len(code)
  BY SeqIs DEF ActsOnce
<1>2. /\ hi \in Nat /\ ip \in Nat \ {0} /\ lo <= ip /\ ip \in lo..(hi - 1) /\ ip <= hi
      /\ hi <= Len(c.code) + 1 /\ ip + 1 \in Nat \ {0} /\ ip + 1 <= hi
      /\ Len(c.code) \in Nat /\ ip <= Len(c.code) + 1 /\ Straight(c, lo, hi)
      /\ lo <= ip + 1
  BY <1>1 DEF Flows
<1>3. c.code[ip] = i
  BY <1>1 DEF Holds, ActsOnce
<1>4. ASSUME NEW q \in lo..(hi - 1), q # ip PROVE Quiet(c.code[q])
  <2> DEFINE k == q - lo + 1
  <2>1. k \in 1..Len(code) /\ lo + k - 1 = q /\ k # m
    BY <1>1, <1>4
  <2> HIDE DEF k
  <2>2. c.code[q] = code[k]
    BY <2>1 DEF Holds
  <2> QED
    BY <2>1, <2>2 DEF ActsOnce
<1> HIDE DEF ip, hi
<1>5. Straight(c, lo, ip) /\ Straight(c, ip + 1, hi)
  BY <1>2, StraightPart
<1>6. \A q \in lo..(ip - 1) : q \in lo..(hi - 1) /\ q # ip
  BY <1>2
<1>7. \A q \in (ip + 1)..(hi - 1) : q \in lo..(hi - 1) /\ q # ip
  BY <1>2
<1>8. Meets(at[ip], all)
  BY <1>2, <1>4, <1>5, <1>6, QuietRuns
<1>9. at[ip + 1] = {Computed(c, i, ctx, resumed) : ctx \in at[ip]}
  BY <1>2, <1>3, StepIs
<1>10. Meets(at[ip + 1], Through(node, all))
  BY <1>8, <1>9, Zenon DEF Makes
<1>11. Meets(at[hi], Through(node, all))
  <2> DEFINE next == ip + 1
  <2>1. /\ next \in Nat \ {0} /\ next <= hi /\ Straight(c, next, hi)
        /\ \A q \in next..(hi - 1) : Quiet(c.code[q])
    BY <1>2, <1>4, <1>5, <1>7
  <2> HIDE DEF next
  <2> QED
    BY <1>2, <1>10, <2>1, QuietRuns DEF next
<1> QED
  BY <1>11 DEF hi

-----------------------------------------------------------------------------
(* The code of one node.                                                   *)

\* c holds what was added to old, and the names of new.
Carries(c, old, new) ==
    /\ Len(new.code) <= Len(c.code)
    /\ \A ip \in (Len(old.code) + 1)..Len(new.code) : c.code[ip] = new.code[ip]
    /\ \A id \in DOMAIN new.table : id \in DOMAIN c.table /\ c.table[id] = new.table[id]

\* What was added to old leads straight on.
StepsOn(old, new) ==
    /\ Len(old.code) <= Len(new.code)
    /\ \A ip \in (Len(old.code) + 1)..Len(new.code) :
           new.code[ip].op \notin {"jump", "route"}

\* Code appended to st, one instruction of which acts.
LEMMA AppendedRuns ==
    ASSUME NEW c, NEW resumed, NEW at, Flows(c, resumed, at), NEW st, Shaped(st),
           NEW code, NEW i, NEW m, ActsOnce(code, i, m),
           NEW new, new.code = st.code \o code, Carries(c, st, new),
           Straight(c, Len(st.code) + 1, Len(new.code) + 1),
           NEW node, Makes(c, resumed, i, node), NEW all, Meets(at[Len(st.code) + 1], all)
    PROVE  Meets(at[Len(new.code) + 1], Through(node, all))
<1> DEFINE lo == Len(st.code) + 1
<1>1. IsSeq(st.code) /\ IsSeq(code)
  BY DEF Shaped, ActsOnce
<1>2. /\ Len(new.code) = Len(st.code) + Len(code)
      /\ \A k \in (Len(st.code) + 1)..Len(new.code) :
             k - Len(st.code) \in 1..Len(code) /\ new.code[k] = code[k - Len(st.code)]
  BY <1>1, ConcatIs
<1>3. Len(st.code) \in Nat /\ Len(code) \in Nat
  BY <1>1, SeqIs
<1>4. Holds(c, lo, code)
  <2> SUFFICES ASSUME NEW k \in 1..Len(code) PROVE c.code[lo + k - 1] = code[k]
    BY DEF Holds
  <2> DEFINE ip == lo + k - 1
  <2>1. ip \in (Len(st.code) + 1)..Len(new.code) /\ ip - Len(st.code) = k
    BY <1>2, <1>3
  <2> HIDE DEF ip
  <2>2. c.code[ip] = new.code[ip] /\ new.code[ip] = code[k]
    BY <1>2, <2>1 DEF Carries
  <2> QED
    BY <2>2 DEF ip
<1>5. /\ lo \in Nat \ {0} /\ Len(new.code) + 1 = lo + Len(code)
      /\ lo + Len(code) <= Len(c.code) + 1
  BY <1>2, <1>3 DEF Carries, Flows
<1> HIDE DEF lo
<1>6. Straight(c, lo, lo + Len(code)) /\ Meets(at[lo], all)
  BY <1>5 DEF lo
<1>7. Meets(at[lo + Len(code)], Through(node, all))
  BY <1>4, <1>5, <1>6, ActsRuns
<1> QED
  BY <1>5, <1>7

LEMMA StageFlows ==
    ASSUME NEW c, NEW resumed, NEW at, Flows(c, resumed, at), NEW st, Shaped(st), st.err = NoError,
           NEW fn \in Nodes, fn.kind = "stage", Carries(c, st, CompileStage(fn, st)),
           Straight(c, Len(st.code) + 1, Len(CompileStage(fn, st).code) + 1),
           NEW all, Meets(at[Len(st.code) + 1], all)
    PROVE  Meets(at[Len(CompileStage(fn, st).code) + 1], Through(fn, all))
<1> DEFINE new == CompileStage(fn, st)
           id == NodeId(fn, st.table)
<1>1. new.table = With(fn, st.table) /\ new.code = st.code \o StageCode(fn, id)
  BY StageIs
<1>2. id \in DOMAIN new.table /\ new.table[id] = fn
  <2>1. With(fn, st.table)[id] = fn /\ id \in DOMAIN With(fn, st.table)
    BY DEF With
  <2> QED
    BY <1>1, <2>1
<1> HIDE DEF new, id
<1>3. c.table[id] = fn
  BY <1>2 DEF Carries, new
<1>4. Makes(c, resumed, Call(id), fn)
  BY <1>3, CallMeets DEF Calls
<1>5. PICK m : ActsOnce(StageCode(fn, id), Call(id), m)
  BY StageCodeActs
<1>6. Carries(c, st, new) /\ Straight(c, Len(st.code) + 1, Len(new.code) + 1)
  BY DEF new
<1>7. Meets(at[Len(new.code) + 1], Through(fn, all))
  BY <1>1, <1>4, <1>5, <1>6, AppendedRuns
<1> QED
  BY <1>7 DEF new

\* The branches of a block that compiles are stages.
LEMMA BranchesAreStages ==
    ASSUME NEW st, Shaped(st), NEW fns, IsSeq(fns), Registers(fns, st).st.err = NoError
    PROVE  \A b \in 1..Len(fns) : fns[b].kind = "stage"
<1> DEFINE n == Len(fns)
           base == [st |-> st, ids |-> <<>>]
<1>1. n \in Nat /\ DOMAIN fns = 1..n
  BY SeqIs
<1> HIDE DEF n
<1>2. PICK h : /\ Rounds(h, "branches", 0, base, fns, n)
               /\ FoldLeft(RegisterBranch, base, fns) = h[n]
  <2> HIDE DEF base
  <2> QED
    BY <1>1, BranchRounds
<1>3. Registers(fns, st) = h[n]
  BY <1>2, Zenon DEF Registers
<1>4. h[0].st = st
  BY <1>1, <1>2 DEF Rounds
<1> HIDE DEF base
<1> DEFINE S == {k \in 0..n : /\ Shaped(h[k].st)
                              /\ h[k].st.err = NoError =>
                                     \A b \in 1..k : fns[b].kind = "stage"}
<1>5. 0 \in S
  BY <1>1, <1>4
<1>6. ASSUME NEW k \in 0..(n - 1), k \in S PROVE k + 1 \in S
  <2>1. k + 1 \in 1..n /\ (k + 1) - 1 = k /\ \A b \in 1..(k + 1) : b \in 1..k \/ b = k + 1
    BY <1>1
  <2>2. h[k + 1] = Round("branches", 0, h[k], fns[k + 1])
    BY <1>2, <2>1 DEF Rounds
  <2>3. h[k + 1] = RegisterBranch(h[k], fns[k + 1])
    BY <2>2 DEF Round
  <2>4. CASE h[k].st.err # NoError
    <3>1. h[k + 1] = h[k]
      BY <2>3, <2>4 DEF RegisterBranch
    <3> QED
      BY <1>1, <1>6, <2>4, <3>1
  <2>5. CASE h[k].st.err = NoError
    <3> DEFINE s == h[k].st
               fn == fns[k + 1]
    <3>1. h[k + 1].st = Register(fn, s)
      BY <2>3, <2>5 DEF RegisterBranch
    <3>2. Shaped(s)
      BY <1>6
    <3> HIDE DEF s, fn
    <3> DEFINE new == Register(fn, s)
    <3>3. Shaped(new) /\ (fn.kind # "stage" => new.err = "NotAStage")
      BY <3>2, RegisterIs
    <3> HIDE DEF new
    <3>5. Shaped(h[k + 1].st) /\ (fn.kind # "stage" => h[k + 1].st.err # NoError)
      BY <3>1, <3>3, NoErrorIsNone DEF new
    <3>4. h[k + 1].st.err = NoError => \A b \in 1..(k + 1) : fns[b].kind = "stage"
      BY <1>6, <2>1, <2>5, <3>5 DEF fn
    <3> QED
      BY <1>1, <3>5, <3>4
  <2> QED
    BY <2>4, <2>5
<1> HIDE DEF S
<1>7. n \in S
  BY <1>1, <1>5, <1>6, UpTo
<1> QED
  BY <1>3, <1>7 DEF S, n

\* A stage that stands twice in a block declares what it writes.
FineNode(node) ==
    node.kind = "parallel" =>
        /\ node.branches \in Seq(Nodes)
        /\ node.mode = "parallel" =>
               \A i, j \in DOMAIN node.branches :
                   (i # j /\ node.branches[i] = node.branches[j]) =>
                       node.branches[i].writes # Undeclared

LEMMA MadeIsFine ==
    ASSUME RepeatsAreDeclared, NEW node, MadeNode(node)
    PROVE  FineNode(node)
<1>1. CASE node \in Nodes
  BY <1>1, NodesTyped DEF FineNode, RepeatsAreDeclared
<1>2. ASSUME NEW group, GroupOK(group), node = Block(group)
      PROVE  FineNode(node)
  <2>1. node.branches = group /\ group \in Seq(Nodes)
    BY <1>2 DEF Block, GroupOK
  <2>2. DOMAIN group = 1..Len(group)
    BY <2>1
  <2>3. ASSUME NEW i \in DOMAIN group, NEW j \in DOMAIN group, i # j
        PROVE  group[i].writes # Undeclared
    BY <1>2, <2>2, <2>3 DEF GroupOK, Apart
  <2> QED
    BY <2>1, <2>3 DEF FineNode
<1> QED
  BY <1>1, <1>2 DEF MadeNode

LEMMA ParallelFlows ==
    ASSUME NEW c, NEW resumed, NEW at, Flows(c, resumed, at), NEW st, Shaped(st), st.err = NoError,
           NEW block, block.kind = "parallel", FineNode(block),
           CompileParallel(block, st).err = NoError,
           Carries(c, st, CompileParallel(block, st)),
           Straight(c, Len(st.code) + 1, Len(CompileParallel(block, st).code) + 1),
           NEW all, Meets(at[Len(st.code) + 1], all)
    PROVE  Meets(at[Len(CompileParallel(block, st).code) + 1], Through(block, all))
<1> DEFINE new == CompileParallel(block, st)
           fns == block.branches
           reg == Registers(fns, st)
           ids == reg.ids
<1>1. fns \in Seq(Nodes) /\ IsSeq(fns)
  BY DEF FineNode, IsSeq
<1>2. DOMAIN fns = 1..Len(fns) /\ \A b \in 1..Len(fns) : fns[b] \in Nodes
  BY <1>1
<1>3. /\ reg.st.err = NoError /\ ~WriteConflict(fns, ids) /\ Shaped(reg.st)
      /\ new = Emitted(reg.st, BlockCode(ids, block.mode)) /\ new.table = reg.st.table
  <2> HIDE DEF fns
  <2>1. /\ Shaped(reg.st)
        /\ reg.st.err # NoError => new = reg.st
        /\ (reg.st.err = NoError /\ WriteConflict(fns, ids)) => new.err = "WriteConflict"
        /\ (reg.st.err = NoError /\ ~WriteConflict(fns, ids)) =>
               /\ new = Emitted(reg.st, BlockCode(ids, block.mode))
               /\ new.table = reg.st.table
    BY <1>1, ParallelIs DEF fns
  <2>2. new.err = NoError
    OBVIOUS
  <2> HIDE DEF new, reg
  <2> QED
    BY <2>1, <2>2, NoErrorIsNone
<1>4. Registered(reg, st, Nat, fns, Len(fns))
  <2>1. Sound(st, Nat)
    BY ShapedIsSound
  <2> HIDE DEF fns
  <2> QED
    BY <1>1, <2>1, BranchesRegistered DEF Registers
<1>5. \A b \in 1..Len(fns) : fns[b].kind = "stage"
  BY <1>1, <1>3, BranchesAreStages
<1> HIDE DEF reg, new
<1>6. /\ reg.st.code = st.code /\ IsSeq(ids) /\ Len(ids) = Len(fns)
      /\ \A b \in 1..Len(fns) : /\ ids[b] \in DOMAIN reg.st.table
                                /\ reg.st.table[ids[b]] = fns[b]
  BY <1>3, <1>4 DEF Registered
<1> HIDE DEF ids
<1>7. DOMAIN ids = DOMAIN fns
  BY <1>2, <1>6, SeqIs
<1>8. \A b \in DOMAIN ids : c.table[ids[b]] = fns[b]
  BY <1>2, <1>3, <1>6, <1>7 DEF Carries, new
<1>9. ASSUME block.mode = "parallel", NEW a \in DOMAIN ids, NEW b \in DOMAIN ids,
             ids[a] # ids[b], fns[a] = fns[b]
      PROVE  KeysOf(fns[a].writes) = {}
  <2>1. fns[a].writes # Undeclared
    BY <1>7, <1>9 DEF FineNode
  <2>2. IsEmptyDecl(fns[a].writes)
    BY <1>3, <1>7, <1>9 DEF WriteConflict, IsEmptyDecl
  <2> QED
    BY <2>1, <2>2 DEF IsEmptyDecl, KeysOf
<1>10. Forks(c, ids, block)
  BY <1>2, <1>5, <1>6, <1>7, <1>8, <1>9 DEF Forks
<1>11. Makes(c, resumed, Fork(ids, block.mode), block)
  BY <1>10, ForkMeets
<1>12. PICK m : ActsOnce(BlockCode(ids, block.mode), Fork(ids, block.mode), m)
  BY BlockCodeActs
<1>13. new.code = st.code \o BlockCode(ids, block.mode)
  <2>1. new.code = reg.st.code \o BlockCode(ids, block.mode)
    BY <1>3, <1>12, EmittedIs DEF ActsOnce
  <2> QED
    BY <1>6, <2>1
<1>14. Carries(c, st, new) /\ Straight(c, Len(st.code) + 1, Len(new.code) + 1)
  BY DEF new
<1>15. Meets(at[Len(new.code) + 1], Through(block, all))
  BY <1>11, <1>12, <1>13, <1>14, AppendedRuns
<1> QED
  BY <1>15 DEF new

\* What leads one further and no instruction before lo leads past it.
LEMMA StraightOn ==
    ASSUME NEW c, NEW lo \in Nat \ {0}, NEW hi \in Nat,
           \A j \in 1..(lo - 1) : \A ip \in (lo + 1)..hi : ip \notin Leads(c.code[j], j),
           \A j \in lo..(hi - 1) : c.code[j].op \notin {"jump", "route"}
    PROVE  Straight(c, lo, hi)
<1> SUFFICES ASSUME NEW ip \in (lo + 1)..hi, NEW j \in 1..(ip - 1)
             PROVE  ip \in Leads(c.code[j], j) <=> j = ip - 1
  BY DEF Straight
<1>1. CASE j \in 1..(lo - 1)
  BY <1>1
<1>2. CASE j \in lo..(hi - 1)
  <2>1. Leads(c.code[j], j) = {j + 1}
    BY <1>2 DEF Leads
  <2> QED
    BY <2>1
<1> QED
  BY <1>1, <1>2

\* Instructions of sound code lead on inside it.
LEMMA SoundLeads ==
    ASSUME NEW st, Sound(st, {}), st.err = NoError, NEW j \in 1..Len(st.code)
    PROVE  \A ip \in Leads(st.code[j], j) : ip \in (j + 1)..(Len(st.code) + 1)
<1> DEFINE i == st.code[j]
           last == Len(st.code) + 1
<1>1. InstrOK(i, j, last, st.table)
  BY DEF Sound
<1>2. Len(st.code) \in Nat /\ j + 1 \in (j + 1)..last
  BY SoundLen
<1> HIDE DEF i, last
<1>3. \A ip \in Leads(i, j) : ip \in (j + 1)..last
  <2>1. CASE i.op = "jump"
    BY <1>1, <2>1 DEF InstrOK, Leads
  <2>2. CASE i.op = "route"
    BY <1>1, <2>2 DEF InstrOK, Leads, Range
  <2>3. CASE i.op \notin {"jump", "route"}
    BY <1>2, <2>3 DEF Leads
  <2> QED
    BY <2>1, <2>2, <2>3
<1> QED
  BY <1>3 DEF i, last

LEMMA StraightAfter ==
    ASSUME NEW st, Sound(st, {}), st.err = NoError, NEW new, Len(new.code) \in Nat,
           StepsOn(st, new), NEW c, Carries(c, st, new),
           \A j \in 1..Len(st.code) : c.code[j] = st.code[j]
    PROVE  Straight(c, Len(st.code) + 1, Len(new.code) + 1)
<1> DEFINE lo == Len(st.code) + 1
           hi == Len(new.code) + 1
<1>1. lo \in Nat \ {0} /\ hi \in Nat /\ Len(st.code) \in Nat
  BY SoundLen
<1>2. ASSUME NEW j \in 1..(lo - 1), NEW ip \in (lo + 1)..hi
      PROVE  ip \notin Leads(c.code[j], j)
  <2>1. j \in 1..Len(st.code) /\ c.code[j] = st.code[j]
    BY <1>1
  <2>2. \A q \in Leads(st.code[j], j) : q \in (j + 1)..(Len(st.code) + 1)
    BY <2>1, SoundLeads
  <2> QED
    BY <1>1, <2>1, <2>2
<1>3. ASSUME NEW j \in lo..(hi - 1)
      PROVE  c.code[j].op \notin {"jump", "route"}
  <2>1. j \in (Len(st.code) + 1)..Len(new.code)
    BY <1>1
  <2> QED
    BY <2>1 DEF Carries, StepsOn
<1> HIDE DEF lo, hi
<1>4. Straight(c, lo, hi)
  BY <1>1, <1>2, <1>3, StraightOn
<1> QED
  BY <1>4 DEF lo, hi

LEMMA AppendedSteps ==
    ASSUME NEW st, IsSeq(st.code), NEW code, IsSeq(code),
           \A k \in 1..Len(code) : code[k].op \notin {"jump", "route"},
           NEW new, new.code = st.code \o code
    PROVE  StepsOn(st, new)
<1>1. /\ Len(new.code) = Len(st.code) + Len(code)
      /\ \A k \in (Len(st.code) + 1)..Len(new.code) :
             k - Len(st.code) \in 1..Len(code) /\ new.code[k] = code[k - Len(st.code)]
  BY ConcatIs
<1>2. Len(st.code) \in Nat /\ Len(code) \in Nat
  BY SeqIs
<1> QED
  BY <1>1, <1>2 DEF StepsOn

LEMMA StageSteps ==
    ASSUME NEW st, Shaped(st), st.err = NoError, NEW fn, fn.kind = "stage"
    PROVE  StepsOn(st, CompileStage(fn, st))
<1> DEFINE new == CompileStage(fn, st)
           code == StageCode(fn, NodeId(fn, st.table))
<1>1. new.code = st.code \o code
  BY StageIs
<1>2. IsSeq(code) /\ \A k \in 1..Len(code) : code[k].op \notin {"jump", "route"}
  BY StageCodePlain DEF Plain
<1>3. IsSeq(st.code)
  BY DEF Shaped
<1> HIDE DEF new, code
<1>4. StepsOn(st, new)
  BY <1>1, <1>2, <1>3, AppendedSteps
<1> QED
  BY <1>4 DEF new

LEMMA BlockCodeSteps ==
    ASSUME NEW ids, NEW mode
    PROVE  /\ IsSeq(BlockCode(ids, mode))
           /\ \A k \in 1..Len(BlockCode(ids, mode)) :
                  BlockCode(ids, mode)[k].op \notin {"jump", "route"}
<1> DEFINE event == EmitBranch(ids)
           fork == Fork(ids, mode)
           a == <<event, fork>>
           b == IF mode = "parallel" THEN <<Join>> ELSE <<>>
<1>1. /\ event.op \notin {"jump", "route"} /\ fork.op \notin {"jump", "route"}
      /\ Join.op \notin {"jump", "route"}
  BY DEF EmitBranch, Fork, Join
<1>2. BlockCode(ids, mode) = a \o b
  BY Zenon DEF BlockCode
<1> HIDE DEF event, fork
<1>3. IsSeq(a) /\ \A k \in 1..Len(a) : a[k].op \notin {"jump", "route"}
  <2>1. IsSeq(a) /\ Len(a) = 2 /\ a[1] = event /\ a[2] = fork
    BY TuplesAre
  <2>2. \A k \in 1..2 : k = 1 \/ k = 2
    OBVIOUS
  <2> HIDE DEF a
  <2> QED
    BY <1>1, <2>1, <2>2
<1>4. IsSeq(b) /\ \A k \in 1..Len(b) : b[k].op \notin {"jump", "route"}
  <2>1. IsSeq(b) /\ Len(b) \in {0, 1} /\ (Len(b) = 1 => b[1] = Join)
    BY TuplesAre
  <2>2. (\A k \in 1..1 : k = 1) /\ 1..0 = {}
    OBVIOUS
  <2> HIDE DEF b
  <2> QED
    BY <1>1, <2>1, <2>2
<1> HIDE DEF a, b
<1>5. /\ IsSeq(a \o b) /\ Len(a \o b) = Len(a) + Len(b)
      /\ Len(a) \in Nat /\ Len(b) \in Nat
      /\ \A k \in 1..Len(a) : (a \o b)[k] = a[k]
      /\ \A k \in (Len(a) + 1)..Len(a \o b) :
             k - Len(a) \in 1..Len(b) /\ (a \o b)[k] = b[k - Len(a)]
  BY <1>3, <1>4, ConcatIs, SeqIs
<1>6. \A k \in 1..Len(a \o b) : k \in 1..Len(a) \/ k \in (Len(a) + 1)..Len(a \o b)
  BY <1>5
<1>7. \A k \in 1..Len(a \o b) : (a \o b)[k].op \notin {"jump", "route"}
  BY <1>3, <1>4, <1>5, <1>6
<1> QED
  BY <1>2, <1>5, <1>7

LEMMA BlockSteps ==
    ASSUME NEW st, Shaped(st), NEW block, FineNode(block), block.kind = "parallel",
           CompileParallel(block, st).err = NoError
    PROVE  StepsOn(st, CompileParallel(block, st)) /\ Shaped(CompileParallel(block, st))
<1> DEFINE new == CompileParallel(block, st)
           fns == block.branches
           reg == Registers(fns, st)
           code == BlockCode(reg.ids, block.mode)
<1>1. IsSeq(fns)
  BY DEF FineNode, IsSeq
<1>2. /\ Shaped(reg.st) /\ Shaped(new)
      /\ reg.st.err # NoError => new = reg.st
      /\ (reg.st.err = NoError /\ WriteConflict(fns, reg.ids)) => new.err = "WriteConflict"
      /\ (reg.st.err = NoError /\ ~WriteConflict(fns, reg.ids)) => new = Emitted(reg.st, code)
  <2> HIDE DEF fns
  <2> QED
    BY <1>1, ParallelIs, Zenon DEF fns, new, reg, code
<1>3. reg.st.code = st.code
  <2>1. Sound(st, Nat)
    BY ShapedIsSound
  <2> HIDE DEF fns
  <2>2. Registered(reg, st, Nat, fns, Len(fns))
    BY <1>1, <2>1, BranchesRegistered DEF Registers
  <2> QED
    BY <2>2 DEF Registered
<1>4. IsSeq(code) /\ \A k \in 1..Len(code) : code[k].op \notin {"jump", "route"}
  <2> HIDE DEF reg
  <2> QED
    BY BlockCodeSteps
<1>5. new.err = NoError /\ IsSeq(st.code)
  BY DEF Shaped
<1> HIDE DEF new, code, reg
<1>6. new = Emitted(reg.st, code)
  BY <1>2, <1>5, NoErrorIsNone
<1>7. new.code = st.code \o code
  <2> DEFINE base == reg.st
  <2>1. Shaped(base) /\ IsSeq(code)
    BY <1>2, <1>4
  <2> HIDE DEF base
  <2>2. Emitted(base, code).code = base.code \o code
    BY <2>1, EmittedIs
  <2> QED
    BY <1>3, <1>6, <2>2 DEF base
<1>8. StepsOn(st, new)
  BY <1>4, <1>5, <1>7, AppendedSteps
<1> QED
  BY <1>2, <1>8 DEF new

\* A node of a body, or a node of the list that is no dict.
LEMMA NodeSteps ==
    ASSUME NEW st, Shaped(st), st.err = NoError, NEW node, FineNode(node),
           BodyNode(node, st).err = NoError
    PROVE  StepsOn(st, BodyNode(node, st)) /\ Shaped(BodyNode(node, st))
<1>1. CASE node.kind = "parallel"
  <2>1. BodyNode(node, st) = CompileParallel(node, st)
    BY <1>1 DEF BodyNode
  <2>2. CompileParallel(node, st).err = NoError
    BY <2>1
  <2>3. StepsOn(st, CompileParallel(node, st)) /\ Shaped(CompileParallel(node, st))
    BY <1>1, <2>2, BlockSteps
  <2> QED
    BY <2>1, <2>3
<1>2. CASE node.kind # "parallel"
  <2>1. BodyNode(node, st) = CompileStage(node, st)
    BY <1>2 DEF BodyNode
  <2>2. CompileStage(node, st).err = NoError
    BY <2>1
  <2>3. node.kind = "stage" /\ Shaped(CompileStage(node, st))
    BY <2>2, StageIs, NoErrorIsNone
  <2>4. StepsOn(st, CompileStage(node, st))
    BY <2>3, StageSteps
  <2> QED
    BY <2>1, <2>3, <2>4
<1> QED
  BY <1>1, <1>2

LEMMA NodeFlows ==
    ASSUME NEW c, NEW resumed, NEW at, Flows(c, resumed, at), NEW st, Shaped(st), st.err = NoError,
           NEW node, MadeNode(node), FineNode(node), NEW new, new = BodyNode(node, st),
           new.err = NoError, Carries(c, st, new),
           Straight(c, Len(st.code) + 1, Len(new.code) + 1),
           NEW all, Meets(at[Len(st.code) + 1], all)
    PROVE  Meets(at[Len(new.code) + 1], Through(node, all))
<1>1. CASE node.kind = "parallel"
  <2>1. new = CompileParallel(node, st)
    BY <1>1 DEF BodyNode
  <2>2. /\ CompileParallel(node, st).err = NoError
        /\ Carries(c, st, CompileParallel(node, st))
        /\ Straight(c, Len(st.code) + 1, Len(CompileParallel(node, st).code) + 1)
    BY <2>1
  <2>3. Meets(at[Len(CompileParallel(node, st).code) + 1], Through(node, all))
    BY <1>1, <2>2, ParallelFlows
  <2> QED
    BY <2>1, <2>3
<1>2. CASE node.kind # "parallel"
  <2>1. new = CompileStage(node, st)
    BY <1>2 DEF BodyNode
  <2>2. /\ CompileStage(node, st).err = NoError
        /\ Carries(c, st, CompileStage(node, st))
        /\ Straight(c, Len(st.code) + 1, Len(CompileStage(node, st).code) + 1)
    BY <2>1
  <2>3. node.kind = "stage"
    BY <2>2, StageIs, NoErrorIsNone
  <2>4. node \in Nodes
    BY <1>2 DEF MadeNode, Block
  <2>5. Meets(at[Len(CompileStage(node, st).code) + 1], Through(node, all))
    BY <2>2, <2>3, <2>4, StageFlows
  <2> QED
    BY <2>1, <2>5
<1> QED
  BY <1>1, <1>2

-----------------------------------------------------------------------------
(* The code of a body.                                                     *)

LEMMA StepsOnTransitive ==
    ASSUME NEW a, NEW b, NEW d, StepsOn(a, b), StepsOn(b, d), Extends(b, d),
           Len(a.code) \in Nat, Len(b.code) \in Nat, Len(d.code) \in Nat
    PROVE  StepsOn(a, d)
<1>1. ASSUME NEW ip \in (Len(a.code) + 1)..Len(d.code)
      PROVE  d.code[ip].op \notin {"jump", "route"}
  <2>1. CASE ip <= Len(b.code)
    <3>1. ip \in 1..Len(b.code) /\ ip \in (Len(a.code) + 1)..Len(b.code)
      BY <2>1
    <3> QED
      BY <3>1 DEF StepsOn, Extends
  <2>2. CASE ~(ip <= Len(b.code))
    <3>1. ip \in (Len(b.code) + 1)..Len(d.code)
      BY <2>2
    <3> QED
      BY <3>1 DEF StepsOn
  <2> QED
    BY <2>1, <2>2
<1>2. Len(a.code) <= Len(d.code)
  BY DEF StepsOn
<1> QED
  BY <1>1, <1>2 DEF StepsOn

\* Less of it, and from later on.
LEMMA CarriesLess ==
    ASSUME NEW c, NEW a, NEW new, Carries(c, a, new), NEW old, Extends(old, new),
           Len(a.code) \in Nat, Len(old.code) \in Nat, Len(new.code) \in Nat,
           Len(c.code) \in Nat
    PROVE  Carries(c, a, old)
<1>1. \A ip \in (Len(a.code) + 1)..Len(old.code) :
          ip \in 1..Len(old.code) /\ ip \in (Len(a.code) + 1)..Len(new.code)
  BY DEF Extends
<1>2. \A ip \in (Len(a.code) + 1)..Len(old.code) : c.code[ip] = old.code[ip]
  BY <1>1 DEF Carries, Extends
<1>3. Len(old.code) <= Len(c.code)
  BY DEF Carries, Extends
<1>4. \A id \in DOMAIN old.table : id \in DOMAIN c.table /\ c.table[id] = old.table[id]
  BY DEF Carries, Extends
<1> QED
  BY <1>2, <1>3, <1>4 DEF Carries

LEMMA CarriesLater ==
    ASSUME NEW c, NEW a, NEW new, Carries(c, a, new), NEW old,
           Len(a.code) \in Nat, Len(old.code) \in Nat, Len(a.code) <= Len(old.code)
    PROVE  Carries(c, old, new)
<1>1. \A ip \in (Len(old.code) + 1)..Len(new.code) : ip \in (Len(a.code) + 1)..Len(new.code)
  OBVIOUS
<1> QED
  BY <1>1 DEF Carries

\* One node of a body that compiles, in front of what base had.
BodyStep(base, st, node, new) ==
    /\ Shaped(st) /\ st.err = NoError /\ StepsOn(base, st) /\ Extends(base, st)
    /\ new = BodyNode(node, st)

LEMMA BodyStepSteps ==
    ASSUME NEW base, Shaped(base), NEW st, NEW node, MadeNode(node), FineNode(node),
           NEW new, BodyStep(base, st, node, new), new.err = NoError
    PROVE  /\ Shaped(new) /\ StepsOn(base, new) /\ Extends(base, new) /\ Extends(st, new)
<1>1. StepsOn(st, new) /\ Shaped(new)
  BY NodeSteps DEF BodyStep
<1>2. Extends(st, new)
  <2>1. IsNode(node)
    <3>1. \A group : GroupOK(group) => IsNode(Block(group))
      BY DEF IsNode, Block, GroupOK, IsSeq
    <3> QED
      BY <3>1 DEF MadeNode, IsNode
  <2>2. Sound(st, Nat)
    BY ShapedIsSound DEF BodyStep
  <2>3. Extends(st, BodyNode(node, st))
    BY <2>1, <2>2, BodyNodeSound
  <2> QED
    BY <2>3 DEF BodyStep
<1>3. Len(base.code) \in Nat /\ Len(st.code) \in Nat /\ Len(new.code) \in Nat
  BY <1>1, SeqIs DEF Shaped, BodyStep
<1>4. StepsOn(base, new)
  BY <1>1, <1>2, <1>3, StepsOnTransitive DEF BodyStep
<1>5. Extends(base, new)
  BY <1>2, <1>3, ExtendsTransitive DEF BodyStep
<1> QED
  BY <1>1, <1>2, <1>4, <1>5

LEMMA BodySteps ==
    ASSUME RepeatsAreDeclared, NEW base, Shaped(base), base.err = NoError,
           NEW seq, Made(seq), BodyLoop(base, seq).err = NoError
    PROVE  /\ Shaped(BodyLoop(base, seq)) /\ StepsOn(base, BodyLoop(base, seq))
           /\ Extends(base, BodyLoop(base, seq))
<1> DEFINE n == Len(seq)
<1>1. n \in Nat /\ DOMAIN seq = 1..n /\ \A k \in 1..n : MadeNode(seq[k])
  BY SeqIs DEF Made
<1>2. \A k \in 1..n : FineNode(seq[k])
  BY <1>1, MadeIsFine
<1> HIDE DEF n
<1>3. PICK h : Rounds(h, "body", 0, base, seq, n) /\ BodyLoop(base, seq) = h[n]
  BY <1>1, BodyRounds
<1> DEFINE S == {k \in 0..n : h[k].err = NoError =>
                     Shaped(h[k]) /\ StepsOn(base, h[k]) /\ Extends(base, h[k])}
<1>4. 0 \in S
  <2>1. Len(base.code) \in Nat
    BY SeqIs DEF Shaped
  <2>2. StepsOn(base, base)
    BY <2>1 DEF StepsOn
  <2>3. h[0] = base
    BY <1>3 DEF Rounds
  <2> QED
    BY <1>1, <2>2, <2>3, ExtendsItself
<1>5. ASSUME NEW k \in 0..(n - 1), k \in S PROVE k + 1 \in S
  <2> DEFINE st == h[k]
             new == h[k + 1]
             node == seq[k + 1]
  <2>1. k + 1 \in 1..n /\ k + 1 \in 0..n /\ (k + 1) - 1 = k
    BY <1>1
  <2>2. new = Round("body", 0, st, node)
    BY <1>3, <2>1 DEF Rounds
  <2>3. new = IF st.err = NoError THEN BodyNode(node, st) ELSE st
    BY <2>2, Zenon DEF Round, Then
  <2>4. MadeNode(node) /\ FineNode(node)
    BY <1>1, <1>2, <2>1
  <2>5. st.err = NoError => Shaped(st) /\ StepsOn(base, st) /\ Extends(base, st)
    BY <1>5
  <2> HIDE DEF st, new, node
  <2>6. ASSUME new.err = NoError
        PROVE  Shaped(new) /\ StepsOn(base, new) /\ Extends(base, new)
    <3>1. st.err = NoError
      BY <2>3, <2>6
    <3>2. BodyStep(base, st, node, new)
      BY <2>3, <2>5, <3>1 DEF BodyStep
    <3> QED
      BY <2>4, <2>6, <3>2, BodyStepSteps
  <2> QED
    BY <2>1, <2>6 DEF new
<1> HIDE DEF S
<1>6. n \in S
  BY <1>1, <1>4, <1>5, UpTo
<1> QED
  BY <1>3, <1>6 DEF S

LEMMA BodyRuns ==
    ASSUME RepeatsAreDeclared, NEW c, NEW resumed, NEW at, Flows(c, resumed, at),
           NEW base, Shaped(base), base.err = NoError, NEW seq, Made(seq),
           NEW end, end = BodyLoop(base, seq), end.err = NoError, Carries(c, base, end),
           Straight(c, Len(base.code) + 1, Len(end.code) + 1),
           NEW all, Meets(at[Len(base.code) + 1], all)
    PROVE  Meets(at[Len(end.code) + 1], Loop("mean", "body", all, seq))
<1> DEFINE n == Len(seq)
           lo == Len(base.code) + 1
<1>1. n \in Nat /\ DOMAIN seq = 1..n /\ \A k \in 1..n : MadeNode(seq[k])
  BY SeqIs DEF Made
<1>2. \A k \in 1..n : FineNode(seq[k])
  BY <1>1, MadeIsFine
<1> HIDE DEF n
<1>3. PICK h : Rounds(h, "body", 0, base, seq, n) /\ BodyLoop(base, seq) = h[n]
  BY <1>1, BodyRounds
<1>4. PICK m : /\ Rounds(m, "mean", "body", all, seq, n)
               /\ Loop("mean", "body", all, seq) = m[n]
  BY <1>1, LoopRounds
<1>5. Len(base.code) \in Nat /\ Len(c.code) \in Nat /\ lo \in Nat
  BY SeqIs DEF Shaped, Flows
<1> HIDE DEF lo
<1> DEFINE Here(k) == /\ h[k].err = NoError /\ Carries(c, base, h[k])
                      /\ Straight(c, lo, Len(h[k].code) + 1)
           S == {k \in 0..n :
                     /\ h[k].err = NoError =>
                            Shaped(h[k]) /\ StepsOn(base, h[k]) /\ Extends(base, h[k])
                     /\ Here(k) => Meets(at[Len(h[k].code) + 1], m[k])}
<1>6. 0 \in S
  <2>1. StepsOn(base, base)
    BY <1>5 DEF StepsOn
  <2>2. h[0] = base /\ m[0] = all
    BY <1>3, <1>4 DEF Rounds
  <2> QED
    BY <1>1, <2>1, <2>2, ExtendsItself
<1>7. ASSUME NEW k \in 0..(n - 1), k \in S PROVE k + 1 \in S
  <2> DEFINE st == h[k]
             new == h[k + 1]
             node == seq[k + 1]
  <2>1. k + 1 \in 1..n /\ k + 1 \in 0..n /\ (k + 1) - 1 = k
    BY <1>1
  <2>2. new = Round("body", 0, st, node)
    BY <1>3, <2>1 DEF Rounds
  <2>3. new = IF st.err = NoError THEN BodyNode(node, st) ELSE st
    BY <2>2, Zenon DEF Round, Then
  <2>4. MadeNode(node) /\ FineNode(node)
    BY <1>1, <1>2, <2>1
  <2>5. st.err = NoError => Shaped(st) /\ StepsOn(base, st) /\ Extends(base, st)
    BY <1>7
  <2>6. (/\ st.err = NoError /\ Carries(c, base, st)
         /\ Straight(c, lo, Len(st.code) + 1)) => Meets(at[Len(st.code) + 1], m[k])
    BY <1>7
  <2>7. m[k + 1] = Through(node, m[k])
    <3>1. m[k + 1] = Round("mean", "body", m[k], node)
      BY <1>4, <2>1 DEF Rounds
    <3> QED
      BY <3>1, MeanIs
  <2> HIDE DEF st, new, node
  <2>8. ASSUME new.err = NoError
        PROVE  /\ Shaped(new) /\ StepsOn(base, new) /\ Extends(base, new)
               /\ Extends(st, new) /\ st.err = NoError
    <3>1. st.err = NoError
      BY <2>3, <2>8
    <3>2. BodyStep(base, st, node, new)
      BY <2>3, <2>5, <3>1 DEF BodyStep
    <3> QED
      BY <2>4, <2>8, <3>1, <3>2, BodyStepSteps
  <2>9. ASSUME new.err = NoError, Carries(c, base, new), Straight(c, lo, Len(new.code) + 1)
        PROVE  Meets(at[Len(new.code) + 1], m[k + 1])
    <3>1. /\ Shaped(st) /\ st.err = NoError /\ Shaped(new) /\ Extends(st, new)
          /\ new = BodyNode(node, st) /\ Extends(base, st)
      BY <2>3, <2>5, <2>8, <2>9
    <3>2. Len(st.code) \in Nat /\ Len(new.code) \in Nat
      BY <3>1, SeqIs DEF Shaped
    <3>3. Len(base.code) <= Len(st.code) /\ Len(st.code) <= Len(new.code)
      BY <3>1 DEF Extends
    <3>4. Carries(c, base, st) /\ Carries(c, st, new)
      BY <1>5, <2>9, <3>1, <3>2, <3>3, CarriesLess, CarriesLater
    <3> DEFINE mid == Len(st.code) + 1
               hi == Len(new.code) + 1
    <3>5. mid \in Nat /\ hi \in Nat /\ lo <= mid /\ mid <= hi /\ Straight(c, lo, hi) /\ lo <= lo /\ hi <= hi
      BY <1>5, <2>9, <3>2, <3>3 DEF lo
    <3> HIDE DEF mid, hi
    <3>6. Straight(c, lo, mid) /\ Straight(c, mid, hi)
      BY <1>5, <3>5, StraightPart
    <3>7. Meets(at[Len(st.code) + 1], m[k])
      BY <2>6, <3>1, <3>4, <3>6 DEF mid
    <3>8. Meets(at[Len(new.code) + 1], Through(node, m[k]))
      BY <2>4, <2>9, <3>1, <3>4, <3>6, <3>7, NodeFlows DEF mid, hi
    <3> QED
      BY <2>7, <3>8
  <2> QED
    BY <2>1, <2>8, <2>9 DEF new
<1> HIDE DEF S
<1>8. n \in S
  BY <1>1, <1>6, <1>7, UpTo
<1> QED
  BY <1>3, <1>4, <1>8 DEF S, lo

LEMMA RouteBodyIs ==
    ASSUME NEW st, Shaped(st), st.err = NoError, NEW body \in Seq(Nodes), NEW flag \in BOOLEAN,
           CompileBody(body, flag, st).err = NoError
    PROVE  /\ Normalize(body, flag).err = NoError
           /\ CompileBody(body, flag, st) = BodyLoop(st, Normalize(body, flag).out)
<1> DEFINE normal == Normalize(body, flag)
           end == CompileBody(body, flag, st)
<1>1. NormalBody(normal, st) = IF normal.err # NoError THEN Raise(st, normal.err)
                               ELSE BodyLoop(st, normal.out)
  BY Zenon DEF NormalBody, BodyLoop
<1>2. end = IF body = <<>> THEN Raise(st, "EmptyRoute") ELSE NormalBody(normal, st)
  BY Zenon DEF CompileBody
<1>3. \A err : Raise(st, err).err = err
  BY ShapedIsSound, RaiseSound
<1>4. end.err = NoError
  OBVIOUS
<1> HIDE DEF normal, end
<1>5. body # <<>>
  BY <1>2, <1>3, <1>4, NoErrorIsNone
<1>6. normal.err = NoError
  BY <1>1, <1>2, <1>3, <1>4, <1>5
<1> QED
  BY <1>1, <1>2, <1>5, <1>6 DEF normal, end

\* The body of a route means what it says.
LEMMA RouteBodyRuns ==
    ASSUME RepeatsAreDeclared, NEW c, NEW resumed, NEW at, Flows(c, resumed, at),
           NEW st, Shaped(st), st.err = NoError, NEW body \in Seq(Nodes), NEW flag \in BOOLEAN,
           NEW end, end = CompileBody(body, flag, st), end.err = NoError, Carries(c, st, end),
           Straight(c, Len(st.code) + 1, Len(end.code) + 1),
           NEW all, Meets(at[Len(st.code) + 1], all)
    PROVE  Meets(at[Len(end.code) + 1], BodyMeaning(body, all))
<1> DEFINE list == Normalize(body, flag).out
<1>1. Normalize(body, flag).err = NoError /\ end = BodyLoop(st, list)
  BY RouteBodyIs
<1>2. AllOK(all)
  BY MeetsIsOK
<1>3. Made(list) /\ Loop("mean", "body", all, list) = Loop("mean", "body", all, body)
  BY <1>1, <1>2, BodyKeepsValues, FoldKeepsMeaning
<1>4. Loop("mean", "body", all, body) = BodyMeaning(body, all)
  BY NodesAreListed, BodyMeansLoop
<1> HIDE DEF list
<1>5. Meets(at[Len(end.code) + 1], Loop("mean", "body", all, list))
  BY <1>1, <1>3, BodyRuns
<1> QED
  BY <1>3, <1>4, <1>5

LEMMA RouteBodySteps ==
    ASSUME RepeatsAreDeclared, NEW st, Shaped(st), st.err = NoError,
           NEW body \in Seq(Nodes), NEW flag \in BOOLEAN,
           NEW end, end = CompileBody(body, flag, st), end.err = NoError
    PROVE  Shaped(end) /\ StepsOn(st, end) /\ Extends(st, end)
<1> DEFINE list == Normalize(body, flag).out
<1>1. Normalize(body, flag).err = NoError /\ end = BodyLoop(st, list)
  BY RouteBodyIs
<1>2. AllOK({})
  BY DEF AllOK
<1>3. Made(list)
  BY <1>1, <1>2, BodyKeepsValues, FoldKeepsMeaning
<1> HIDE DEF list
<1>4. BodyLoop(st, list).err = NoError
  BY <1>1
<1>5. /\ Shaped(BodyLoop(st, list)) /\ StepsOn(st, BodyLoop(st, list))
      /\ Extends(st, BodyLoop(st, list))
  BY <1>3, <1>4, BodySteps
<1> QED
  BY <1>1, <1>5

-----------------------------------------------------------------------------
(* A routing dict: the ROUTE at p[0], and after it each body with its      *)
(* jump, that of route r at p[r].                                          *)

Layout(c, p, R) ==
    /\ R \in Nat /\ \A i \in 0..R : p[i] \in Nat \ {0}
    /\ \A i, j \in 0..R : i < j => p[i] < p[j]
    /\ p[R] <= Len(c.code)
    /\ \A j \in 1..(p[0] - 1) : \A ip \in Leads(c.code[j], j) : ip <= p[0]
    /\ Leads(c.code[p[0]], p[0]) = {p[i - 1] + 1 : i \in 1..R}
    /\ \A i \in 1..R : Leads(c.code[p[i]], p[i]) = {p[R] + 1}
    /\ \A j \in (p[0] + 1)..p[R] :
           j \in {p[i] : i \in 1..R} \/ c.code[j].op \notin {"jump", "route"}
    /\ \A i \in 0..R : Quiet(c.code[p[i]])

\* Where an instruction is.
LEMMA LayoutParts ==
    ASSUME NEW c, NEW p, NEW R, Layout(c, p, R), NEW j \in 1..p[R]
    PROVE  \/ j < p[0] /\ \A ip \in Leads(c.code[j], j) : ip <= p[0]
           \/ j = p[0]
           \/ \E i \in 1..R : j = p[i]
           \/ /\ Leads(c.code[j], j) = {j + 1}
              /\ p[0] < j /\ \A i \in 0..R : j # p[i]
<1>1. R \in Nat /\ p[0] \in Nat \ {0} /\ p[R] \in Nat \ {0}
  BY DEF Layout
<1>2. CASE j < p[0]
  <2>1. j \in 1..(p[0] - 1)
    BY <1>1, <1>2
  <2> QED
    BY <1>2, <2>1 DEF Layout
<1>3. CASE j > p[0] /\ j \notin {p[i] : i \in 1..R}
  <2>1. j \in (p[0] + 1)..p[R]
    BY <1>1, <1>3
  <2>2. c.code[j].op \notin {"jump", "route"}
    BY <1>3, <2>1 DEF Layout
  <2>3. Leads(c.code[j], j) = {j + 1}
    BY <2>2 DEF Leads
  <2>4. \A i \in 0..R : i = 0 \/ i \in 1..R
    BY <1>1
  <2>5. \A i \in 0..R : j # p[i]
    BY <1>1, <1>3, <2>4
  <2> QED
    BY <1>3, <2>3, <2>5
<1> QED
  BY <1>1, <1>2, <1>3

\* The entry of a body is reached from the ROUTE alone.
LEMMA LayoutEntry ==
    ASSUME NEW c, NEW resumed, NEW at, Flows(c, resumed, at), NEW p, NEW R, Layout(c, p, R),
           NEW r \in 1..R
    PROVE  at[p[r - 1] + 1] = {Computed(c, c.code[p[0]], ctx, resumed) : ctx \in at[p[0]]}
<1> DEFINE hole == p[0]
           ip == p[r - 1] + 1
           Ways == {j \in 1..(ip - 1) : ip \in Leads(c.code[j], j)}
           Way(j) == {Computed(c, c.code[j], ctx, resumed) : ctx \in at[j]}
<1>1. /\ R \in Nat /\ r - 1 \in 0..R /\ 0 \in 0..R /\ R \in 0..R /\ r - 1 < R
      /\ (r - 1 = 0 \/ 0 < r - 1)
  BY DEF Layout
<1>2. /\ hole \in Nat \ {0} /\ p[r - 1] \in Nat \ {0} /\ p[R] \in Nat \ {0}
      /\ hole <= p[r - 1] /\ p[r - 1] < p[R] /\ p[R] <= Len(c.code)
  BY <1>1 DEF Layout
<1>3. ip \in 2..(Len(c.code) + 1) /\ ip # 1 /\ ip - 1 = p[r - 1] /\ hole \in 1..(ip - 1)
      /\ hole < ip /\ ip < p[R] + 1
  BY <1>2 DEF Flows
<1>4. ip \in Leads(c.code[hole], hole)
  BY DEF Layout
<1>5. ASSUME NEW j \in 1..(ip - 1), ip \in Leads(c.code[j], j)
      PROVE  j = hole
  <2>1. j \in 1..p[R]
    BY <1>2, <1>3
  <2>2. CASE j < hole /\ \A q \in Leads(c.code[j], j) : q <= hole
    BY <1>2, <1>3, <1>5, <2>2
  <2>3. ASSUME NEW i \in 1..R, j = p[i] PROVE FALSE
    <3>1. Leads(c.code[j], j) = {p[R] + 1}
      BY <2>3 DEF Layout
    <3> QED
      BY <1>2, <1>3, <1>5, <3>1
  <2>4. CASE Leads(c.code[j], j) = {j + 1} /\ \A i \in 0..R : j # p[i]
    <3>1. j = p[r - 1]
      BY <1>2, <1>5, <2>4
    <3> QED
      BY <1>1, <2>4, <3>1
  <2> QED
    BY <2>1, <2>2, <2>3, <2>4, LayoutParts
<1>6. Ways = {hole}
  BY <1>3, <1>4, <1>5
<1>7. at[ip] = Coming(c, resumed, at, ip)
  BY <1>3 DEF Flows
<1>8. Coming(c, resumed, at, ip) = UNION {Way(j) : j \in Ways}
  BY <1>3, Zenon DEF Coming
<1> HIDE DEF Ways, Way, ip
<1>9. UNION {Way(j) : j \in {hole}} = Way(hole)
  OBVIOUS
<1>10. at[ip] = Way(hole)
  BY <1>6, <1>7, <1>8, <1>9
<1> QED
  BY <1>10 DEF ip, Way

LEMMA LayoutStraight ==
    ASSUME NEW c, NEW p, NEW R, Layout(c, p, R), NEW r \in 1..R
    PROVE  Straight(c, p[r - 1] + 1, p[r])
<1>1. /\ R \in Nat /\ r - 1 \in 0..R /\ r \in 0..R /\ 0 \in 0..R /\ R \in 0..R /\ r - 1 < r
      /\ (r = R \/ r < R) /\ (r - 1 = 0 \/ 0 < r - 1)
  BY DEF Layout
<1>2. /\ p[0] \in Nat /\ p[r - 1] \in Nat /\ p[r] \in Nat /\ p[R] \in Nat
      /\ p[0] <= p[r - 1] /\ p[r - 1] < p[r] /\ p[r] <= p[R]
  BY <1>1 DEF Layout
<1>3. ASSUME NEW i \in 0..R PROVE p[i] \in Nat /\ (p[i] <= p[r - 1] \/ p[r] <= p[i])
  <2>1. i < r - 1 \/ i = r - 1 \/ i = r \/ r < i
    BY <1>1
  <2> QED
    BY <1>1, <1>2, <2>1 DEF Layout
<1> SUFFICES ASSUME NEW ip \in ((p[r - 1] + 1) + 1)..p[r], NEW j \in 1..(ip - 1)
             PROVE  ip \in Leads(c.code[j], j) <=> j = ip - 1
  BY DEF Straight
<1>4. /\ ip \in Nat /\ p[r - 1] + 1 < ip /\ ip <= p[r] /\ j \in 1..p[R] /\ j < p[r] /\ j < ip
      /\ ip - 1 > p[r - 1] /\ j \in Nat
  BY <1>2
<1>5. CASE j < p[0] /\ \A q \in Leads(c.code[j], j) : q <= p[0]
  BY <1>2, <1>4, <1>5
<1>6. CASE j = p[0]
  <2>1. Leads(c.code[j], j) = {p[i - 1] + 1 : i \in 1..R}
    BY <1>6 DEF Layout
  <2>2. \A i \in 1..R : i - 1 \in 0..R
    BY <1>1
  <2>3. \A i \in 1..R : p[i - 1] + 1 # ip
    <3> TAKE i \in 1..R
    <3>1. p[i - 1] \in Nat /\ (p[i - 1] <= p[r - 1] \/ p[r] <= p[i - 1])
      BY <1>3, <2>2
    <3> QED
      BY <1>2, <1>4, <3>1
  <2>4. j # ip - 1
    BY <1>2, <1>4, <1>6
  <2> QED
    BY <2>1, <2>3, <2>4
<1>7. ASSUME NEW i \in 1..R, j = p[i]
      PROVE  ip \in Leads(c.code[j], j) <=> j = ip - 1
  <2>1. Leads(c.code[j], j) = {p[R] + 1}
    BY <1>7 DEF Layout
  <2>2. p[i] <= p[r - 1]
    <3>1. i \in 0..R
      BY <1>1
    <3> QED
      BY <1>2, <1>3, <1>4, <1>7, <3>1
  <2> QED
    BY <1>2, <1>4, <1>7, <2>1, <2>2
<1>8. CASE Leads(c.code[j], j) = {j + 1}
  BY <1>4, <1>8
<1> QED
  BY <1>4, <1>5, <1>6, <1>7, <1>8, LayoutParts

\* What follows the dict is reached from the jumps of its routes.
LEMMA LayoutExit ==
    ASSUME NEW c, NEW resumed, NEW at, Flows(c, resumed, at), NEW p, NEW R, Layout(c, p, R)
    PROVE  at[p[R] + 1] =
               UNION {{Computed(c, c.code[p[r]], ctx, resumed) : ctx \in at[p[r]]} : r \in 1..R}
<1> DEFINE ip == p[R] + 1
           Ways == {j \in 1..(ip - 1) : ip \in Leads(c.code[j], j)}
           Way(j) == {Computed(c, c.code[j], ctx, resumed) : ctx \in at[j]}
<1>1. R \in Nat /\ R \in 0..R /\ 0 \in 0..R /\ \A i \in 1..R : i \in 0..R /\ 0 < i /\ i - 1 \in 0..R
      /\ i - 1 < R /\ (i < R \/ i = R)
  BY DEF Layout
<1>2. p[R] \in Nat \ {0} /\ p[0] \in Nat /\ p[R] <= Len(c.code) /\ p[0] <= p[R]
  BY <1>1 DEF Layout
<1>3. ip \in 2..(Len(c.code) + 1) /\ ip # 1 /\ ip - 1 = p[R] /\ p[0] < ip
  BY <1>2 DEF Flows
<1>4. ASSUME NEW r \in 1..R PROVE p[r] \in Ways
  <2>1. p[r] \in 1..(ip - 1)
    BY <1>1, <1>3 DEF Layout
  <2>2. Leads(c.code[p[r]], p[r]) = {ip}
    BY DEF Layout
  <2> QED
    BY <2>1, <2>2
<1>5. ASSUME NEW j \in Ways PROVE j \in {p[r] : r \in 1..R}
  <2>1. j \in 1..p[R] /\ ip \in Leads(c.code[j], j)
    BY <1>3
  <2>2. CASE j < p[0] /\ \A q \in Leads(c.code[j], j) : q <= p[0]
    BY <1>2, <1>3, <2>1, <2>2
  <2>3. CASE j = p[0]
    <3>1. Leads(c.code[j], j) = {p[i - 1] + 1 : i \in 1..R}
      BY <2>3 DEF Layout
    <3>2. PICK i \in 1..R : ip = p[i - 1] + 1
      BY <2>1, <3>1
    <3>3. p[i - 1] < p[R] /\ p[i - 1] \in Nat
      BY <1>1 DEF Layout
    <3> QED
      BY <1>2, <3>2, <3>3
  <2>4. CASE Leads(c.code[j], j) = {j + 1} /\ \A i \in 0..R : j # p[i]
    <3>1. j = p[R]
      BY <1>2, <2>1, <2>4
    <3> QED
      BY <1>1, <2>4, <3>1
  <2> HIDE DEF Ways, ip
  <2> QED
    BY <2>1, <2>2, <2>3, <2>4, LayoutParts
<1>6. at[ip] = Coming(c, resumed, at, ip)
  BY <1>3 DEF Flows
<1>7. Coming(c, resumed, at, ip) = UNION {Way(j) : j \in Ways}
  BY <1>3, Zenon DEF Coming
<1> HIDE DEF Ways, ip
<1>8. Ways = {p[r] : r \in 1..R}
  BY <1>4, <1>5
<1> HIDE DEF Way
<1>9. UNION {Way(j) : j \in {p[r] : r \in 1..R}} = UNION {Way(p[r]) : r \in 1..R}
  OBVIOUS
<1>10. at[ip] = UNION {Way(p[r]) : r \in 1..R}
  BY <1>6, <1>7, <1>8, <1>9
<1> QED
  BY <1>10 DEF ip, Way

\* One route more: its body, and the jump out of it.
Lays(acc, route, body, flag, end, new) ==
    /\ Shaped(acc.st) /\ acc.st.err = NoError
    /\ body \in Seq(Nodes) /\ flag \in BOOLEAN /\ end = CompileBody(body, flag, acc.st)
    /\ new = AddRoute(acc, route, end) /\ new.st.err = NoError

LEMMA LayStep ==
    ASSUME RepeatsAreDeclared, NEW acc, NEW route, NEW body, NEW flag, NEW end, NEW new,
           Lays(acc, route, body, flag, end, new)
    PROVE  /\ Shaped(end) /\ end.err = NoError /\ StepsOn(acc.st, end) /\ Extends(acc.st, end)
           /\ Shaped(new.st) /\ Extends(end, new.st) /\ Extends(acc.st, new.st)
           /\ Len(new.st.code) = Len(end.code) + 1 /\ Len(acc.st.code) < Len(new.st.code)
           /\ new.jumps = acc.jumps \cup {Len(new.st.code)}
           /\ DOMAIN new.starts = {route} \cup DOMAIN acc.starts
           /\ new.starts[route] = Len(acc.st.code) + 1
           /\ \A r \in DOMAIN acc.starts : r # route => new.starts[r] = acc.starts[r]
<1> DEFINE t == <<Jump(0)>>
           res == Emitted(end, t)
           starts == [r \in {route} \cup DOMAIN acc.starts |->
                         IF r = route THEN Len(acc.st.code) + 1 ELSE acc.starts[r]]
           jumps == acc.jumps \cup {Len(end.code) + 1}
<1>14. /\ Shaped(acc.st) /\ acc.st.err = NoError
       /\ body \in Seq(Nodes) /\ flag \in BOOLEAN /\ end = CompileBody(body, flag, acc.st)
       /\ new = AddRoute(acc, route, end) /\ new.st.err = NoError
  BY DEF Lays
<1>1. new = [st |-> res, starts |-> starts, jumps |-> jumps]
  BY <1>14, Zenon DEF AddRoute
<1>2. new.st = res /\ new.starts = starts /\ new.jumps = jumps
  BY <1>1
<1>3. Shaped(end)
  <2>1. Sound(acc.st, Nat)
    BY <1>14, ShapedIsSound
  <2>2. Sound(CompileBody(body, flag, acc.st), Nat)
    BY <1>14, <2>1, BodySound
  <2> QED
    BY <1>14, <2>2 DEF Sound
<1>4. IsSeq(t) /\ Len(t) = 1
  BY TuplesAre
<1> HIDE DEF t
<1>5. Shaped(res) /\ res.err = end.err /\ res.table = end.table /\ res.code = end.code \o t
  BY <1>3, <1>4, EmittedIs
<1> HIDE DEF res
<1>6. end.err = NoError
  BY <1>2, <1>5, <1>14
<1>7. StepsOn(acc.st, end) /\ Extends(acc.st, end)
  BY <1>6, <1>14, RouteBodySteps
<1>8. /\ Len(acc.st.code) \in Nat /\ Len(end.code) \in Nat /\ Len(res.code) \in Nat
      /\ IsSeq(end.code)
  BY <1>3, <1>5, <1>14, SeqIs DEF Shaped
<1>9. Len(res.code) = Len(end.code) + 1 /\ \A ip \in 1..Len(end.code) : res.code[ip] = end.code[ip]
  <2> DEFINE s == end.code
  <2>1. IsSeq(s)
    BY <1>8
  <2> HIDE DEF s
  <2>3. Len(s \o t) = Len(s) + Len(t)
    BY <1>4, <2>1, ConcatIs
  <2>4. \A ip \in 1..Len(s) : (s \o t)[ip] = s[ip]
    BY <1>4, <2>1, ConcatIs
  <2>2. Len(s \o t) = Len(s) + 1 /\ \A ip \in 1..Len(s) : (s \o t)[ip] = s[ip]
    BY <1>4, <2>3, <2>4
  <2> QED
    BY <1>5, <2>2 DEF s
<1>10. Extends(end, res)
  BY <1>5, <1>8, <1>9 DEF Extends
<1>11. Extends(acc.st, res)
  BY <1>7, <1>8, <1>10, ExtendsTransitive
<1>12. Len(acc.st.code) < Len(res.code)
  BY <1>7, <1>8, <1>9 DEF Extends
<1>13. /\ DOMAIN starts = {route} \cup DOMAIN acc.starts
       /\ starts[route] = Len(acc.st.code) + 1
       /\ \A r \in DOMAIN acc.starts : r # route => starts[r] = acc.starts[r]
  OBVIOUS
<1> HIDE DEF starts
<1> QED
  BY <1>2, <1>3, <1>5, <1>6, <1>7, <1>9, <1>10, <1>11, <1>12, <1>13

\* The first k routes are laid out; p[i] is where the code of route i ends.
Laid(h, p, entry, routes, k) ==
    /\ Shaped(h[k].st) /\ h[k].st.err = NoError
    /\ Extends(entry, h[k].st) /\ p[0] = Len(entry.code) + 1
    /\ \A i \in 0..k : /\ p[i] \in Nat /\ p[i] = Len(h[i].st.code)
                       /\ Extends(h[i].st, h[k].st)
                       /\ i < k => p[i] < p[k]
                       /\ h[i].st.err = NoError /\ Shaped(h[i].st)
    /\ \A i, j \in 0..k : i < j => p[i] < p[j]
    /\ h[k].jumps = {p[i] : i \in 1..k}
    /\ DOMAIN h[k].starts = {routes[i].route : i \in 1..k}
    /\ \A i \in 1..k : h[k].starts[routes[i].route] = p[i - 1] + 1
    /\ \A ip \in (p[0] + 1)..p[k] :
           ip \in h[k].jumps \/ h[k].st.code[ip].op \notin {"jump", "route"}

\* Round k + 1 of the loop over the routes.
LayRound(h, routes, flag, k) ==
    /\ routes[k + 1].body \in Seq(Nodes)
    /\ h[k + 1] = AddRoute(h[k], routes[k + 1].route,
                           CompileBody(routes[k + 1].body, flag, h[k].st))

LEMMA LaidGrows ==
    ASSUME RepeatsAreDeclared, NEW h, NEW p, NEW entry, Len(entry.code) \in Nat, NEW routes,
           NEW k \in Nat, Laid(h, p, entry, routes, k), NEW flag \in BOOLEAN,
           LayRound(h, routes, flag, k), h[k + 1].st.err = NoError,
           p[k + 1] = Len(h[k + 1].st.code),
           \A i, j \in 1..(k + 1) : routes[i].route = routes[j].route => i = j
    PROVE  Laid(h, p, entry, routes, k + 1)
<1> DEFINE acc == h[k]
           new == h[k + 1]
           route == routes[k + 1].route
           end == CompileBody(routes[k + 1].body, flag, acc.st)
<1>1. /\ Shaped(acc.st) /\ acc.st.err = NoError /\ Extends(entry, acc.st)
      /\ acc.jumps = {p[i] : i \in 1..k} /\ DOMAIN acc.starts = {routes[i].route : i \in 1..k}
      /\ p[k] = Len(acc.st.code) /\ p[k] \in Nat
  BY DEF Laid
<1>2. routes[k + 1].body \in Seq(Nodes) /\ new = AddRoute(acc, route, end)
  BY DEF LayRound
<1>3. /\ Shaped(end) /\ end.err = NoError /\ StepsOn(acc.st, end) /\ Extends(acc.st, end)
      /\ Shaped(new.st) /\ Extends(end, new.st) /\ Extends(acc.st, new.st)
      /\ Len(new.st.code) = Len(end.code) + 1 /\ Len(acc.st.code) < Len(new.st.code)
      /\ new.jumps = acc.jumps \cup {Len(new.st.code)}
      /\ DOMAIN new.starts = {route} \cup DOMAIN acc.starts
      /\ new.starts[route] = Len(acc.st.code) + 1
      /\ \A r \in DOMAIN acc.starts : r # route => new.starts[r] = acc.starts[r]
  <2> DEFINE body == routes[k + 1].body
  <2>1. Lays(acc, route, body, flag, end, new)
    BY <1>1, <1>2, Zenon DEF Lays
  <2> HIDE DEF body, end, new, acc, route
  <2> QED
    BY <2>1, LayStep
<1>4. new.st.err = NoError /\ p[k + 1] = Len(new.st.code)
  OBVIOUS
<1> HIDE DEF end
<1>5. /\ Len(acc.st.code) \in Nat /\ Len(end.code) \in Nat /\ Len(new.st.code) \in Nat
  BY <1>1, <1>3, SeqIs DEF Shaped
<1>15. /\ p[k] \in Nat /\ p[k + 1] \in Nat /\ p[k] < p[k + 1] /\ Len(end.code) \in Nat
       /\ p[k] = Len(acc.st.code) /\ p[k + 1] = Len(end.code) + 1
  BY <1>1, <1>3, <1>4, <1>5
<1>6. Extends(entry, new.st)
  BY <1>1, <1>3, <1>5, ExtendsTransitive
<1>7. \A i \in 0..(k + 1) : i \in 0..k \/ i = k + 1
  OBVIOUS
<1>8. \A i \in 1..(k + 1) : i \in 1..k \/ i = k + 1
  OBVIOUS
<1>9. ASSUME NEW i \in 0..(k + 1)
      PROVE  /\ p[i] \in Nat /\ p[i] = Len(h[i].st.code)
             /\ Extends(h[i].st, new.st)
             /\ i < k + 1 => p[i] < p[k + 1]
             /\ h[i].st.err = NoError /\ Shaped(h[i].st)
  <2>1. CASE i = k + 1
    BY <1>3, <1>4, <1>5, <2>1, ExtendsItself
  <2>2. CASE i \in 0..k
    <3>1. /\ p[i] \in Nat /\ p[i] = Len(h[i].st.code) /\ Extends(h[i].st, acc.st)
          /\ i < k => p[i] < p[k]
          /\ h[i].st.err = NoError /\ Shaped(h[i].st)
      BY <2>2 DEF Laid
    <3>2. Extends(h[i].st, new.st)
      <4> DEFINE s == h[i].st
      <4>1. Extends(s, acc.st) /\ Len(s.code) \in Nat
        BY <3>1
      <4> HIDE DEF s, acc, new
      <4>2. Extends(s, new.st)
        BY <1>3, <1>5, <4>1, ExtendsTransitive
      <4> QED
        BY <4>2 DEF s
    <3>3. i < k \/ i = k
      BY <2>2
    <3>4. p[i] \in Nat /\ (i < k => p[i] < p[k])
      BY <3>1
    <3>5. p[i] < p[k + 1]
      BY <1>15, <3>3, <3>4
    <3> QED
      BY <3>1, <3>2, <3>5
  <2> QED
    BY <1>7, <2>1, <2>2
<1>16. ASSUME NEW i \in 0..(k + 1), NEW j \in 0..(k + 1), i < j
       PROVE  p[i] < p[j]
  <2>1. CASE j = k + 1
    BY <1>9, <1>16, <2>1
  <2>2. CASE j \in 0..k
    <3>1. i \in 0..k
      BY <1>16, <2>2
    <3> QED
      BY <1>16, <2>2, <3>1 DEF Laid
  <2> QED
    BY <1>7, <2>1, <2>2
<1>10. new.jumps = {p[i] : i \in 1..(k + 1)}
  BY <1>1, <1>3, <1>4, <1>8
<1>11. DOMAIN new.starts = {routes[i].route : i \in 1..(k + 1)}
  BY <1>1, <1>3, <1>8
<1>12. ASSUME NEW i \in 1..(k + 1)
       PROVE  new.starts[routes[i].route] = p[i - 1] + 1
  <2>1. CASE i = k + 1
    <3>1. i - 1 = k
      BY <2>1
    <3> QED
      BY <1>1, <1>3, <2>1, <3>1
  <2>2. CASE i \in 1..k
    <3>1. routes[i].route \in DOMAIN acc.starts /\ acc.starts[routes[i].route] = p[i - 1] + 1
      BY <1>1, <2>2 DEF Laid
    <3>2. k + 1 \in 1..(k + 1) /\ i # k + 1
      BY <2>2
    <3>3. routes[i].route # route
      BY <3>2
    <3> HIDE DEF acc, new, route
    <3> QED
      BY <1>3, <3>1, <3>3
  <2> QED
    BY <1>8, <2>1, <2>2
<1>13. ASSUME NEW ip \in (p[0] + 1)..p[k + 1], ip \notin new.jumps
       PROVE  new.st.code[ip].op \notin {"jump", "route"}
  <2>1. p[0] \in Nat /\ p[0] <= p[k]
    <3>1. 0 \in 0..k /\ (0 < k \/ 0 = k)
      OBVIOUS
    <3>2. p[0] \in Nat /\ (0 < k => p[0] < p[k])
      BY <3>1 DEF Laid
    <3> QED
      BY <1>15, <3>1, <3>2
  <2>2. ip # p[k + 1] /\ ip \notin acc.jumps
    BY <1>3, <1>4, <1>13
  <2>3. CASE ip <= p[k]
    <3>1. ip \in (p[0] + 1)..p[k] /\ ip \in 1..Len(acc.st.code)
      BY <1>1, <2>1, <2>3
    <3>2. acc.st.code[ip].op \notin {"jump", "route"}
      BY <2>2, <3>1 DEF Laid
    <3> QED
      BY <1>3, <3>1, <3>2 DEF Extends
  <2>4. CASE ~(ip <= p[k])
    <3>1. ip \in (Len(acc.st.code) + 1)..Len(end.code) /\ ip \in 1..Len(end.code)
      <4> DEFINE a == Len(acc.st.code)
                 b == Len(end.code)
      <4>1. p[k] = a /\ p[k + 1] = b + 1 /\ a \in Nat /\ b \in Nat
        BY <1>15
      <4> HIDE DEF a, b
      <4>2. ip \in (a + 1)..b /\ ip \in 1..b
        BY <2>1, <2>2, <2>4, <4>1
      <4> QED
        BY <4>2 DEF a, b
    <3>2. end.code[ip].op \notin {"jump", "route"} /\ new.st.code[ip] = end.code[ip]
      BY <1>3, <3>1 DEF StepsOn, Extends
    <3> QED
      BY <3>2
  <2> QED
    BY <2>3, <2>4
<1>14. p[0] = Len(entry.code) + 1
  BY DEF Laid
<1> HIDE DEF acc, route
<1> QED
  BY <1>3, <1>4, <1>6, <1>9, <1>10, <1>11, <1>12, <1>13, <1>14, <1>16 DEF Laid, new

LEMMA RoutesLaid ==
    ASSUME RepeatsAreDeclared, NEW entry, Shaped(entry), entry.err = NoError,
           NEW dict \in Nodes, dict.kind = "dict", NEW flag \in BOOLEAN,
           CompileRoutes(dict, flag, entry).st.err = NoError
    PROVE  \E h, p : /\ CompileRoutes(dict, flag, entry) = h[Len(dict.routes)]
                     /\ Laid(h, p, entry, dict.routes, Len(dict.routes))
                     /\ \A k \in 0..(Len(dict.routes) - 1) : LayRound(h, dict.routes, flag, k)
<1> DEFINE routes == dict.routes
           n == Len(routes)
           first == Emitted(entry, <<Route(<<>>)>>)
           base == [st |-> first, starts |-> <<>>, jumps |-> {}]
           all == CompileRoutes(dict, flag, entry)
<1>1. /\ n \in Nat /\ DOMAIN routes = 1..n /\ \A k \in 1..n : routes[k].body \in Seq(Nodes)
      /\ \A i, j \in 1..n : routes[i].route = routes[j].route => i = j
  BY RoutesAre
<1>2. all = RouteLoop(flag, base, routes)
  BY Zenon DEF CompileRoutes, RouteLoop
<1>3. all.st.err = NoError
  OBVIOUS
<1>4. /\ base.st = first /\ base.starts = <<>> /\ base.jumps = {} /\ DOMAIN <<>> = {}
  OBVIOUS
<1>5. /\ Shaped(first) /\ Extends(entry, first) /\ Len(first.code) = Len(entry.code) + 1
      /\ Len(entry.code) \in Nat /\ first.err = NoError
  <2> DEFINE t == <<Route(<<>>)>>
             s == entry.code
  <2>1. IsSeq(t) /\ Len(t) = 1
    BY TuplesAre
  <2>2. IsSeq(s) /\ Len(s) \in Nat
    BY SeqIs DEF Shaped
  <2> HIDE DEF t
  <2>3. /\ Shaped(Emitted(entry, t)) /\ Emitted(entry, t).err = entry.err
        /\ Emitted(entry, t).table = entry.table /\ Emitted(entry, t).code = s \o t
    BY <2>1, EmittedIs
  <2> HIDE DEF s
  <2>4. Len(s \o t) = Len(s) + Len(t)
    BY <2>1, <2>2, ConcatIs
  <2>5. \A ip \in 1..Len(s) : (s \o t)[ip] = s[ip]
    BY <2>1, <2>2, ConcatIs
  <2>6. Extends(entry, Emitted(entry, t))
    BY <2>1, <2>2, <2>3, <2>4, <2>5 DEF Extends, s
  <2> QED
    BY <2>1, <2>2, <2>3, <2>4, <2>6 DEF s, t
<1> HIDE DEF routes, n, first, base, all
<1>6. PICK h : Rounds(h, "routes", flag, base, routes, n) /\ RouteLoop(flag, base, routes) = h[n]
  BY <1>1, RouteRounds
<1>7. h[0] = base
  BY <1>6 DEF Rounds
<1>8. ASSUME NEW k \in 0..(n - 1)
      PROVE  /\ h[k].st.err # NoError => h[k + 1] = h[k]
             /\ h[k].st.err = NoError => LayRound(h, routes, flag, k)
  <2>1. k + 1 \in 1..n /\ (k + 1) - 1 = k
    BY <1>1
  <2>2. h[k + 1] = Round("routes", flag, h[k], routes[k + 1])
    BY <1>6, <2>1 DEF Rounds
  <2>3. h[k + 1] = IF h[k].st.err # NoError THEN h[k]
                   ELSE AddRoute(h[k], routes[k + 1].route,
                                 CompileBody(routes[k + 1].body, flag, h[k].st))
    BY <2>2, Zenon DEF Round
  <2>4. routes[k + 1].body \in Seq(Nodes)
    BY <1>1, <2>1
  <2> QED
    BY <2>3, <2>4, Zenon DEF LayRound
<1> DEFINE p == [k \in 0..n |-> Len(h[k].st.code)]
           S == {k \in 0..n : h[k].st.err = NoError => Laid(h, p, entry, routes, k)}
<1>9. \A k \in 0..n : p[k] = Len(h[k].st.code)
  OBVIOUS
<1> HIDE DEF p
<1>10. 0 \in S
  <2>1. 0 \in 0..n /\ 1..0 = {} /\ \A i \in 0..0 : i = 0
    BY <1>1
  <2>2. p[0] = Len(entry.code) + 1 /\ p[0] \in Nat /\ p[0] = Len(h[0].st.code)
    BY <1>4, <1>5, <1>7, <1>9, <2>1
  <2>3. (p[0] + 1)..p[0] = {}
    BY <2>2
  <2>4. /\ Shaped(h[0].st) /\ h[0].st.err = NoError /\ Extends(entry, h[0].st)
        /\ h[0].jumps = {} /\ DOMAIN h[0].starts = {}
    BY <1>4, <1>5, <1>7
  <2>5. Extends(h[0].st, h[0].st)
    BY ExtendsItself
  <2>6. Laid(h, p, entry, routes, 0)
    BY <2>1, <2>2, <2>3, <2>4, <2>5 DEF Laid
  <2> QED
    BY <2>1, <2>6
<1>11. ASSUME NEW k \in 0..(n - 1), k \in S PROVE k + 1 \in S
  <2>1. k + 1 \in 0..n /\ k \in Nat /\ \A i \in 1..(k + 1) : i \in 1..n
    BY <1>1
  <2>2. ASSUME h[k + 1].st.err = NoError PROVE Laid(h, p, entry, routes, k + 1)
    <3>1. h[k].st.err = NoError
      BY <1>8, <2>2
    <3>2. Laid(h, p, entry, routes, k) /\ LayRound(h, routes, flag, k)
      BY <1>8, <1>11, <3>1
    <3>3. p[k + 1] = Len(h[k + 1].st.code)
      BY <1>9, <2>1
    <3>4. \A i, j \in 1..(k + 1) : routes[i].route = routes[j].route => i = j
      BY <1>1, <2>1
    <3> QED
      BY <1>5, <2>1, <2>2, <3>2, <3>3, <3>4, LaidGrows
  <2> QED
    BY <2>1, <2>2
<1> HIDE DEF S
<1>12. n \in S
  BY <1>1, <1>10, <1>11, UpTo
<1>13. Laid(h, p, entry, routes, n)
  BY <1>2, <1>3, <1>6, <1>12 DEF S
<1>14. \A k \in 0..(n - 1) : LayRound(h, routes, flag, k)
  <2> TAKE k \in 0..(n - 1)
  <2>1. k \in 0..n
    BY <1>1
  <2>2. h[k].st.err = NoError
    BY <1>13, <2>1 DEF Laid
  <2> QED
    BY <1>8, <2>2
<1> QED
  BY <1>2, <1>6, <1>13, <1>14 DEF routes, n, all
\* The ROUTE of a dict and its bodies, patched.
LEMMA DictIs ==
    ASSUME NEW dict, NEW flag, NEW entry
    PROVE  LET all == CompileRoutes(dict, flag, entry)
           IN  DictCode(dict, flag, entry) =
                   IF all.st.err = NoError
                   THEN PatchRoutes(all.st, Len(entry.code) + 1, all.starts, all.jumps)
                   ELSE all.st
BY Zenon DEF DictCode, EmitRoutes, Then

\* Patched is code whose routes were laid out.
Patched(h, p, R, new) ==
    LET st == h[R].st
    IN  /\ Shaped(new) /\ new.err = st.err /\ new.table = st.table
        /\ Len(new.code) = p[R]
        /\ \A i \in 1..p[R] :
               new.code[i] = IF i = p[0] THEN Route(h[R].starts)
                             ELSE IF i \in {p[r] : r \in 1..R} THEN Jump(p[R] + 1)
                             ELSE st.code[i]

LEMMA LaidIsPatched ==
    ASSUME NEW entry, NEW R \in Nat, NEW h, NEW p, NEW routes, Laid(h, p, entry, routes, R)
    PROVE  Patched(h, p, R, PatchRoutes(h[R].st, p[0], h[R].starts, h[R].jumps))
<1> DEFINE st == h[R].st
           starts == h[R].starts
           jumps == h[R].jumps
           hole == p[0]
           new == PatchRoutes(st, hole, starts, jumps)
<1>1. /\ Shaped(st) /\ p[R] = Len(st.code) /\ jumps = {p[r] : r \in 1..R}
  <2>1. R \in 0..R
    OBVIOUS
  <2> QED
    BY <2>1 DEF Laid
<1> HIDE DEF st, starts, jumps, hole
<1>2. /\ Shaped(new) /\ new.err = st.err /\ new.table = st.table
      /\ Len(new.code) = Len(st.code)
      /\ \A i \in 1..Len(st.code) :
             new.code[i] = IF i = hole THEN Route(starts)
                           ELSE IF i \in jumps THEN Jump(Len(st.code) + 1)
                           ELSE st.code[i]
  BY <1>1, PatchIs
<1> HIDE DEF new
<1>3. Patched(h, p, R, new)
  <2>1. \A i \in 1..p[R] :
            new.code[i] = IF i = hole THEN Route(starts)
                          ELSE IF i \in {p[r] : r \in 1..R} THEN Jump(p[R] + 1)
                          ELSE st.code[i]
    BY <1>1, <1>2
  <2>2. /\ Shaped(new) /\ new.err = st.err /\ new.table = st.table /\ Len(new.code) = p[R]
    BY <1>1, <1>2
  <2> QED
    BY <2>1, <2>2, Zenon DEF Patched, st, starts, hole
<1> QED
  BY <1>3 DEF new, st, starts, jumps, hole

\* Where the parts of the dict end.
LEMMA LaidBounds ==
    ASSUME NEW entry, Len(entry.code) \in Nat, NEW R \in Nat, NEW h, NEW p, NEW routes,
           Laid(h, p, entry, routes, R)
    PROVE  /\ p[0] = Len(entry.code) + 1
           /\ \A i \in 0..R : p[i] \in Nat \ {0} /\ p[0] <= p[i] /\ p[i] <= p[R]
           /\ \A i, j \in 0..R : i < j => p[i] < p[j]
<1>1. /\ p[0] = Len(entry.code) + 1
      /\ \A i \in 0..R : p[i] \in Nat
      /\ \A i, j \in 0..R : i < j => p[i] < p[j]
  BY DEF Laid
<1>2. ASSUME NEW i \in 0..R
      PROVE  p[i] \in Nat \ {0} /\ p[0] <= p[i] /\ p[i] <= p[R]
  <2>1. 0 \in 0..R /\ R \in 0..R /\ (i < R \/ i = R) /\ (i = 0 \/ 0 < i)
    OBVIOUS
  <2>2. p[i] \in Nat /\ p[0] \in Nat /\ p[R] \in Nat /\ p[0] # 0
    BY <1>1, <2>1
  <2>3. (i < R => p[i] < p[R]) /\ (0 < i => p[0] < p[i])
    BY <1>1, <2>1
  <2> QED
    BY <2>1, <2>2, <2>3
<1> QED
  BY <1>1, <1>2

LEMMA PatchedLayout ==
    ASSUME NEW entry, Sound(entry, {}), entry.err = NoError,
           NEW R \in Nat, NEW h, NEW p, NEW routes, Laid(h, p, entry, routes, R),
           NEW new, Patched(h, p, R, new), NEW c, Len(c.code) \in Nat, Extends(new, c)
    PROVE  Layout(c, p, R)
<1> DEFINE st == h[R].st
           starts == h[R].starts
           Jumps == {p[r] : r \in 1..R}
<1>1. /\ Extends(entry, st) /\ DOMAIN starts = {routes[i].route : i \in 1..R}
      /\ \A i \in 1..R : starts[routes[i].route] = p[i - 1] + 1
      /\ \A ip \in (p[0] + 1)..p[R] : ip \in Jumps \/ st.code[ip].op \notin {"jump", "route"}
  BY DEF Laid
<1>2. Len(entry.code) \in Nat
  BY SoundLen
<1>3. /\ p[0] = Len(entry.code) + 1
      /\ \A i \in 0..R : p[i] \in Nat \ {0} /\ p[0] <= p[i] /\ p[i] <= p[R]
      /\ \A i, j \in 0..R : i < j => p[i] < p[j]
  BY <1>2, LaidBounds
<1>4. /\ 0 \in 0..R /\ R \in 0..R /\ \A i \in 1..R : i \in 0..R /\ 0 < i
  OBVIOUS
<1>5. p[0] \in Nat \ {0} /\ p[R] \in Nat \ {0} /\ p[0] <= p[R]
  BY <1>3, <1>4
<1>6. /\ Len(new.code) = p[R]
      /\ \A i \in 1..p[R] :
             new.code[i] = IF i = p[0] THEN Route(starts)
                           ELSE IF i \in Jumps THEN Jump(p[R] + 1) ELSE st.code[i]
  BY Zenon DEF Patched
<1>7. p[R] <= Len(c.code) /\ \A i \in 1..p[R] : c.code[i] = new.code[i]
  BY <1>6 DEF Extends
<1>8. \A r \in 1..R : p[r] \in 1..p[R] /\ p[r] # p[0]
  BY <1>3, <1>4
<1>9. \A j \in Jumps : p[0] < j
  BY <1>3, <1>4
<1>10. p[0] \in 1..p[R]
  BY <1>5
<1>11. c.code[p[0]] = Route(starts)
  BY <1>6, <1>7, <1>10
<1>12. ASSUME NEW r \in 1..R PROVE c.code[p[r]] = Jump(p[R] + 1)
  <2>1. p[r] \in Jumps
    OBVIOUS
  <2> HIDE DEF Jumps
  <2> QED
    BY <1>6, <1>7, <1>8, <2>1
<1>13. ASSUME NEW j \in 1..p[R], j # p[0], j \notin Jumps PROVE c.code[j] = st.code[j]
  BY <1>6, <1>7, <1>13
<1> HIDE DEF Jumps
<1>14. ASSUME NEW j \in 1..(p[0] - 1), NEW ip \in Leads(c.code[j], j) PROVE ip <= p[0]
  <2>1. j \in 1..p[R] /\ j # p[0] /\ j < p[0] /\ j \in Nat
    BY <1>5
  <2>2. j \notin Jumps
    BY <1>5, <1>9, <2>1
  <2>3. j \in 1..Len(entry.code)
    BY <1>2, <1>3
  <2>4. c.code[j] = entry.code[j]
    BY <1>1, <1>13, <2>1, <2>2, <2>3 DEF Extends
  <2>5. ip \in (j + 1)..(Len(entry.code) + 1)
    BY <2>3, <2>4, SoundLeads
  <2> QED
    BY <1>2, <1>3, <2>5
<1>15. Leads(c.code[p[0]], p[0]) = {p[i - 1] + 1 : i \in 1..R}
  <2>1. Leads(Route(starts), p[0]) = {starts[r] : r \in DOMAIN starts}
    BY DEF Leads, Route, Range
  <2> HIDE DEF starts
  <2>2. \A i \in 1..R : routes[i].route \in DOMAIN starts
    BY <1>1
  <2>3. \A r \in DOMAIN starts : \E i \in 1..R : r = routes[i].route
    BY <1>1
  <2>4. \A r \in DOMAIN starts : \E i \in 1..R : starts[r] = p[i - 1] + 1
    <3> TAKE r \in DOMAIN starts
    <3>1. PICK i \in 1..R : r = routes[i].route
      BY <2>3
    <3>2. starts[r] = p[i - 1] + 1
      BY <1>1, <3>1
    <3> QED
      BY <3>2
  <2>5. {starts[r] : r \in DOMAIN starts} = {p[i - 1] + 1 : i \in 1..R}
    <3> DEFINE D == DOMAIN starts
    <3>1. /\ \A r \in D : \E i \in 1..R : starts[r] = p[i - 1] + 1
          /\ \A i \in 1..R : routes[i].route \in D /\ starts[routes[i].route] = p[i - 1] + 1
      BY <1>1, <2>2, <2>4
    <3> HIDE DEF D
    <3>2. ASSUME NEW x \in {starts[r] : r \in D} PROVE x \in {p[i - 1] + 1 : i \in 1..R}
      BY <3>1
    <3>3. ASSUME NEW x \in {p[i - 1] + 1 : i \in 1..R} PROVE x \in {starts[r] : r \in D}
      <4>1. PICK i \in 1..R : x = p[i - 1] + 1
        OBVIOUS
      <4>2. routes[i].route \in D /\ x = starts[routes[i].route]
        BY <3>1, <4>1
      <4> QED
        BY <4>2
    <3> QED
      BY <3>2, <3>3 DEF D
  <2> QED
    BY <1>11, <2>1, <2>5
<1>16. ASSUME NEW r \in 1..R PROVE Leads(c.code[p[r]], p[r]) = {p[R] + 1}
  BY <1>12 DEF Leads, Jump
<1>17. ASSUME NEW j \in (p[0] + 1)..p[R], j \notin Jumps
       PROVE  c.code[j].op \notin {"jump", "route"}
  <2>1. j \in 1..p[R] /\ j # p[0]
    BY <1>5
  <2>2. c.code[j] = st.code[j]
    BY <1>13, <1>17, <2>1
  <2> QED
    BY <1>1, <1>17, <2>2
<1>18. ASSUME NEW i \in 0..R PROVE Quiet(c.code[p[i]])
  <2>1. i = 0 \/ i \in 1..R
    OBVIOUS
  <2> HIDE DEF starts
  <2> QED
    BY <1>11, <1>12, <2>1 DEF Quiet, Route, Jump
<1> QED
  BY <1>3, <1>4, <1>7, <1>14, <1>15, <1>16, <1>17, <1>18 DEF Layout, Jumps

\* Contexts of several ways together.
AllMeet(D, X, Y) == \A r \in D : Meets(X[r], Y[r])

AllOf(D, X) == UNION {X[r] : r \in D}

LEMMA MeetsUnion ==
    ASSUME NEW D, NEW X, NEW Y, AllMeet(D, X, Y)
    PROVE  Meets(AllOf(D, X), AllOf(D, Y))
<1> DEFINE ctxs == UNION {X[r] : r \in D}
<1>1. \A r \in D : (\A ctx \in X[r] : ContextOK(ctx)) /\ Y[r] = {Outcome(ctx) : ctx \in X[r]}
  BY DEF Meets, AllMeet
<1>2. \A ctx \in ctxs : ContextOK(ctx)
  BY <1>1
<1>3. UNION {Y[r] : r \in D} = {Outcome(ctx) : ctx \in ctxs}
  <2>1. ASSUME NEW y \in UNION {Y[r] : r \in D} PROVE y \in {Outcome(ctx) : ctx \in ctxs}
    <3>1. PICK r \in D : y \in Y[r]
      OBVIOUS
    <3>2. PICK ctx \in X[r] : y = Outcome(ctx)
      BY <1>1, <3>1
    <3> QED
      BY <3>2
  <2>2. ASSUME NEW y \in {Outcome(ctx) : ctx \in ctxs} PROVE y \in UNION {Y[r] : r \in D}
    <3>1. PICK ctx \in ctxs : y = Outcome(ctx)
      OBVIOUS
    <3>2. PICK r \in D : ctx \in X[r]
      OBVIOUS
    <3>3. y \in Y[r]
      BY <1>1, <3>1, <3>2
    <3> QED
      BY <3>3
  <2> QED
    BY <2>1, <2>2
<1> QED
  BY <1>2, <1>3 DEF Meets, AllOf

\* What leaves the instruction at ip, and the last instructions of the routes.
Leaving(c, resumed, at, ip) == {Computed(c, c.code[ip], ctx, resumed) : ctx \in at[ip]}

LeavingRoutes(c, resumed, at, p, R) == UNION {Leaving(c, resumed, at, p[r]) : r \in 1..R}

LEMMA ExitMeets ==
    ASSUME NEW c, NEW resumed, NEW at, Flows(c, resumed, at), NEW p, NEW R, Layout(c, p, R)
    PROVE  at[p[R] + 1] = LeavingRoutes(c, resumed, at, p, R)
<1>1. at[p[R] + 1] =
          UNION {{Computed(c, c.code[p[r]], ctx, resumed) : ctx \in at[p[r]]} : r \in 1..R}
  BY LayoutExit
<1> QED
  BY <1>1, Zenon DEF LeavingRoutes, Leaving

\* A route of the dict: st is the code in front of its body, end the code with it.
RouteOf(h, p, routes, flag, r, st, end) ==
    /\ Shaped(st) /\ st.err = NoError /\ routes[r].body \in Seq(Nodes)
    /\ end = CompileBody(routes[r].body, flag, st) /\ Shaped(end) /\ end.err = NoError
    /\ p[r - 1] = Len(st.code) /\ p[r] = Len(end.code) + 1
    /\ Extends(end, h[r].st)

LEMMA RouteIs ==
    ASSUME RepeatsAreDeclared, NEW entry, NEW R \in Nat, NEW h, NEW p, NEW routes,
           Laid(h, p, entry, routes, R), NEW flag \in BOOLEAN, NEW r \in 1..R,
           LayRound(h, routes, flag, r - 1)
    PROVE  RouteOf(h, p, routes, flag, r, h[r - 1].st,
                   CompileBody(routes[r].body, flag, h[r - 1].st))
<1> DEFINE acc == h[r - 1]
           new == h[r]
           route == routes[r].route
           body == routes[r].body
           end == CompileBody(body, flag, acc.st)
<1>1. r - 1 \in 0..R /\ r \in 0..R /\ (r - 1) + 1 = r
  OBVIOUS
<1>2. body \in Seq(Nodes) /\ new = AddRoute(acc, route, end)
  BY <1>1 DEF LayRound
<1>3. /\ Shaped(acc.st) /\ acc.st.err = NoError /\ new.st.err = NoError
      /\ p[r - 1] = Len(acc.st.code) /\ p[r] = Len(new.st.code)
  BY <1>1 DEF Laid
<1>4. Lays(acc, route, body, flag, end, new)
  BY <1>2, <1>3, Zenon DEF Lays
<1>5. end = CompileBody(body, flag, acc.st)
  OBVIOUS
<1> HIDE DEF acc, new, route, end
<1>6. /\ Shaped(end) /\ end.err = NoError /\ Extends(end, new.st)
      /\ Len(new.st.code) = Len(end.code) + 1
  BY <1>4, LayStep
<1>7. RouteOf(h, p, routes, flag, r, acc.st, end)
  BY <1>2, <1>3, <1>5, <1>6, Zenon DEF RouteOf, new
<1> QED
  BY <1>7 DEF acc, end

LEMMA RouteCarried ==
    ASSUME NEW entry, Len(entry.code) \in Nat, NEW R \in Nat, NEW h, NEW p, NEW routes,
           Laid(h, p, entry, routes, R), NEW new, Patched(h, p, R, new),
           NEW c, Len(c.code) \in Nat, Extends(new, c), NEW flag, NEW r \in 1..R,
           NEW st, NEW end, RouteOf(h, p, routes, flag, r, st, end)
    PROVE  Carries(c, st, end)
<1> DEFINE last == h[R].st
           Jumps == {p[i] : i \in 1..R}
<1>1. r - 1 \in 0..R /\ r \in 0..R /\ 0 \in 0..R /\ R \in 0..R /\ r - 1 < r
  OBVIOUS
<1>2. /\ p[0] = Len(entry.code) + 1
      /\ \A i \in 0..R : p[i] \in Nat \ {0} /\ p[0] <= p[i] /\ p[i] <= p[R]
      /\ \A i, j \in 0..R : i < j => p[i] < p[j]
  BY LaidBounds
<1>3. /\ p[r - 1] = Len(st.code) /\ p[r] = Len(end.code) + 1 /\ Shaped(end)
      /\ Extends(end, h[r].st)
  BY DEF RouteOf
<1>4. /\ Extends(h[r].st, last) /\ Shaped(h[r].st) /\ Shaped(last)
  BY <1>1 DEF Laid
<1>5. Extends(end, last)
  <2> DEFINE mid == h[r].st
  <2>1. Shaped(mid) /\ Extends(end, mid) /\ Extends(mid, last)
    BY <1>3, <1>4
  <2> HIDE DEF mid, last
  <2>2. Len(end.code) \in Nat /\ Len(mid.code) \in Nat /\ Len(last.code) \in Nat
    BY <1>3, <1>4, <2>1, SeqIs DEF Shaped
  <2> QED
    BY <2>1, <2>2, ExtendsTransitive
<1>6. /\ Len(new.code) = p[R] /\ new.table = last.table
      /\ \A i \in 1..p[R] :
             new.code[i] = IF i = p[0] THEN Route(h[R].starts)
                           ELSE IF i \in Jumps THEN Jump(p[R] + 1) ELSE last.code[i]
  BY Zenon DEF Patched
<1> HIDE DEF last
<1>7. p[r - 1] \in Nat /\ p[r] \in Nat /\ p[R] \in Nat /\ p[r] <= p[R]
      /\ p[0] \in Nat /\ p[0] <= p[r - 1]
  BY <1>1, <1>2
<1>8. ASSUME NEW ip \in (Len(st.code) + 1)..Len(end.code)
      PROVE  c.code[ip] = end.code[ip]
  <2>1. ip \in Nat /\ p[r - 1] < ip /\ ip < p[r] /\ ip # p[0] /\ ip \in 1..p[R]
        /\ ip \in 1..Len(end.code)
    BY <1>3, <1>7, SMTT(30)
  <2>2. ASSUME NEW i \in 1..R, ip = p[i] PROVE FALSE
    <3>1. i \in 0..R /\ (i < r - 1 \/ i = r - 1 \/ i = r \/ r < i)
      OBVIOUS
    <3>2. (i < r - 1 => p[i] < p[r - 1]) /\ (r < i => p[r] < p[i])
      BY <1>1, <1>2, <3>1
    <3> QED
      BY <1>7, <2>1, <2>2, <3>1, <3>2
  <2>3. new.code[ip] = last.code[ip]
    BY <1>6, <2>1, <2>2
  <2>4. c.code[ip] = new.code[ip]
    BY <1>6, <2>1 DEF Extends
  <2>5. last.code[ip] = end.code[ip]
    BY <1>5, <2>1 DEF Extends
  <2> QED
    BY <2>3, <2>4, <2>5
<1>9. Len(end.code) <= Len(c.code)
  <2>1. Len(end.code) \in Nat
    BY <1>3, SeqIs DEF Shaped
  <2>2. p[R] <= Len(c.code)
    BY <1>6 DEF Extends
  <2> QED
    BY <1>3, <1>7, <2>1, <2>2
<1>10. \A id \in DOMAIN end.table : id \in DOMAIN c.table /\ c.table[id] = end.table[id]
  BY <1>5, <1>6 DEF Extends
<1> QED
  BY <1>8, <1>9, <1>10 DEF Carries

LEMMA RouteRuns ==
    ASSUME RepeatsAreDeclared, NEW c, NEW resumed, NEW at, Flows(c, resumed, at),
           NEW p, NEW R \in Nat, Layout(c, p, R), NEW h, NEW routes, NEW flag \in BOOLEAN,
           NEW r \in 1..R, NEW st, NEW end, RouteOf(h, p, routes, flag, r, st, end),
           Carries(c, st, end), NEW all, Meets(at[p[0]], all)
    PROVE  Meets(Leaving(c, resumed, at, p[r]), BodyMeaning(routes[r].body, all))
<1> DEFINE body == routes[r].body
           jump == c.code[p[r]]
           hole == c.code[p[0]]
<1>1. Quiet(hole) /\ Quiet(jump)
  BY DEF Layout
<1>2. at[p[r - 1] + 1] = {Computed(c, hole, ctx, resumed) : ctx \in at[p[0]]}
  BY LayoutEntry
<1> HIDE DEF hole, jump
<1>3. Meets(at[p[r - 1] + 1], all)
  BY <1>1, <1>2, QuietMeets
<1>4. Straight(c, p[r - 1] + 1, p[r])
  BY LayoutStraight
<1>5. /\ Shaped(st) /\ st.err = NoError /\ body \in Seq(Nodes)
      /\ end = CompileBody(body, flag, st) /\ end.err = NoError
      /\ p[r - 1] = Len(st.code) /\ p[r] = Len(end.code) + 1
  BY DEF RouteOf
<1> HIDE DEF body
<1>6. /\ Straight(c, Len(st.code) + 1, Len(end.code) + 1)
      /\ Meets(at[Len(st.code) + 1], all)
  BY <1>3, <1>4, <1>5
<1>7. Meets(at[Len(end.code) + 1], BodyMeaning(body, all))
  BY <1>5, <1>6, RouteBodyRuns
<1>8. Meets(at[p[r]], BodyMeaning(body, all))
  BY <1>5, <1>7
<1>9. Meets({Computed(c, jump, ctx, resumed) : ctx \in at[p[r]]}, BodyMeaning(body, all))
  BY <1>1, <1>8, QuietMeets
<1> QED
  BY <1>9, Zenon DEF jump, body, Leaving

LEMMA DictFlows ==
    ASSUME RepeatsAreDeclared, NEW c, NEW resumed, NEW at, Flows(c, resumed, at),
           NEW entry, Sound(entry, {}), entry.err = NoError,
           NEW dict \in Nodes, dict.kind = "dict", NEW flag \in BOOLEAN,
           NEW new, new = DictCode(dict, flag, entry), new.err = NoError, Extends(new, c),
           NEW all, Meets(at[Len(entry.code) + 1], all)
    PROVE  Meets(at[Len(new.code) + 1], RoutesMeaning(dict, all))
<1> DEFINE routes == dict.routes
           R == Len(routes)
           acc == CompileRoutes(dict, flag, entry)
<1>1. R \in Nat /\ DOMAIN routes = 1..R
  BY RoutesAre
<1>2. new = IF acc.st.err = NoError
            THEN PatchRoutes(acc.st, Len(entry.code) + 1, acc.starts, acc.jumps)
            ELSE acc.st
  BY DictIs
<1>3. acc.st.err = NoError
  <2> HIDE DEF acc
  <2> QED
    BY <1>2
<1>4. Shaped(entry) /\ Len(entry.code) \in Nat /\ Len(c.code) \in Nat
  BY SoundLen DEF Sound, Flows
<1>5. PICK h, p : /\ acc = h[R]
                  /\ Laid(h, p, entry, routes, R)
                  /\ \A k \in 0..(R - 1) : LayRound(h, routes, flag, k)
  BY <1>3, <1>4, RoutesLaid
<1> HIDE DEF acc, routes, R
<1>6. p[0] = Len(entry.code) + 1 /\ Laid(h, p, entry, routes, R)
  BY <1>1, <1>4, <1>5, LaidBounds
<1>7. new = PatchRoutes(h[R].st, p[0], h[R].starts, h[R].jumps)
  BY <1>2, <1>3, <1>5, <1>6
<1>8. Patched(h, p, R, new)
  BY <1>1, <1>6, <1>7, LaidIsPatched
<1>9. Layout(c, p, R)
  BY <1>1, <1>4, <1>6, <1>8, PatchedLayout
<1> DEFINE Way(r) == Leaving(c, resumed, at, p[r])
           So(r) == BodyMeaning(routes[r].body, all)
<1>10. Meets(at[p[0]], all)
  BY <1>6
<1>11. ASSUME NEW r \in 1..R PROVE Meets(Way(r), So(r))
  <2> DEFINE st == h[r - 1].st
             end == CompileBody(routes[r].body, flag, st)
  <2>1. r - 1 \in 0..(R - 1)
    BY <1>1
  <2>2. LayRound(h, routes, flag, r - 1)
    BY <1>5, <2>1
  <2>3. RouteOf(h, p, routes, flag, r, st, end)
    BY <1>1, <1>6, <2>2, RouteIs
  <2> HIDE DEF st, end
  <2>4. Carries(c, st, end)
    BY <1>1, <1>4, <1>6, <1>8, <2>3, RouteCarried
  <2> QED
    BY <1>1, <1>9, <1>10, <2>3, <2>4, RouteRuns
<1>12. at[p[R] + 1] = UNION {Way(r) : r \in 1..R}
  <2>1. at[p[R] + 1] = LeavingRoutes(c, resumed, at, p, R)
    BY <1>9, ExitMeets
  <2> QED
    BY <2>1, Zenon DEF LeavingRoutes
<1>13. RoutesMeaning(dict, all) = UNION {So(r) : r \in 1..R}
  BY <1>1, Zenon DEF RoutesMeaning, routes
<1> HIDE DEF Way, So
<1>14. Meets(UNION {Way(r) : r \in 1..R}, UNION {So(r) : r \in 1..R})
  <2> DEFINE D == 1..R
             X == [r \in D |-> Way(r)]
             Y == [r \in D |-> So(r)]
  <2>1. \A r \in D : X[r] = Way(r) /\ Y[r] = So(r)
    OBVIOUS
  <2> HIDE DEF X, Y
  <2>2. \A r \in D : Meets(X[r], Y[r])
    BY <1>11, <2>1
  <2>3. {X[r] : r \in D} = {Way(r) : r \in D} /\ {Y[r] : r \in D} = {So(r) : r \in D}
    <3> HIDE DEF D
    <3> QED
      BY <2>1
  <2>4. Meets(AllOf(D, X), AllOf(D, Y))
    <3>1. AllMeet(D, X, Y)
      BY <2>2 DEF AllMeet
    <3> HIDE DEF D
    <3> QED
      BY <3>1, MeetsUnion, Zenon
  <2> QED
    BY <2>3, <2>4, Zenon DEF AllOf, D
<1>15. Len(new.code) = p[R]
  BY <1>8, Zenon DEF Patched
<1> QED
  BY <1>12, <1>13, <1>14, <1>15

-----------------------------------------------------------------------------
(* The list of the pipeline: its nodes in order, the dicts with them.      *)

LEMMA MadeKinds ==
    ASSUME NEW node, MadeNode(node)
    PROVE  /\ IsNode(node) /\ node.kind \in {"stage", "parallel", "dict"}
           /\ node.kind = "dict" => node \in Nodes
           /\ node.kind = "stage" => node \in Nodes
           /\ node.kind = "parallel" => IsSeq(node.branches)
<1>1. CASE node \in Nodes
  BY <1>1, NodesTyped DEF IsNode, IsSeq
<1>2. CASE \E group : GroupOK(group) /\ node = Block(group)
  BY <1>2 DEF IsNode, Block, GroupOK, IsSeq
<1> QED
  BY <1>1, <1>2 DEF MadeNode

LEMMA DictSound ==
    ASSUME NEW entry, Sound(entry, {}), NEW dict \in Nodes, dict.kind = "dict", NEW flag
    PROVE  Sound(DictCode(dict, flag, entry), {}) /\ Extends(entry, DictCode(dict, flag, entry))
<1> DEFINE all == CompileRoutes(dict, flag, entry)
           hole == Len(entry.code) + 1
           patched == PatchRoutes(all.st, hole, all.starts, all.jumps)
           code == DictCode(dict, flag, entry)
           k == Len(dict.routes)
<1>1. code = IF all.st.err = NoError THEN patched ELSE all.st
  BY Zenon DEF DictCode, EmitRoutes, Then
<1>2. dict.routes \in Seq([route : Routes, body : Seq(Nodes)]) /\ k \in Nat
  BY NodesTyped, RoutesAre
<1>3. DictsHaveRoutes => k # 0
  <2>1. DictsHaveRoutes => dict.routes # <<>>
    BY DEF DictsHaveRoutes
  <2>2. k = 0 => dict.routes = <<>>
    <3> DEFINE T == [route : Routes, body : Seq(Nodes)]
    <3>1. dict.routes \in Seq(T)
      BY <1>2
    <3> HIDE DEF T
    <3> QED
      BY <3>1
  <2> QED
    BY <2>1, <2>2
<1>4. Routing(all, entry, k)
  BY <1>2, RoutesRouted
<1> SUFFICES Sound(code, {}) /\ Extends(entry, code)
  OBVIOUS
<1>5. CASE all.st.err # NoError
  <2>1. Sound(all.st, {}) /\ Extends(entry, all.st)
    <3> HIDE DEF all, code
    <3> QED
      BY <1>4, <1>5 DEF Routing, Sound
  <2> HIDE DEF all, code
  <2> QED
    BY <1>1, <1>5, <2>1
<1>6. CASE all.st.err = NoError
  <2>1. Sound(patched, {}) /\ Extends(entry, patched)
    <3> HIDE DEF all, code, k
    <3> QED
      BY <1>2, <1>3, <1>4, <1>6, PatchSound
  <2> HIDE DEF all, code, patched
  <2> QED
    BY <1>1, <1>6, <2>1
<1> QED
  BY <1>5, <1>6

LEMMA NodeAfterIs ==
    ASSUME NEW given, given.level = "top", NEW router, NEW node, MadeNode(node), NEW st
    PROVE  /\ node.kind # "dict" => NodeAfter(given, router, node, st) = BodyNode(node, st)
           /\ (node.kind = "dict" /\ router) =>
                  NodeAfter(given, router, node, st) = DictCode(node, given.auto, st)
           /\ (node.kind = "dict" /\ ~router) =>
                  NodeAfter(given, router, node, st) = Raise(st, "DictFirst")
BY Zenon DEF NodeAfter, BodyNode

LEMMA NodeAfterSound ==
    ASSUME NEW given, given.level = "top", NEW router, NEW node, MadeNode(node),
           NEW st, Sound(st, {}), NEW new, new = NodeAfter(given, router, node, st)
    PROVE  Sound(new, {}) /\ Extends(st, new)
<1>1. CASE node.kind # "dict"
  <2>1. new = BodyNode(node, st) /\ IsNode(node)
    BY <1>1, NodeAfterIs, MadeKinds
  <2> QED
    BY <2>1, BodyNodeSound
<1>2. CASE node.kind = "dict" /\ router
  <2>1. new = DictCode(node, given.auto, st) /\ node \in Nodes
    <3>1. node \in Nodes
      BY <1>2, MadeKinds
    <3>2. NodeAfter(given, router, node, st) = DictCode(node, given.auto, st)
      BY <1>2, Zenon DEF NodeAfter
    <3> QED
      BY <3>1, <3>2
  <2> QED
    BY <1>2, <2>1, DictSound
<1>3. CASE node.kind = "dict" /\ ~router
  <2>1. new = Raise(st, "DictFirst") /\ "DictFirst" # NoError
    BY <1>3, NodeAfterIs, NoErrorIsNone
  <2> QED
    BY <2>1, RaiseSound
<1> QED
  BY <1>1, <1>2, <1>3

LEMMA NodeAfterFlows ==
    ASSUME RepeatsAreDeclared, NEW c, NEW resumed, NEW at, Flows(c, resumed, at),
           NEW given, given.level = "top", given.auto \in BOOLEAN, NEW router \in BOOLEAN,
           NEW node, MadeNode(node), NEW st, Sound(st, {}), st.err = NoError,
           NEW new, new = NodeAfter(given, router, node, st), new.err = NoError,
           Extends(new, c), NEW all, Meets(at[Len(st.code) + 1], all)
    PROVE  Meets(at[Len(new.code) + 1], Means("top", node, all))
<1>1. Sound(new, {}) /\ Extends(st, new) /\ Shaped(st)
  BY NodeAfterSound DEF Sound
<1>2. Len(st.code) \in Nat /\ Len(new.code) \in Nat /\ Len(c.code) \in Nat
  BY <1>1, SoundLen DEF Flows
<1>3. CASE node.kind # "dict"
  <2>1. new = BodyNode(node, st)
    BY <1>3, NodeAfterIs
  <2>2. FineNode(node)
    BY MadeIsFine
  <2>3. StepsOn(st, new)
    BY <1>1, <2>1, <2>2, NodeSteps
  <2>4. Carries(c, st, new) /\ \A j \in 1..Len(st.code) : c.code[j] = st.code[j]
    BY <1>1, <1>2 DEF Carries, Extends
  <2>5. Straight(c, Len(st.code) + 1, Len(new.code) + 1)
    BY <1>2, <2>3, <2>4, StraightAfter
  <2>6. Meets(at[Len(new.code) + 1], Through(node, all))
    BY <1>1, <2>1, <2>2, <2>4, <2>5, NodeFlows
  <2>7. Means("top", node, all) = Through(node, all)
    BY <1>3, MeanIs
  <2> QED
    BY <2>6, <2>7
<1>4. CASE node.kind = "dict" /\ router
  <2>1. new = DictCode(node, given.auto, st) /\ node \in Nodes
    <3>1. node \in Nodes
      BY <1>4, MadeKinds
    <3>2. NodeAfter(given, router, node, st) = DictCode(node, given.auto, st)
      BY <1>4, Zenon DEF NodeAfter
    <3> QED
      BY <3>1, <3>2
  <2>2. Meets(at[Len(new.code) + 1], RoutesMeaning(node, all))
    BY <1>4, <2>1, DictFlows
  <2>3. Means("top", node, all) = RoutesMeaning(node, all)
    BY <1>4, MeanIs
  <2> QED
    BY <2>2, <2>3
<1>5. CASE node.kind = "dict" /\ ~router
  <2>1. new = Raise(st, "DictFirst") /\ "DictFirst" # NoError
    BY <1>5, NodeAfterIs, NoErrorIsNone
  <2>2. new.err = "DictFirst"
    BY <2>1, RaiseSound
  <2> QED
    BY <2>1, <2>2
<1> QED
  BY <1>3, <1>4, <1>5

\* What holds in front of each round of the loop over the list.
Arrives(c, at, st, all) ==
    /\ Sound(st, {})
    /\ (st.err = NoError /\ Extends(st, c)) => Meets(at[Len(st.code) + 1], all)

LEMMA FlowArrives ==
    ASSUME RepeatsAreDeclared, NEW c, NEW resumed, NEW at, Flows(c, resumed, at),
           NEW given, given.level = "top", given.auto \in BOOLEAN,
           NEW acc, acc.router \in BOOLEAN, NEW all, Arrives(c, at, acc.st, all),
           NEW node, MadeNode(node)
    PROVE  Arrives(c, at, Round("flow", given, acc, node).st, Round("mean", "top", all, node))
<1> DEFINE st == acc.st
           router == acc.router
           new == Round("flow", given, acc, node).st
           next == Round("mean", "top", all, node)
<1>1. st.err # NoError => new = st
  BY FlowIs
<1>2. st.err = NoError => new = NodeAfter(given, router, node, st)
  BY FlowIs
<1>3. next = Means("top", node, all)
  BY MeanIs
<1>4. Sound(st, {}) /\ router \in BOOLEAN
  BY DEF Arrives
<1>5. (st.err = NoError /\ Extends(st, c)) => Meets(at[Len(st.code) + 1], all)
  BY DEF Arrives
<1> SUFFICES Arrives(c, at, new, next)
  OBVIOUS
<1> HIDE DEF st, router, new, next
<1>6. CASE st.err # NoError
  BY <1>1, <1>4, <1>6 DEF Arrives
<1>7. CASE st.err = NoError
  <2>1. new = NodeAfter(given, router, node, st)
    BY <1>2, <1>7
  <2>2. Sound(new, {}) /\ Extends(st, new)
    BY <1>4, <2>1, NodeAfterSound
  <2>3. ASSUME new.err = NoError, Extends(new, c)
        PROVE  Meets(at[Len(new.code) + 1], next)
    <3>1. Len(st.code) \in Nat /\ Len(new.code) \in Nat /\ Len(c.code) \in Nat
      BY <1>4, <2>2, SoundLen DEF Flows
    <3>2. Extends(st, c)
      BY <2>2, <2>3, <3>1, ExtendsTransitive
    <3>3. Meets(at[Len(st.code) + 1], all)
      BY <1>5, <1>7, <3>2
    <3>4. Meets(at[Len(new.code) + 1], Means("top", node, all))
      BY <1>4, <1>7, <2>1, <2>3, <3>3, NodeAfterFlows
    <3> QED
      BY <1>3, <3>4
  <2> QED
    BY <2>2, <2>3 DEF Arrives
<1> QED
  BY <1>6, <1>7

LEMMA ListArrives ==
    ASSUME RepeatsAreDeclared, NEW c, NEW resumed, NEW at, Flows(c, resumed, at),
           NEW given, given.level = "top", given.auto \in BOOLEAN,
           NEW base, base.router \in BOOLEAN, NEW all, Arrives(c, at, base.st, all),
           NEW list, Made(list)
    PROVE  Arrives(c, at, Loop("flow", given, base, list).st, Loop("mean", "top", all, list))
<1> DEFINE n == Len(list)
<1>1. n \in Nat /\ DOMAIN list = 1..n /\ \A k \in 1..n : MadeNode(list[k])
  BY SeqIs DEF Made
<1> HIDE DEF n
<1>2. PICK g : /\ Rounds(g, "flow", given, base, list, n)
               /\ Loop("flow", given, base, list) = g[n]
  BY <1>1, LoopRounds
<1>3. PICK m : /\ Rounds(m, "mean", "top", all, list, n)
               /\ Loop("mean", "top", all, list) = m[n]
  BY <1>1, LoopRounds
<1> DEFINE S == {k \in 0..n : g[k].router \in BOOLEAN /\ Arrives(c, at, g[k].st, m[k])}
<1>4. 0 \in S
  BY <1>1, <1>2, <1>3 DEF Rounds
<1>5. ASSUME NEW k \in 0..(n - 1), k \in S PROVE k + 1 \in S
  <2> DEFINE acc == g[k]
             new == g[k + 1]
             now == m[k]
             next == m[k + 1]
             node == list[k + 1]
  <2>1. k + 1 \in 1..n /\ k + 1 \in 0..n /\ (k + 1) - 1 = k
    BY <1>1
  <2>2. new = Round("flow", given, acc, node)
    BY <1>2, <2>1 DEF Rounds
  <2>3. next = Round("mean", "top", now, node)
    BY <1>3, <2>1 DEF Rounds
  <2>4. MadeNode(node)
    BY <1>1, <2>1
  <2>5. acc.router \in BOOLEAN /\ Arrives(c, at, acc.st, now)
    BY <1>5
  <2> HIDE DEF acc, new, now, next, node
  <2>6. Arrives(c, at, new.st, next)
    BY <2>2, <2>3, <2>4, <2>5, FlowArrives
  <2>7. new.router \in BOOLEAN
    <3>1. Round("flow", given, acc, node).router = (node.kind = "stage")
      BY FlowIs, SMT
    <3> QED
      BY <2>2, <3>1
  <2> QED
    BY <2>1, <2>6, <2>7 DEF new, next
<1> HIDE DEF S
<1>6. n \in S
  BY <1>1, <1>4, <1>5, UpTo
<1> QED
  BY <1>2, <1>3, <1>6 DEF S

-----------------------------------------------------------------------------
(* One compilation: from the first instruction to the last.                *)

LEMMA InitialMeets ==
    /\ Meets({Create(Initial)}, {[data |-> Initial]})
    /\ AllOK({[data |-> Initial]})
<1> DEFINE ctx == Create(Initial)
           v == [data |-> Initial]
<1>1. Initial = [k \in Keys |-> Initial[k]]
  BY DEF Initial
<1>2. ctx = ContextIs(Initial, {}, "root")
  BY Zenon DEF Create, ContextIs
<1>3. ContextOK(ctx) /\ Outcome(ctx) = v
  BY <1>1, <1>2, ContextHas DEF ContextOK
<1> SUFFICES Meets({ctx}, {v}) /\ AllOK({v})
  OBVIOUS
<1> HIDE DEF ctx, v
<1>4. Meets({ctx}, {v})
  <2>1. {v} = {Outcome(x) : x \in {ctx}}
    BY <1>3
  <2> QED
    BY <1>3, <2>1 DEF Meets
<1> QED
  BY <1>4, MeetsIsOK

LEMMA EmitPipelineIs ==
    ASSUME NEW event, NEW ip
    PROVE  /\ Quiet(EmitPipeline(event)) /\ Leads(EmitPipeline(event), ip) = {ip + 1}
           /\ EmitPipeline(event).op \notin {"jump", "route"}
BY DEF Quiet, EmitPipeline, Leads

LEMMA StartArrives ==
    ASSUME NEW c, NEW resumed, NEW at, Flows(c, resumed, at)
    PROVE  Arrives(c, at, Start, {[data |-> Initial]})
<1> DEFINE all == {[data |-> Initial]}
           first == EmitPipeline("pipeline_start")
<1>1. /\ Start.code = <<first>> /\ Len(Start.code) = 1 /\ Start.code[1] = first
  BY DEF Start
<1>2. Meets(at[1], all)
  BY InitialMeets DEF Flows
<1> SUFFICES ASSUME Extends(Start, c) PROVE Meets(at[Len(Start.code) + 1], all)
  BY StartSound DEF Arrives
<1>3. Quiet(first) /\ Leads(first, 1) = {1 + 1}
  BY EmitPipelineIs
<1> HIDE DEF first, all
<1>4. 1 <= Len(c.code) /\ Len(c.code) \in Nat /\ c.code[1] = first
  <2>1. Len(Start.code) <= Len(c.code) /\ \A ip \in 1..Len(Start.code) : c.code[ip] = Start.code[ip]
    BY DEF Extends
  <2> QED
    BY <1>1, <2>1 DEF Flows
<1>5. Straight(c, 1, 2)
  BY <1>3, <1>4 DEF Straight
<1>6. \A ip \in 1..(2 - 1) : Quiet(c.code[ip])
  BY <1>3, <1>4
<1>7. Meets(at[2], all)
  <2>1. 1 \in Nat \ {0} /\ 2 \in Nat /\ 1 <= 2 /\ 2 <= Len(c.code) + 1
    BY <1>4
  <2> QED
    BY <1>2, <1>5, <1>6, <2>1, QuietRuns
<1> QED
  BY <1>1, <1>7

LEMMA EndRuns ==
    ASSUME NEW c, NEW resumed, NEW at, Flows(c, resumed, at), NEW flow, Sound(flow, {}),
           flow.err = NoError, c = Emitted(flow, <<EmitPipeline("pipeline_end")>>),
           NEW all, Arrives(c, at, flow, all)
    PROVE  Meets(at[Len(c.code) + 1], all)
<1> DEFINE last == EmitPipeline("pipeline_end")
           n == Len(flow.code)
<1>1. /\ IsSeq(<<last>>) /\ Len(<<last>>) = 1 /\ <<last>>[1] = last
  BY TuplesAre
<1>2. Quiet(last) /\ Leads(last, n + 1) = {n + 1 + 1} /\ last.op \notin {"jump", "route"}
  BY EmitPipelineIs
<1>3. n \in Nat /\ Shaped(flow) /\ IsSeq(flow.code)
  BY SoundLen DEF Sound, Shaped
<1> HIDE DEF last
<1>4. c.code = flow.code \o <<last>> /\ c.table = flow.table /\ c.err = flow.err
  BY <1>1, <1>3, EmittedIs DEF last
<1>5. /\ Len(c.code) = n + 1 /\ \A i \in 1..n : c.code[i] = flow.code[i]
      /\ c.code[n + 1] = last
  <2>1. /\ Len(c.code) = n + Len(<<last>>)
        /\ \A i \in 1..n : c.code[i] = flow.code[i]
        /\ \A i \in (n + 1)..Len(c.code) : c.code[i] = <<last>>[i - n]
    BY <1>1, <1>3, <1>4, ConcatIs, SMTT(30)
  <2>2. Len(c.code) = n + 1
    BY <1>1, <2>1
  <2>3. n + 1 \in (n + 1)..Len(c.code) /\ n + 1 - n = 1
    BY <1>3, <2>2
  <2> QED
    BY <1>1, <2>1, <2>2, <2>3
<1>6. Extends(flow, c) /\ Carries(c, flow, c)
  BY <1>3, <1>4, <1>5 DEF Extends, Carries
<1>7. StepsOn(flow, c)
  BY <1>2, <1>3, <1>5 DEF StepsOn
<1>8. Straight(c, n + 1, Len(c.code) + 1)
  <2>1. Len(c.code) \in Nat
    BY <1>3, <1>5
  <2> QED
    BY <1>5, <1>6, <1>7, <2>1, StraightAfter
<1>9. Meets(at[n + 1], all)
  BY <1>6 DEF Arrives
<1>10. /\ n + 1 \in Nat \ {0} /\ Len(c.code) + 1 \in Nat /\ n + 1 <= Len(c.code) + 1
       /\ Len(c.code) + 1 <= Len(c.code) + 1
       /\ \A ip \in (n + 1)..(Len(c.code) + 1 - 1) : Quiet(c.code[ip])
  BY <1>2, <1>3, <1>5
<1> DEFINE lo == n + 1
           hi == Len(c.code) + 1
<1>11. /\ lo \in Nat \ {0} /\ hi \in Nat /\ lo <= hi /\ hi <= Len(c.code) + 1
       /\ Straight(c, lo, hi) /\ Meets(at[lo], all)
       /\ \A ip \in lo..(hi - 1) : Quiet(c.code[ip])
  BY <1>8, <1>9, <1>10
<1> HIDE DEF n, lo, hi
<1>12. Meets(at[hi], all)
  BY <1>11, QuietRuns
<1> QED
  BY <1>12 DEF hi

LEMMA MeaningIsLoop ==
    ASSUME NEW list, IsSeq(list)
    PROVE  Meaning(list) = Loop("mean", "top", {[data |-> Initial]}, list)
<1>1. Meaning(list) = TopMeaning({[data |-> Initial]}, list)
  BY Zenon DEF Meaning, TopMeaning
<1> QED
  BY <1>1, TopMeansLoop

\* What Compile gives when nothing is raised.
LEMMA CompileWithoutError ==
    ASSUME NEW list \in Seq(Nodes), NEW flag, NEW given,
           given = [level |-> "top", auto |-> flag],
           NEW c, c = Compile(list, flag), c.err = NoError
    PROVE  LET normal == Normalize(list, flag)
               flow == Loop("flow", given, From(Start), normal.out).st
           IN  /\ normal.err = NoError /\ flow.err = NoError
               /\ c = Emitted(flow, <<EmitPipeline("pipeline_end")>>)
<1> DEFINE normal == Normalize(list, flag)
           flow == Loop("flow", given, From(Start), normal.out).st
           end == <<EmitPipeline("pipeline_end")>>
<1>1. given.level = "top" /\ given.auto = flag
  OBVIOUS
<1>2. /\ normal.err # NoError => c = Raise(Start, normal.err)
      /\ (normal.err = NoError /\ flow.err # NoError) => c = flow
      /\ (normal.err = NoError /\ flow.err = NoError) => c = Emitted(flow, end)
  <2>1. /\ normal.err # NoError => Compile(list, flag) = Raise(Start, normal.err)
        /\ (normal.err = NoError /\ flow.err # NoError) => Compile(list, flag) = flow
        /\ (normal.err = NoError /\ flow.err = NoError) => Compile(list, flag) = Emitted(flow, end)
    <3> HIDE DEF flow, end, normal
    <3> QED
      BY <1>1, CompileIs, Zenon DEF flow, end, normal
  <2> HIDE DEF flow, end, normal
  <2> QED
    BY <2>1
<1> HIDE DEF flow, end, normal
<1>3. normal.err = NoError
  <2> SUFFICES ASSUME normal.err # NoError PROVE FALSE
    OBVIOUS
  <2>1. Raise(Start, normal.err).err = normal.err
    BY StartSound, RaiseSound
  <2> QED
    BY <1>2, <2>1
<1>4. flow.err = NoError
  BY <1>2, <1>3
<1> QED
  BY <1>2, <1>3, <1>4, Zenon DEF flow, end, normal

LEMMA CompiledMeans ==
    ASSUME RepeatsAreDeclared, NEW list \in Seq(Nodes), NEW flag \in BOOLEAN,
           NEW c, c = Compile(list, flag), c.err = NoError, NEW resumed
    PROVE  Finals(c, resumed) = Meaning(list)
<1> DEFINE given == [level |-> "top", auto |-> flag]
           normal == Normalize(list, flag)
           top == normal.out
           base == From(Start)
           flow == Loop("flow", given, base, top).st
           all == {[data |-> Initial]}
           end == Loop("mean", "top", all, top)
           at == Reached(c, resumed)
<1>1. given = [level |-> "top", auto |-> flag] /\ given.level = "top" /\ given.auto = flag
  OBVIOUS
<1> HIDE DEF given
<1>2. /\ normal.err = NoError /\ flow.err = NoError
      /\ c = Emitted(flow, <<EmitPipeline("pipeline_end")>>)
  BY <1>1, CompileWithoutError
<1>3. Made(top) /\ end = Loop("mean", "top", all, list)
  <2>1. KeepsValues("top") /\ AllOK(all)
    BY TopKeepsValues, InitialMeets
  <2> QED
    BY <1>2, <2>1, FoldKeepsMeaning
<1>4. base.st = Start /\ base.router \in BOOLEAN
  BY DEF From
<1> HIDE DEF normal, top, all, base
<1>5. Sound(flow, {})
  <2>1. ListOK(top)
    BY <1>3, MadeIsList
  <2>2. Sound(NodeLoop(top, flag, Start, [i \in DOMAIN top |-> i]), {})
    BY <2>1, StartSound, NodeLoopSound
  <2>3. NodeLoop(top, given.auto, Start, [i \in DOMAIN top |-> i]) = flow
    <3> HIDE DEF top
    <3> QED
      BY <1>1, <2>1, NodeLoopFlows, Zenon DEF base
  <2> HIDE DEF flow
  <2> QED
    BY <1>1, <2>2, <2>3
<1>6. Len(c.code) \in Nat
  <2> HIDE DEF flow
  <2>1. Shaped(flow)
    BY <1>5 DEF Sound
  <2>2. IsSeq(<<EmitPipeline("pipeline_end")>>)
    BY TuplesAre
  <2>3. Shaped(c)
    BY <1>2, <2>1, <2>2, EmittedIs
  <2> QED
    BY <2>3, SeqIs DEF Shaped
<1>7. Flows(c, resumed, at)
  BY <1>6, ReachedIs DEF Flows
<1> HIDE DEF at
<1>8. Arrives(c, at, base.st, all)
  BY <1>4, <1>7, StartArrives DEF all
<1>9. Arrives(c, at, flow, end)
  BY <1>1, <1>3, <1>4, <1>7, <1>8, ListArrives
<1> HIDE DEF flow, end
<1>10. Meets(at[Len(c.code) + 1], end)
  BY <1>2, <1>5, <1>7, <1>9, EndRuns
<1>11. Finals(c, resumed) = {Outcome(ctx) : ctx \in at[Len(c.code) + 1]}
  BY Zenon DEF Finals, at
<1>12. Finals(c, resumed) = end
  BY <1>10, <1>11 DEF Meets
<1>13. Meaning(list) = Loop("mean", "top", all, list)
  BY NodesAreListed, MeaningIsLoop DEF all
<1> QED
  BY <1>3, <1>12, <1>13

(***************************************************************************)
(* _auto_parallelize (compiler.py:251-316) changes no value: the list with  *)
(* its folded blocks means what the list the user wrote means, whichever   *)
(* stages it folds.                                                        *)
(***************************************************************************)
THEOREM AutoParallelKeepsMeaning ==
    ASSUME NEW list \in Seq(Nodes), NEW flag \in BOOLEAN,
           Normalize(list, flag).err = NoError
    PROVE  Meaning(Normalize(list, flag).out) = Meaning(list)
<1> DEFINE top == Normalize(list, flag).out
           all == {[data |-> Initial]}
<1>1. KeepsValues("top") /\ AllOK(all)
  BY TopKeepsValues, InitialMeets
<1>2. Made(top) /\ Loop("mean", "top", all, top) = Loop("mean", "top", all, list)
  BY <1>1, FoldKeepsMeaning
<1>3. IsSeq(top) /\ IsSeq(list)
  BY <1>2, NodesAreListed DEF Made
<1> HIDE DEF top
<1>4. Meaning(top) = Loop("mean", "top", all, top)
  BY <1>3, MeaningIsLoop
<1>5. Meaning(list) = Loop("mean", "top", all, list)
  BY <1>3, MeaningIsLoop
<1> QED
  BY <1>2, <1>4, <1>5 DEF top

(***************************************************************************)
(* Compiled code computes what the list says (compiler.py:34-373 and       *)
(* interpreter.py:90-318), whatever the list, its routes, its blocks and   *)
(* their declarations: with and without auto-parallelism, interrupted at   *)
(* its checkpoints or not.                                                 *)
(***************************************************************************)
THEOREM CompiledMeansTheList ==
    ASSUME RepeatsAreDeclared
    PROVE  Spec => []CompiledMeansWritten
<1>1. ASSUME CompilerInv PROVE CompiledMeansWritten
  <2> SUFFICES ASSUME Compiled, NEW resumed \in BOOLEAN
               PROVE  Finals(out, resumed) = Meaning(nodes)
    BY Zenon DEF CompiledMeansWritten
  <2>1. nodes \in Seq(Nodes) /\ auto \in BOOLEAN /\ out = Compile(nodes, auto) /\ out.err = NoError
    BY <1>1 DEF CompilerInv, Compiled
  <2> QED
    BY <2>1, CompiledMeans
<1> QED
  BY <1>1, CompilerInductive, PTL
=============================================================================
