---------------------------- MODULE CompilerProofs ----------------------------
(***************************************************************************)
(* The compiler, for every list of nodes: node ids never alias, addresses  *)
(* stay inside the code, conflicts are refused.  Each loop of the compiler *)
(* is unfolded into its rounds; what a round preserves, the loop does.     *)
(***************************************************************************)
EXTENDS CompilerMeaning, FiniteSetTheorems, TLAPS

-----------------------------------------------------------------------------
(* Induction, over a set of naturals.                                      *)

\* The least number principle.
LEMMA Least ==
    ASSUME NEW T, T \subseteq Nat, T # {}
    PROVE  \E m \in T : \A n \in T : m <= n
<1>1. PICK m \in T : \A n \in T : ~(<<n, m>> \in OpToRel(<, Nat))
  BY NatLessThanWellFounded, WFMin
<1>2. ASSUME NEW n \in T PROVE m <= n
  <2>1. m \in Nat /\ n \in Nat
    OBVIOUS
  <2>2. ~(n < m)
    BY <1>1, <2>1 DEF OpToRel
  <2> QED
    BY <2>1, <2>2
<1> QED
  BY <1>2

\* What holds of 0 and, with k, of k + 1, holds of n.
LEMMA UpTo ==
    ASSUME NEW n \in Nat, NEW S, 0 \in S,
           \A k \in 0..(n - 1) : k \in S => k + 1 \in S
    PROVE  n \in S
<1> SUFFICES ASSUME n \notin S PROVE FALSE
  OBVIOUS
<1> DEFINE T == {k \in 0..n : k \notin S}
<1>1. PICK m \in T : \A k \in T : m <= k
  <2>1. T \subseteq Nat /\ T # {}
    OBVIOUS
  <2> HIDE DEF T
  <2> QED
    BY <2>1, Least
<1>2. m \in 1..n /\ m - 1 \in 0..(n - 1) /\ m - 1 \in S
  BY <1>1
<1> QED
  BY <1>1, <1>2

\* The greatest element of a set.
LEMMA MaxIs ==
    ASSUME NEW k \in Nat, NEW t, t \subseteq Nat, k \in t, \A j \in t : j <= k
    PROVE  Max(t) = k
<1> DEFINE IsMax(x) == x \in t /\ \A y \in t : x >= y
<1>1. IsMax(k)
  OBVIOUS
<1>2. \A x : IsMax(x) => x = k
  OBVIOUS
<1>3. Max(t) = CHOOSE x : IsMax(x)
  BY Zenon DEF Max
<1> HIDE DEF IsMax
<1> QED
  BY <1>1, <1>2, <1>3

LEMMA WithLast ==
    ASSUME NEW k \in Nat, NEW t \in SUBSET (1..(k + 1)), k + 1 \in t
    PROVE  Max(t) = k + 1
<1>1. k + 1 \in Nat /\ t \subseteq Nat /\ \A j \in t : j <= k + 1
  OBVIOUS
<1> QED
  BY <1>1, MaxIs

LEMMA WithoutLast ==
    ASSUME NEW k \in Nat, NEW t \in SUBSET (1..(k + 1)), k + 1 \notin t
    PROVE  t \in SUBSET (1..k)
<1> SUFFICES ASSUME NEW j \in t PROVE j \in 1..k
  OBVIOUS
<1>1. j \in 1..(k + 1) /\ j # k + 1
  OBVIOUS
<1> QED
  BY <1>1

LEMMA PrefixMax ==
    ASSUME NEW k \in Nat \ {0}
    PROVE  /\ Max(1..k) = k /\ (1..k) \ {k} = 1..(k - 1) /\ 1..k # {}
<1>1. /\ k \in 1..k /\ 1..k \subseteq Nat /\ \A j \in 1..k : j <= k
  OBVIOUS
<1>2. Max(1..k) = k
  BY <1>1, MaxIs
<1>3. (1..k) \ {k} = 1..(k - 1)
  OBVIOUS
<1> QED
  BY <1>1, <1>2, <1>3

-----------------------------------------------------------------------------
(* Loops.  FoldLeft takes the last element off a set of indices, whichever *)
(* set it is given; on the sets 1..k that is the k-th round of the loop.   *)

\* The ROUTE of a dict and its bodies, patched.
DictCode(dict, flag, st) ==
    EmitRoutes(Len(st.code) + 1, CompileRoutes(dict, flag, st))

\* A node of a route's body, or of the list: there a dict is compiled after
\* the stage that routes to it.
NodeAfter(given, router, node, st) ==
    IF given.level = "body" THEN BodyNode(node, st)
    ELSE IF node.kind = "parallel" THEN CompileParallel(node, st)
    ELSE IF node.kind # "dict" THEN CompileStage(node, st)
    ELSE IF router THEN DictCode(node, given.auto, st)
    ELSE Raise(st, "DictFirst")

\* What one node makes of all values that may have come to it.
Means(level, node, all) ==
    IF level = "top" /\ node.kind = "dict" THEN RoutesMeaning(node, all)
    ELSE Through(node, all)

(***************************************************************************)
(* One round of each loop: _auto_parallelize, the branches of a block, the *)
(* nodes of a route's body, the routes of a dict, the nodes of the list,   *)
(* _independent, and the branches of Context.merge.  "flow" is the loop    *)
(* over a list that looks back at the router of a dict, "mean" the one     *)
(* that gives a list its meaning.  given is what a round reads from its    *)
(* surroundings.                                                           *)
(***************************************************************************)
Round(loop, given, acc, item) ==
    IF loop = "fold" THEN Then(acc, LAMBDA a : Visit(given, item, a))
    ELSE IF loop = "branches" THEN RegisterBranch(acc, item)
    ELSE IF loop = "body" THEN Then(acc, LAMBDA a : BodyNode(item, a))
    ELSE IF loop = "routes"
         THEN IF acc.st.err # NoError THEN acc
              ELSE AddRoute(acc, item.route, CompileBody(item.body, given, acc.st))
    ELSE IF loop = "nodes"
         THEN Then(acc, LAMBDA a : CompileNode(given.out, item, given.auto, a))
    ELSE IF loop = "verdict"
         THEN IF acc = "yes" THEN IndependentOf(item, given) ELSE acc
    ELSE IF loop = "flow"
         THEN [st |-> IF acc.st.err = NoError
                      THEN NodeAfter(given, acc.router, item, acc.st) ELSE acc.st,
               router |-> item.kind = "stage"]
    ELSE IF loop = "mean" THEN Means(given, item, acc)
    ELSE Claim(acc, item)

IsRun(f, loop, given, base, seq, n) ==
    f = [t \in SUBSET (1..n) |->
            IF t = {} THEN base
            ELSE Round(loop, given, f[t \ {Max(t)}], seq[Max(t)])]

\* The recursion of a fold is well founded.
LEMMA Iteration ==
    ASSUME NEW loop, NEW given, NEW base, NEW seq, NEW n \in Nat
    PROVE  \E f : IsRun(f, loop, given, base, seq, n)
<1> DEFINE Val(f, t) == IF t = {} THEN base
                        ELSE Round(loop, given, f[t \ {Max(t)}], seq[Max(t)])
           Iterates(k) == \E f : f = [t \in SUBSET (1..k) |-> Val(f, t)]
           All == {k \in Nat : Iterates(k)}
<1>1. Iterates(0)
  <2> DEFINE f == [t \in SUBSET (1..0) |-> base]
  <2>1. \A t \in SUBSET (1..0) : t = {}
    OBVIOUS
  <2>2. f = [t \in SUBSET (1..0) |-> Val(f, t)]
    BY <2>1
  <2> QED
    BY <2>2, Zenon
<1>2. ASSUME NEW k \in Nat, Iterates(k) PROVE Iterates(k + 1)
  <2>1. PICK f : f = [t \in SUBSET (1..k) |-> Val(f, t)]
    BY <1>2
  <2> DEFINE new == [t \in SUBSET (1..(k + 1)) |->
                        IF k + 1 \in t
                        THEN Round(loop, given, f[t \ {k + 1}], seq[k + 1])
                        ELSE f[t]]
  <2>2. ASSUME NEW t \in SUBSET (1..(k + 1)) PROVE new[t] = Val(new, t)
    <3>1. CASE k + 1 \in t
      <4>1. t \ {k + 1} \in SUBSET (1..(k + 1)) /\ k + 1 \notin t \ {k + 1}
        OBVIOUS
      <4>2. new[t \ {k + 1}] = f[t \ {k + 1}]
        BY <4>1
      <4>3. Max(t) = k + 1
        BY <3>1, WithLast
      <4>4. Val(new, t) = Round(loop, given, f[t \ {k + 1}], seq[k + 1])
        BY <3>1, <4>2, <4>3, Zenon
      <4>5. new[t] = Round(loop, given, f[t \ {k + 1}], seq[k + 1])
        BY <3>1
      <4> QED
        BY <4>4, <4>5
    <3>2. CASE k + 1 \notin t
      <4>1. /\ t \in SUBSET (1..k) /\ t \ {Max(t)} \in SUBSET (1..k)
            /\ t \ {Max(t)} \in SUBSET (1..(k + 1)) /\ k + 1 \notin t \ {Max(t)}
        <5>1. t \in SUBSET (1..k)
          BY <3>2, WithoutLast
        <5> HIDE DEF new, Val
        <5> QED
          BY <5>1, <3>2
      <4>2. new[t] = f[t] /\ new[t \ {Max(t)}] = f[t \ {Max(t)}]
        BY <4>1, <3>2
      <4>3. f[t] = Val(f, t)
        BY <2>1, <4>1, Zenon
      <4> QED
        BY <4>2, <4>3, Zenon
    <3> QED
      BY <3>1, <3>2
  <2>3. new = [t \in SUBSET (1..(k + 1)) |-> new[t]]
    OBVIOUS
  <2>4. [t \in SUBSET (1..(k + 1)) |-> new[t]] = [t \in SUBSET (1..(k + 1)) |-> Val(new, t)]
    <3> HIDE DEF new, Val
    <3> QED
      BY <2>2
  <2>5. new = [t \in SUBSET (1..(k + 1)) |-> Val(new, t)]
    BY <2>3, <2>4, Zenon
  <2> HIDE DEF new
  <2> QED
    BY <2>5, Zenon
<1>3. n \in All
  <2>1. 0 \in All /\ \A k \in Nat : k \in All => k + 1 \in All
    <3> HIDE DEF Iterates
    <3> QED
      BY <1>1, <1>2
  <2> HIDE DEF All
  <2> QED
    BY <2>1, UpTo
<1>4. Iterates(n)
  <2> HIDE DEF Iterates
  <2> QED
    BY <1>3
<1> QED
  BY <1>4, Zenon DEF IsRun

\* h goes through the rounds of a loop over seq.
Rounds(h, loop, given, base, seq, n) ==
    /\ h[0] = base
    /\ \A k \in 1..n : h[k] = Round(loop, given, h[k - 1], seq[k])

\* The sets 1..k are those the fold of a sequence meets.
LEMMA RunInRounds ==
    ASSUME NEW loop, NEW given, NEW base, NEW seq, NEW n \in Nat, NEW f,
           IsRun(f, loop, given, base, seq, n)
    PROVE  \E h : Rounds(h, loop, given, base, seq, n) /\ h[n] = f[1..n]
<1> DEFINE h == [k \in 0..n |-> f[1..k]]
<1>1. f[1..0] = base
  <2>1. 1..0 = {} /\ 1..0 \in SUBSET (1..n)
    OBVIOUS
  <2> QED
    BY <2>1 DEF IsRun
<1>2. ASSUME NEW k \in 1..n
      PROVE  f[1..k] = Round(loop, given, f[1..(k - 1)], seq[k])
  <2>1. 1..k \in SUBSET (1..n) /\ k \in Nat \ {0}
    OBVIOUS
  <2>2. f[1..k] = IF 1..k = {} THEN base
                  ELSE Round(loop, given, f[(1..k) \ {Max(1..k)}], seq[Max(1..k)])
    BY <2>1 DEF IsRun
  <2>3. Max(1..k) = k /\ (1..k) \ {k} = 1..(k - 1) /\ 1..k # {}
    BY <2>1, PrefixMax
  <2> QED
    BY <2>2, <2>3, Zenon
<1>3. /\ h[0] = f[1..0] /\ h[n] = f[1..n]
      /\ \A k \in 1..n : h[k] = f[1..k] /\ h[k - 1] = f[1..(k - 1)]
  OBVIOUS
<1> HIDE DEF h
<1>4. Rounds(h, loop, given, base, seq, n)
  BY <1>1, <1>2, <1>3 DEF Rounds
<1> QED
  BY <1>3, <1>4

\* The loops as the compiler writes them.
FoldLoop(list, base, seq) ==
    FoldLeft(LAMBDA acc, item : Then(acc, LAMBDA a : Visit(list, item, a)), base, seq)

BodyLoop(base, seq) ==
    FoldLeft(LAMBDA acc, item : Then(acc, LAMBDA a : BodyNode(item, a)), base, seq)

NodeLoop(list, flag, base, seq) ==
    FoldLeft(LAMBDA acc, item : Then(acc, LAMBDA a : CompileNode(list, item, flag, a)),
             base, seq)

RouteLoop(flag, base, seq) ==
    FoldLeft(LAMBDA acc, item :
                 IF acc.st.err # NoError THEN acc
                 ELSE AddRoute(acc, item.route, CompileBody(item.body, flag, acc.st)),
             base, seq)

\* Any of the loops.
Loop(loop, given, base, seq) ==
    FoldLeft(LAMBDA acc, item : Round(loop, given, acc, item), base, seq)

LEMMA LoopRounds ==
    ASSUME NEW loop, NEW given, NEW base, NEW seq, NEW n \in Nat, DOMAIN seq = 1..n
    PROVE  \E h : /\ Rounds(h, loop, given, base, seq, n)
                  /\ Loop(loop, given, base, seq) = h[n]
<1> DEFINE Value(f, t) == IF t = {} THEN base
                          ELSE Round(loop, given, f[t \ {Max(t)}], seq[Max(t)])
           iter == CHOOSE f : f = [t \in SUBSET (1..n) |-> Value(f, t)]
<1>1. \E f : f = [t \in SUBSET (1..n) |-> Value(f, t)]
  <2>1. PICK f : IsRun(f, loop, given, base, seq, n)
    BY Iteration
  <2> QED
    BY <2>1, Zenon DEF IsRun
<1>2. iter = [t \in SUBSET (1..n) |-> Value(iter, t)]
  BY <1>1, Zenon
<1>3. Loop(loop, given, base, seq) = iter[1..n]
  BY Zenon DEF Loop, FoldLeft, MapThenFoldSet
<1> HIDE DEF iter
<1>4. IsRun(iter, loop, given, base, seq, n)
  BY <1>2, Zenon DEF IsRun
<1>5. PICK h : /\ Rounds(h, loop, given, base, seq, n)
               /\ h[n] = iter[1..n]
  BY <1>4, RunInRounds
<1> QED
  BY <1>3, <1>5, Zenon

LEMMA BranchRounds ==
    ASSUME NEW base, NEW seq, NEW n \in Nat, DOMAIN seq = 1..n
    PROVE  \E h : /\ Rounds(h, "branches", 0, base, seq, n)
                  /\ FoldLeft(RegisterBranch, base, seq) = h[n]
<1> DEFINE Value(f, t) == IF t = {} THEN base
                          ELSE RegisterBranch(f[t \ {Max(t)}], seq[Max(t)])
           iter == CHOOSE f : f = [t \in SUBSET (1..n) |-> Value(f, t)]
<1>1. \A acc, item : Round("branches", 0, acc, item) = RegisterBranch(acc, item)
  BY DEF Round
<1>2. \E f : f = [t \in SUBSET (1..n) |-> Value(f, t)]
  <2>1. PICK f : IsRun(f, "branches", 0, base, seq, n)
    BY Iteration
  <2>2. f = [t \in SUBSET (1..n) |-> Value(f, t)]
    BY <1>1, <2>1 DEF IsRun
  <2> QED
    BY <2>2, Zenon
<1>3. iter = [t \in SUBSET (1..n) |-> Value(iter, t)]
  BY <1>2, Zenon
<1>4. FoldLeft(RegisterBranch, base, seq) = iter[1..n]
  BY Zenon DEF FoldLeft, MapThenFoldSet
<1> HIDE DEF iter
<1>5. IsRun(iter, "branches", 0, base, seq, n)
  BY <1>1, <1>3 DEF IsRun
<1>6. PICK h : /\ Rounds(h, "branches", 0, base, seq, n)
               /\ h[n] = iter[1..n]
  BY <1>5, RunInRounds
<1> QED
  BY <1>4, <1>6, Zenon

LEMMA MergeRounds ==
    ASSUME NEW base, NEW seq, NEW n \in Nat, DOMAIN seq = 1..n
    PROVE  \E h : /\ Rounds(h, "merge", 0, base, seq, n)
                  /\ FoldLeft(Claim, base, seq) = h[n]
<1> DEFINE Value(f, t) == IF t = {} THEN base
                          ELSE Claim(f[t \ {Max(t)}], seq[Max(t)])
           iter == CHOOSE f : f = [t \in SUBSET (1..n) |-> Value(f, t)]
<1>1. \A acc, item : Round("merge", 0, acc, item) = Claim(acc, item)
  BY DEF Round
<1>2. \E f : f = [t \in SUBSET (1..n) |-> Value(f, t)]
  <2>1. PICK f : IsRun(f, "merge", 0, base, seq, n)
    BY Iteration
  <2>2. f = [t \in SUBSET (1..n) |-> Value(f, t)]
    BY <1>1, <2>1 DEF IsRun
  <2> QED
    BY <2>2, Zenon
<1>3. iter = [t \in SUBSET (1..n) |-> Value(iter, t)]
  BY <1>2, Zenon
<1>4. FoldLeft(Claim, base, seq) = iter[1..n]
  BY Zenon DEF FoldLeft, MapThenFoldSet
<1> HIDE DEF iter
<1>5. IsRun(iter, "merge", 0, base, seq, n)
  BY <1>1, <1>3 DEF IsRun
<1>6. PICK h : /\ Rounds(h, "merge", 0, base, seq, n)
               /\ h[n] = iter[1..n]
  BY <1>5, RunInRounds
<1> QED
  BY <1>4, <1>6, Zenon

LEMMA FoldRounds ==
    ASSUME NEW list, NEW base, NEW seq, NEW n \in Nat, DOMAIN seq = 1..n
    PROVE  \E h : /\ Rounds(h, "fold", list, base, seq, n)
                  /\ FoldLoop(list, base, seq) = h[n]
<1> DEFINE Value(f, t) == IF t = {} THEN base
                          ELSE Then(f[t \ {Max(t)}], LAMBDA a : Visit(list, seq[Max(t)], a))
           iter == CHOOSE f : f = [t \in SUBSET (1..n) |-> Value(f, t)]
<1>1. \A acc, item : Round("fold", list, acc, item) = Then(acc, LAMBDA a : Visit(list, item, a))
  BY DEF Round, Then
<1>2. \E f : f = [t \in SUBSET (1..n) |-> Value(f, t)]
  <2>1. PICK f : IsRun(f, "fold", list, base, seq, n)
    BY Iteration
  <2>2. f = [t \in SUBSET (1..n) |-> Value(f, t)]
    BY <1>1, <2>1 DEF IsRun, Then
  <2> QED
    BY <2>2, Zenon
<1>3. iter = [t \in SUBSET (1..n) |-> Value(iter, t)]
  BY <1>2, Zenon
<1>4. FoldLoop(list, base, seq) = iter[1..n]
  BY Zenon DEF FoldLoop, FoldLeft, MapThenFoldSet
<1> HIDE DEF iter
<1>5. IsRun(iter, "fold", list, base, seq, n)
  BY <1>1, <1>3 DEF IsRun, Then
<1>6. PICK h : /\ Rounds(h, "fold", list, base, seq, n)
               /\ h[n] = iter[1..n]
  BY <1>5, RunInRounds
<1> QED
  BY <1>4, <1>6, Zenon

LEMMA BodyRounds ==
    ASSUME NEW base, NEW seq, NEW n \in Nat, DOMAIN seq = 1..n
    PROVE  \E h : /\ Rounds(h, "body", 0, base, seq, n)
                  /\ BodyLoop(base, seq) = h[n]
<1> DEFINE Value(f, t) == IF t = {} THEN base
                          ELSE Then(f[t \ {Max(t)}], LAMBDA a : BodyNode(seq[Max(t)], a))
           iter == CHOOSE f : f = [t \in SUBSET (1..n) |-> Value(f, t)]
<1>1. \A acc, item : Round("body", 0, acc, item) = Then(acc, LAMBDA a : BodyNode(item, a))
  BY DEF Round, Then
<1>2. \E f : f = [t \in SUBSET (1..n) |-> Value(f, t)]
  <2>1. PICK f : IsRun(f, "body", 0, base, seq, n)
    BY Iteration
  <2>2. f = [t \in SUBSET (1..n) |-> Value(f, t)]
    BY <1>1, <2>1 DEF IsRun, Then
  <2> QED
    BY <2>2, Zenon
<1>3. iter = [t \in SUBSET (1..n) |-> Value(iter, t)]
  BY <1>2, Zenon
<1>4. BodyLoop(base, seq) = iter[1..n]
  BY Zenon DEF BodyLoop, FoldLeft, MapThenFoldSet
<1> HIDE DEF iter
<1>5. IsRun(iter, "body", 0, base, seq, n)
  BY <1>1, <1>3 DEF IsRun, Then
<1>6. PICK h : /\ Rounds(h, "body", 0, base, seq, n)
               /\ h[n] = iter[1..n]
  BY <1>5, RunInRounds
<1> QED
  BY <1>4, <1>6, Zenon

LEMMA NodeRounds ==
    ASSUME NEW list, NEW flag, NEW base, NEW seq, NEW n \in Nat, DOMAIN seq = 1..n
    PROVE  \E h : /\ Rounds(h, "nodes", [out |-> list, auto |-> flag], base, seq, n)
                  /\ NodeLoop(list, flag, base, seq) = h[n]
<1> DEFINE Value(f, t) == IF t = {} THEN base
                          ELSE Then(f[t \ {Max(t)}], LAMBDA a : CompileNode(list, seq[Max(t)], flag, a))
           iter == CHOOSE f : f = [t \in SUBSET (1..n) |-> Value(f, t)]
<1>1. \A acc, item : Round("nodes", [out |-> list, auto |-> flag], acc, item) = Then(acc, LAMBDA a : CompileNode(list, item, flag, a))
  BY DEF Round, Then
<1>2. \E f : f = [t \in SUBSET (1..n) |-> Value(f, t)]
  <2>1. PICK f : IsRun(f, "nodes", [out |-> list, auto |-> flag], base, seq, n)
    BY Iteration
  <2>2. f = [t \in SUBSET (1..n) |-> Value(f, t)]
    BY <1>1, <2>1 DEF IsRun, Then
  <2> QED
    BY <2>2, Zenon
<1>3. iter = [t \in SUBSET (1..n) |-> Value(iter, t)]
  BY <1>2, Zenon
<1>4. NodeLoop(list, flag, base, seq) = iter[1..n]
  BY Zenon DEF NodeLoop, FoldLeft, MapThenFoldSet
<1> HIDE DEF iter
<1>5. IsRun(iter, "nodes", [out |-> list, auto |-> flag], base, seq, n)
  BY <1>1, <1>3 DEF IsRun, Then
<1>6. PICK h : /\ Rounds(h, "nodes", [out |-> list, auto |-> flag], base, seq, n)
               /\ h[n] = iter[1..n]
  BY <1>5, RunInRounds
<1> QED
  BY <1>4, <1>6, Zenon

LEMMA RouteRounds ==
    ASSUME NEW flag, NEW base, NEW seq, NEW n \in Nat, DOMAIN seq = 1..n
    PROVE  \E h : /\ Rounds(h, "routes", flag, base, seq, n)
                  /\ RouteLoop(flag, base, seq) = h[n]
<1> DEFINE Value(f, t) == IF t = {} THEN base
                          ELSE (IF f[t \ {Max(t)}].st.err # NoError THEN f[t \ {Max(t)}]
                           ELSE AddRoute(f[t \ {Max(t)}], seq[Max(t)].route,
                                         CompileBody(seq[Max(t)].body, flag,
                                                     f[t \ {Max(t)}].st)))
           iter == CHOOSE f : f = [t \in SUBSET (1..n) |-> Value(f, t)]
<1>1. \A acc, item : Round("routes", flag, acc, item) = (
    IF acc.st.err # NoError THEN acc
    ELSE AddRoute(acc, item.route, CompileBody(item.body, flag, acc.st)))
  BY DEF Round
<1>2. \E f : f = [t \in SUBSET (1..n) |-> Value(f, t)]
  <2>1. PICK f : IsRun(f, "routes", flag, base, seq, n)
    BY Iteration
  <2>2. f = [t \in SUBSET (1..n) |-> Value(f, t)]
    BY <1>1, <2>1 DEF IsRun
  <2> QED
    BY <2>2, Zenon
<1>3. iter = [t \in SUBSET (1..n) |-> Value(iter, t)]
  BY <1>2, Zenon
<1>4. RouteLoop(flag, base, seq) = iter[1..n]
  BY Zenon DEF RouteLoop, FoldLeft, MapThenFoldSet
<1> HIDE DEF iter
<1>5. IsRun(iter, "routes", flag, base, seq, n)
  BY <1>1, <1>3 DEF IsRun
<1>6. PICK h : /\ Rounds(h, "routes", flag, base, seq, n)
               /\ h[n] = iter[1..n]
  BY <1>5, RunInRounds
<1> QED
  BY <1>4, <1>6, Zenon

VerdictLoop(candidate, base, seq) ==
    FoldLeft(LAMBDA verdict, existing :
                 IF verdict = "yes" THEN IndependentOf(existing, candidate) ELSE verdict,
             base, seq)

LEMMA VerdictRounds ==
    ASSUME NEW candidate, NEW base, NEW seq, NEW n \in Nat, DOMAIN seq = 1..n
    PROVE  \E h : /\ Rounds(h, "verdict", candidate, base, seq, n)
                  /\ VerdictLoop(candidate, base, seq) = h[n]
<1> DEFINE Value(f, t) == IF t = {} THEN base
                          ELSE (IF f[t \ {Max(t)}] = "yes" THEN IndependentOf(seq[Max(t)], candidate) ELSE f[t \ {Max(t)}])
           iter == CHOOSE f : f = [t \in SUBSET (1..n) |-> Value(f, t)]
<1>1. \A acc, item : Round("verdict", candidate, acc, item) = (IF acc = "yes" THEN IndependentOf(item, candidate) ELSE acc)
  BY Zenon DEF Round
<1>2. \E f : f = [t \in SUBSET (1..n) |-> Value(f, t)]
  <2>1. PICK f : IsRun(f, "verdict", candidate, base, seq, n)
    BY Iteration
  <2>2. f = [t \in SUBSET (1..n) |-> Value(f, t)]
    BY <1>1, <2>1 DEF IsRun
  <2> QED
    BY <2>2, Zenon
<1>3. iter = [t \in SUBSET (1..n) |-> Value(iter, t)]
  BY <1>2, Zenon
<1>4. VerdictLoop(candidate, base, seq) = iter[1..n]
  BY Zenon DEF VerdictLoop, FoldLeft, MapThenFoldSet
<1> HIDE DEF iter
<1>5. IsRun(iter, "verdict", candidate, base, seq, n)
  BY <1>1, <1>3 DEF IsRun
<1>6. PICK h : /\ Rounds(h, "verdict", candidate, base, seq, n)
               /\ h[n] = iter[1..n]
  BY <1>5, RunInRounds
<1> QED
  BY <1>4, <1>6, Zenon

LEMMA BodyMeaningRounds ==
    ASSUME NEW base, NEW seq, NEW n \in Nat, DOMAIN seq = 1..n
    PROVE  \E h : /\ Rounds(h, "mean", "body", base, seq, n)
                  /\ BodyMeaning(seq, base) = h[n]
<1> DEFINE Value(f, t) == IF t = {} THEN base
                          ELSE Through(seq[Max(t)], f[t \ {Max(t)}])
           iter == CHOOSE f : f = [t \in SUBSET (1..n) |-> Value(f, t)]
<1>1. \A acc, item : Round("mean", "body", acc, item) = Through(item, acc)
  BY Zenon DEF Round, Means
<1>2. \E f : f = [t \in SUBSET (1..n) |-> Value(f, t)]
  <2>1. PICK f : IsRun(f, "mean", "body", base, seq, n)
    BY Iteration
  <2>2. f = [t \in SUBSET (1..n) |-> Value(f, t)]
    BY <1>1, <2>1 DEF IsRun
  <2> QED
    BY <2>2, Zenon
<1>3. iter = [t \in SUBSET (1..n) |-> Value(iter, t)]
  BY <1>2, Zenon
<1>4. BodyMeaning(seq, base) = iter[1..n]
  BY Zenon DEF BodyMeaning, FoldLeft, MapThenFoldSet
<1> HIDE DEF iter
<1>5. IsRun(iter, "mean", "body", base, seq, n)
  BY <1>1, <1>3 DEF IsRun
<1>6. PICK h : /\ Rounds(h, "mean", "body", base, seq, n)
               /\ h[n] = iter[1..n]
  BY <1>5, RunInRounds
<1> QED
  BY <1>4, <1>6, Zenon

TopMeaning(base, seq) ==
    FoldLeft(LAMBDA vs, node :
                 IF node.kind = "dict" THEN RoutesMeaning(node, vs)
                 ELSE Through(node, vs),
             base, seq)

LEMMA TopMeaningRounds ==
    ASSUME NEW base, NEW seq, NEW n \in Nat, DOMAIN seq = 1..n
    PROVE  \E h : /\ Rounds(h, "mean", "top", base, seq, n)
                  /\ TopMeaning(base, seq) = h[n]
<1> DEFINE Value(f, t) == IF t = {} THEN base
                          ELSE (IF seq[Max(t)].kind = "dict" THEN RoutesMeaning(seq[Max(t)], f[t \ {Max(t)}]) ELSE Through(seq[Max(t)], f[t \ {Max(t)}]))
           iter == CHOOSE f : f = [t \in SUBSET (1..n) |-> Value(f, t)]
<1>1. \A acc, item : Round("mean", "top", acc, item) = (IF item.kind = "dict" THEN RoutesMeaning(item, acc) ELSE Through(item, acc))
  BY Zenon DEF Round, Means
<1>2. \E f : f = [t \in SUBSET (1..n) |-> Value(f, t)]
  <2>1. PICK f : IsRun(f, "mean", "top", base, seq, n)
    BY Iteration
  <2>2. f = [t \in SUBSET (1..n) |-> Value(f, t)]
    BY <1>1, <2>1 DEF IsRun
  <2> QED
    BY <2>2, Zenon
<1>3. iter = [t \in SUBSET (1..n) |-> Value(iter, t)]
  BY <1>2, Zenon
<1>4. TopMeaning(base, seq) = iter[1..n]
  BY Zenon DEF TopMeaning, FoldLeft, MapThenFoldSet
<1> HIDE DEF iter
<1>5. IsRun(iter, "mean", "top", base, seq, n)
  BY <1>1, <1>3 DEF IsRun
<1>6. PICK h : /\ Rounds(h, "mean", "top", base, seq, n)
               /\ h[n] = iter[1..n]
  BY <1>5, RunInRounds
<1> QED
  BY <1>4, <1>6, Zenon

-----------------------------------------------------------------------------
(* Sequences, of whatever.                                                 *)

IsSeq(s) == \E S : s \in Seq(S)

LEMMA SeqIs ==
    ASSUME NEW s, IsSeq(s)
    PROVE  Len(s) \in Nat /\ DOMAIN s = 1..Len(s)
BY DEF IsSeq

LEMMA ConcatIs ==
    ASSUME NEW s, IsSeq(s), NEW t, IsSeq(t)
    PROVE  /\ IsSeq(s \o t)
           /\ Len(s \o t) = Len(s) + Len(t)
           /\ \A i \in 1..Len(s) : (s \o t)[i] = s[i]
           /\ \A i \in (Len(s) + 1)..Len(s \o t) :
                  i - Len(s) \in 1..Len(t) /\ (s \o t)[i] = t[i - Len(s)]
<1>1. PICK S, T : s \in Seq(S) /\ t \in Seq(T)
  BY DEF IsSeq
<1>2. s \in Seq(S \cup T) /\ t \in Seq(S \cup T)
  BY <1>1
<1>3. s \o t \in Seq(S \cup T)
  BY <1>2
<1> QED
  BY <1>2, <1>3 DEF IsSeq

LEMMA AppendIs ==
    ASSUME NEW s, IsSeq(s), NEW x
    PROVE  /\ IsSeq(Append(s, x))
           /\ Len(Append(s, x)) = Len(s) + 1
           /\ \A i \in 1..Len(s) : Append(s, x)[i] = s[i]
           /\ Append(s, x)[Len(s) + 1] = x
<1>1. PICK S : s \in Seq(S)
  BY DEF IsSeq
<1>2. s \in Seq(S \cup {x}) /\ x \in S \cup {x}
  BY <1>1
<1>3. Append(s, x) \in Seq(S \cup {x})
  BY <1>2
<1> QED
  BY <1>2, <1>3 DEF IsSeq

LEMMA TuplesAre ==
    /\ IsSeq(<<>>) /\ Len(<<>>) = 0
    /\ \A a : IsSeq(<<a>>) /\ Len(<<a>>) = 1 /\ <<a>>[1] = a
    /\ \A a, b : /\ IsSeq(<<a, b>>) /\ Len(<<a, b>>) = 2
                 /\ <<a, b>>[1] = a /\ <<a, b>>[2] = b
<1>1. <<>> \in Seq({})
  OBVIOUS
<1>2. \A a : <<a>> \in Seq({a})
  OBVIOUS
<1>3. \A a, b : <<a, b>> \in Seq({a, b})
  OBVIOUS
<1> QED
  BY <1>1, <1>2, <1>3 DEF IsSeq

\* A loop is determined by its rounds.
LEMMA RoundsAgree ==
    ASSUME NEW loop, NEW given, NEW base, NEW s, NEW t, NEW n \in Nat, NEW m \in Nat,
           n <= m, \A k \in 1..n : s[k] = t[k],
           NEW g, Rounds(g, loop, given, base, s, n),
           NEW h, Rounds(h, loop, given, base, t, m)
    PROVE  g[n] = h[n]
<1> DEFINE S == {k \in 0..n : g[k] = h[k]}
<1>1. 0 \in S
  BY DEF Rounds
<1>2. ASSUME NEW k \in 0..(n - 1), k \in S PROVE k + 1 \in S
  <2>1. k + 1 \in 1..n /\ k + 1 \in 1..m /\ (k + 1) - 1 = k
    OBVIOUS
  <2>2. /\ g[k + 1] = Round(loop, given, g[k], s[k + 1])
        /\ h[k + 1] = Round(loop, given, h[k], t[k + 1])
    BY <2>1 DEF Rounds
  <2> QED
    BY <1>2, <2>1, <2>2
<1> HIDE DEF S
<1>3. n \in S
  BY <1>1, <1>2, UpTo
<1> QED
  BY <1>3 DEF S

LEMMA LoopGrows ==
    ASSUME NEW loop, NEW given, NEW base, NEW seq, IsSeq(seq), NEW x
    PROVE  /\ Loop(loop, given, base, <<>>) = base
           /\ Loop(loop, given, base, Append(seq, x)) =
                  Round(loop, given, Loop(loop, given, base, seq), x)
<1> DEFINE n == Len(seq)
           new == Append(seq, x)
<1>1. n \in Nat /\ DOMAIN seq = 1..n
  BY SeqIs
<1>2. /\ IsSeq(new) /\ Len(new) = n + 1 /\ DOMAIN new = 1..(n + 1)
      /\ \A i \in 1..n : new[i] = seq[i]
      /\ new[n + 1] = x
  BY AppendIs, SeqIs
<1> HIDE DEF n, new
<1>3. Loop(loop, given, base, <<>>) = base
  <2>1. DOMAIN <<>> = 1..0 /\ 0 \in Nat
    OBVIOUS
  <2>2. PICK h : Rounds(h, loop, given, base, <<>>, 0) /\ Loop(loop, given, base, <<>>) = h[0]
    BY <2>1, LoopRounds
  <2> QED
    BY <2>2 DEF Rounds
<1>4. PICK h : Rounds(h, loop, given, base, seq, n) /\ Loop(loop, given, base, seq) = h[n]
  BY <1>1, LoopRounds
<1>5. PICK g : /\ Rounds(g, loop, given, base, new, n + 1)
               /\ Loop(loop, given, base, new) = g[n + 1]
  BY <1>1, <1>2, LoopRounds
<1>6. h[n] = g[n]
  <2>1. n + 1 \in Nat /\ n <= n + 1
    BY <1>1
  <2>2. \A k \in 1..n : seq[k] = new[k]
    BY <1>2
  <2> QED
    BY <1>1, <1>4, <1>5, <2>1, <2>2, RoundsAgree
<1>7. g[n + 1] = Round(loop, given, g[n], x)
  <2>1. n + 1 \in 1..(n + 1) /\ (n + 1) - 1 = n
    BY <1>1
  <2> QED
    BY <1>2, <1>5, <2>1 DEF Rounds
<1> QED
  BY <1>3, <1>4, <1>5, <1>6, <1>7 DEF new

-----------------------------------------------------------------------------
(* Names.                                                                  *)

(***************************************************************************)
(* _node_id never gives the id of another function: an id that is in the   *)
(* symbol table already is the id of the very function.                    *)
(***************************************************************************)
LEMMA NodeIdsNeverAlias ==
    ASSUME NEW fn, NEW table, IsFiniteSet(DOMAIN table),
           NodeId(fn, table) \in DOMAIN table
    PROVE  table[NodeId(fn, table)] = fn
<1> DEFINE c == Cardinality(DOMAIN table)
           free == {n \in 2..(c + 2) : <<fn.name, n>> \notin DOMAIN table}
<1>1. c \in Nat
  BY FS_CardinalityType
<1>2. free # {}
  <2> SUFFICES ASSUME free = {} PROVE FALSE
    OBVIOUS
  <2> DEFINE ids == [n \in 2..(c + 2) |-> <<fn.name, n>>]
  <2>1. \A n \in 2..(c + 2) : <<fn.name, n>> \in DOMAIN table
    OBVIOUS
  <2>2. ids \in Injection(2..(c + 2), DOMAIN table)
    BY <2>1 DEF Injection, IsInjective
  <2>3. Cardinality(2..(c + 2)) <= c
    BY <2>2, FS_Injection
  <2>4. Cardinality(2..(c + 2)) = c + 1
    BY <1>1, FS_Interval
  <2> QED
    BY <1>1, <2>3, <2>4
<1>3. Min(free) \in free
  <2>1. free \subseteq Nat
    BY <1>1
  <2> HIDE DEF free
  <2>2. \E m \in free : \A n \in free : m <= n
    BY <1>2, <2>1, Least
  <2> QED
    BY <2>2 DEF Min
<1>4. <<fn.name, Min(free)>> \notin DOMAIN table
  BY <1>3
<1> HIDE DEF free
<1>5. NodeId(fn, table) =
          IF <<fn.name, 1>> \notin DOMAIN table THEN <<fn.name, 1>>
          ELSE IF table[<<fn.name, 1>>] = fn THEN <<fn.name, 1>>
          ELSE IF fn.qualname # fn.name /\ <<fn.qualname, 1>> \notin DOMAIN table
               THEN <<fn.qualname, 1>>
          ELSE <<fn.name, Min(free)>>
  BY Zenon DEF NodeId, free
<1> QED
  BY <1>4, <1>5

-----------------------------------------------------------------------------
(* What every pass of the compiler keeps of the code and the symbol table. *)

\* The branches of a FORK are known, and write no common key.
BranchesOK(ids, table) ==
    /\ IsSeq(ids)
    /\ \A b \in DOMAIN ids : ids[b] \in DOMAIN table
    /\ \A a, b \in DOMAIN ids :
           (/\ ids[a] # ids[b]
            /\ ~IsEmptyDecl(table[ids[a]].writes)
            /\ ~IsEmptyDecl(table[ids[b]].writes))
           => table[ids[a]].writes \cap table[ids[b]].writes = {}

\* Instruction i at ip, in code that goes on at last.
InstrOK(i, ip, last, table) ==
    /\ i.op = "jump" => i.target \in (ip + 1)..last
    /\ i.op = "route" =>
           /\ DictsHaveRoutes => DOMAIN i.targets # {}
           /\ \A r \in DOMAIN i.targets : i.targets[r] \in (ip + 1)..last
    /\ i.op = "call" => i.node \in DOMAIN table
    /\ i.op = "fork" => BranchesOK(i.branches, table)

Shaped(st) ==
    /\ st = [err |-> st.err, code |-> st.code, table |-> st.table]
    /\ IsSeq(st.code)
    /\ IsFiniteSet(DOMAIN st.table)

\* All instructions but those to be patched are final.
Sound(st, open) ==
    /\ Shaped(st)
    /\ st.err = NoError =>
           \A ip \in 1..Len(st.code) :
               ip \notin open => InstrOK(st.code[ip], ip, Len(st.code) + 1, st.table)

Extends(old, new) ==
    /\ \A id \in DOMAIN old.table :
           id \in DOMAIN new.table /\ new.table[id] = old.table[id]
    /\ Len(old.code) <= Len(new.code)
    /\ \A ip \in 1..Len(old.code) : new.code[ip] = old.code[ip]

LEMMA InstrStays ==
    ASSUME NEW i, NEW ip \in Nat, NEW last \in Nat, NEW end \in Nat, last <= end,
           NEW table, NEW new,
           \A id \in DOMAIN table : id \in DOMAIN new /\ new[id] = table[id],
           InstrOK(i, ip, last, table)
    PROVE  InstrOK(i, ip, end, new)
<1>1. (ip + 1)..last \subseteq (ip + 1)..end
  OBVIOUS
<1>2. i.op = "fork" => BranchesOK(i.branches, new)
  BY DEF InstrOK, BranchesOK
<1> QED
  BY <1>1, <1>2 DEF InstrOK

LEMMA ExtendsTransitive ==
    ASSUME NEW a, NEW b, NEW c, Extends(a, b), Extends(b, c),
           Len(a.code) \in Nat, Len(b.code) \in Nat, Len(c.code) \in Nat
    PROVE  Extends(a, c)
BY DEF Extends

LEMMA RaiseSound ==
    ASSUME NEW st, NEW open, Sound(st, open), NEW err
    PROVE  /\ Shaped(Raise(st, err))
           /\ Raise(st, err).err = err
           /\ Raise(st, err).code = st.code /\ Raise(st, err).table = st.table
           /\ Extends(st, Raise(st, err))
           /\ err # NoError => Sound(Raise(st, err), open)
<1>1. Raise(st, err) = [err |-> err, code |-> st.code, table |-> st.table]
  BY DEF Sound, Shaped, Raise
<1>2. Len(st.code) \in Nat
  BY SeqIs DEF Sound, Shaped
<1> QED
  BY <1>1, <1>2 DEF Sound, Shaped, Extends

LEMMA EmittedSound ==
    ASSUME NEW st, NEW open, Sound(st, open), NEW new, IsSeq(new),
           \A k \in 1..Len(new) :
               Len(st.code) + k \notin open =>
                   InstrOK(new[k], Len(st.code) + k,
                           Len(st.code) + Len(new) + 1, st.table)
    PROVE  /\ Sound(Emitted(st, new), open)
           /\ Extends(st, Emitted(st, new))
           /\ Emitted(st, new).err = st.err
           /\ Emitted(st, new).table = st.table
           /\ Emitted(st, new).code = st.code \o new
           /\ Len(Emitted(st, new).code) = Len(st.code) + Len(new)
<1> DEFINE res == Emitted(st, new)
<1>1. res = [err |-> st.err, code |-> st.code \o new, table |-> st.table]
  <2> DEFINE code == st.code \o new
  <2>1. st = [err |-> st.err, code |-> st.code, table |-> st.table]
    BY DEF Sound, Shaped
  <2>2. Emitted(st, new) = [st EXCEPT !.code = code]
    BY Zenon DEF Emitted
  <2> HIDE DEF code, res
  <2>3. [st EXCEPT !.code = code] = [err |-> st.err, code |-> code, table |-> st.table]
    BY <2>1
  <2> QED
    BY <2>2, <2>3 DEF code, res
<1>2. /\ Len(st.code) \in Nat /\ Len(new) \in Nat
      /\ IsSeq(res.code) /\ Len(res.code) = Len(st.code) + Len(new)
      /\ \A i \in 1..Len(st.code) : res.code[i] = st.code[i]
      /\ \A i \in (Len(st.code) + 1)..Len(res.code) :
             /\ i - Len(st.code) \in 1..Len(new)
             /\ res.code[i] = new[i - Len(st.code)]
  <2>1. IsSeq(st.code) /\ res.code = st.code \o new
    BY <1>1 DEF Sound, Shaped
  <2>2. Len(st.code) \in Nat /\ Len(new) \in Nat
    BY <2>1, SeqIs
  <2> HIDE DEF res
  <2> QED
    BY <2>1, <2>2, ConcatIs
<1>3. ASSUME NEW ip \in 1..Len(res.code), ip \notin open, res.err = NoError
      PROVE  InstrOK(res.code[ip], ip, Len(res.code) + 1, res.table)
  <2>1. CASE ip <= Len(st.code)
    <3>1. ip \in 1..Len(st.code) /\ res.code[ip] = st.code[ip]
      BY <1>2, <2>1
    <3>2. InstrOK(st.code[ip], ip, Len(st.code) + 1, st.table)
      BY <1>1, <1>3, <3>1 DEF Sound
    <3>3. /\ ip \in Nat /\ Len(st.code) + 1 \in Nat /\ Len(res.code) + 1 \in Nat
          /\ Len(st.code) + 1 <= Len(res.code) + 1
      BY <1>2
    <3> HIDE DEF res
    <3> QED
      BY <1>1, <3>1, <3>2, <3>3, InstrStays
  <2>2. CASE ip > Len(st.code)
    <3>1. ip \in (Len(st.code) + 1)..Len(res.code)
      BY <1>2, <2>2
    <3> DEFINE k == ip - Len(st.code)
    <3>2. k \in 1..Len(new) /\ res.code[ip] = new[k]
      BY <1>2, <3>1
    <3>3. ip = Len(st.code) + k
      BY <1>2, <3>1
    <3> HIDE DEF res, k
    <3>4. InstrOK(new[k], ip, Len(st.code) + Len(new) + 1, st.table)
      BY <1>3, <3>2, <3>3
    <3> QED
      BY <1>1, <1>2, <3>2, <3>4
  <2> QED
    BY <1>2, <2>1, <2>2
<1>4. Extends(st, res)
  BY <1>1, <1>2 DEF Extends
<1>5. Sound(res, open)
  BY <1>1, <1>2, <1>3 DEF Sound, Shaped
<1> QED
  BY <1>1, <1>2, <1>4, <1>5

LEMMA RegisterSound ==
    ASSUME NEW st, NEW open, Sound(st, open), NEW fn
    PROVE  /\ Sound(Register(fn, st), open)
           /\ Extends(st, Register(fn, st))
           /\ Register(fn, st).code = st.code
           /\ Register(fn, st).err = NoError =>
                  /\ NodeId(fn, st.table) \in DOMAIN Register(fn, st).table
                  /\ Register(fn, st).table[NodeId(fn, st.table)] = fn
<1> DEFINE id == NodeId(fn, st.table)
           table == [k \in {id} \cup DOMAIN st.table |->
                        IF k = id THEN fn ELSE st.table[k]]
<1>0. Len(st.code) \in Nat
  BY SeqIs DEF Sound, Shaped
<1>1. CASE fn.kind # "stage"
  BY <1>1, RaiseSound, NoErrorIsNone DEF Register
<1>2. CASE fn.kind = "stage"
  <2>1. Register(fn, st) = [err |-> st.err, code |-> st.code, table |-> table]
    BY <1>2 DEF Register, Sound, Shaped
  <2>2. /\ IsFiniteSet(DOMAIN table) /\ id \in DOMAIN table /\ table[id] = fn
    BY FS_AddElement DEF Sound, Shaped
  <2>3. \A k \in DOMAIN st.table : k \in DOMAIN table /\ table[k] = st.table[k]
    BY NodeIdsNeverAlias DEF Sound, Shaped
  <2> HIDE DEF table
  <2>4. ASSUME NEW ip \in 1..Len(st.code), ip \notin open, st.err = NoError
        PROVE  InstrOK(st.code[ip], ip, Len(st.code) + 1, table)
    <3>1. InstrOK(st.code[ip], ip, Len(st.code) + 1, st.table)
      BY <2>4 DEF Sound
    <3>2. ip \in Nat /\ Len(st.code) + 1 \in Nat /\ Len(st.code) + 1 <= Len(st.code) + 1
      BY <1>0
    <3> QED
      BY <2>3, <3>1, <3>2, InstrStays
  <2>5. Sound(Register(fn, st), open)
    BY <2>1, <2>2, <2>4 DEF Sound, Shaped
  <2>6. Extends(st, Register(fn, st))
    BY <1>0, <2>1, <2>3 DEF Extends
  <2> QED
    BY <2>1, <2>2, <2>5, <2>6
<1> QED
  BY <1>1, <1>2

-----------------------------------------------------------------------------
(* Stages and blocks.                                                      *)

\* Instructions that name one node, and address nothing.
Plain(code, id) ==
    /\ IsSeq(code)
    /\ \A k \in 1..Len(code) :
           /\ code[k].op \notin {"jump", "route", "fork"}
           /\ code[k].op = "call" => code[k].node = id

LEMMA PlainConcat ==
    ASSUME NEW a, NEW b, NEW id, Plain(a, id), Plain(b, id)
    PROVE  Plain(a \o b, id)
<1>1. /\ IsSeq(a \o b) /\ Len(a \o b) = Len(a) + Len(b)
      /\ Len(a) \in Nat /\ Len(b) \in Nat
      /\ \A i \in 1..Len(a) : (a \o b)[i] = a[i]
      /\ \A i \in (Len(a) + 1)..Len(a \o b) :
             i - Len(a) \in 1..Len(b) /\ (a \o b)[i] = b[i - Len(a)]
  BY ConcatIs, SeqIs DEF Plain
<1>2. ASSUME NEW k \in 1..Len(a \o b)
      PROVE  k \in 1..Len(a) \/ k \in (Len(a) + 1)..Len(a \o b)
  BY <1>1
<1>3. ASSUME NEW k \in 1..Len(a \o b)
      PROVE  /\ (a \o b)[k].op \notin {"jump", "route", "fork"}
             /\ (a \o b)[k].op = "call" => (a \o b)[k].node = id
  <2>1. CASE k \in 1..Len(a)
    BY <1>1, <2>1 DEF Plain
  <2>2. CASE k \in (Len(a) + 1)..Len(a \o b)
    <3> DEFINE j == k - Len(a)
    <3>1. j \in 1..Len(b) /\ (a \o b)[k] = b[j]
      BY <1>1, <2>2
    <3> HIDE DEF j
    <3> QED
      BY <3>1 DEF Plain
  <2> QED
    BY <1>2, <2>1, <2>2
<1> QED
  BY <1>1, <1>3 DEF Plain

LEMMA StageCodePlain ==
    ASSUME NEW fn, NEW id
    PROVE  Plain(StageCode(fn, id), id)
<1> DEFINE a == <<Checkpoint(id), Emit("step_start", id)>>
           b == IF fn.input THEN <<ValidateInput(id)>> ELSE <<>>
           c == <<Call(id)>>
           d == IF fn.output THEN <<ValidateOutput(id)>> ELSE <<>>
           e == <<Emit("step_end", id)>>
<1>1. Plain(a, id)
  <2>1. IsSeq(a) /\ Len(a) = 2 /\ a[1] = Checkpoint(id) /\ a[2] = Emit("step_start", id)
    BY TuplesAre
  <2>2. \A k \in 1..2 : k = 1 \/ k = 2
    OBVIOUS
  <2> HIDE DEF a
  <2> QED
    BY <2>1, <2>2 DEF Plain, Checkpoint, Emit
<1>2. Plain(<<>>, id)
  BY TuplesAre DEF Plain
<1>3. ASSUME NEW i, i.op \notin {"jump", "route", "fork"}, i.op = "call" => i.node = id
      PROVE  Plain(<<i>>, id)
  <2>1. IsSeq(<<i>>) /\ Len(<<i>>) = 1 /\ <<i>>[1] = i
    BY TuplesAre
  <2>2. \A k \in 1..1 : k = 1
    OBVIOUS
  <2> QED
    BY <1>3, <2>1, <2>2 DEF Plain
<1>4. Plain(b, id) /\ Plain(d, id)
  BY <1>2, <1>3 DEF ValidateInput, ValidateOutput
<1>5. Plain(c, id) /\ Plain(e, id)
  BY <1>3 DEF Call, Emit
<1>6. StageCode(fn, id) = a \o b \o c \o d \o e
  BY Zenon DEF StageCode
<1> HIDE DEF a, b, c, d, e
<1>7. Plain(a \o b, id)
  BY <1>1, <1>4, PlainConcat
<1>8. Plain(a \o b \o c, id)
  BY <1>5, <1>7, PlainConcat
<1>9. Plain(a \o b \o c \o d, id)
  BY <1>4, <1>8, PlainConcat
<1>10. Plain(a \o b \o c \o d \o e, id)
  BY <1>5, <1>9, PlainConcat
<1> QED
  BY <1>6, <1>10

LEMMA SoundLen ==
    ASSUME NEW st, NEW open, Sound(st, open)
    PROVE  Len(st.code) \in Nat
BY SeqIs DEF Sound, Shaped

LEMMA ExtendsTrans ==
    ASSUME NEW a, NEW b, NEW c, NEW open, NEW more, NEW most,
           Sound(a, open), Sound(b, more), Sound(c, most),
           Extends(a, b), Extends(b, c)
    PROVE  Extends(a, c)
BY SoundLen, ExtendsTransitive

LEMMA StageSound ==
    ASSUME NEW st, NEW open, Sound(st, open), NEW fn
    PROVE  Sound(CompileStage(fn, st), open) /\ Extends(st, CompileStage(fn, st))
<1> DEFINE new == Register(fn, st)
           id == NodeId(fn, st.table)
           code == StageCode(fn, id)
<1>1. CompileStage(fn, st) = IF new.err = NoError THEN Emitted(new, code) ELSE new
  BY Zenon DEF CompileStage, Then
<1>2. /\ Sound(new, open) /\ Extends(st, new)
      /\ new.err = NoError => id \in DOMAIN new.table
  BY RegisterSound
<1> HIDE DEF new, id
<1>3. CASE new.err = NoError
  <2>1. IsSeq(code) /\ Plain(code, id)
    BY StageCodePlain DEF Plain
  <2> HIDE DEF code
  <2>2. \A k \in 1..Len(code) :
            InstrOK(code[k], Len(new.code) + k, Len(new.code) + Len(code) + 1, new.table)
    BY <1>2, <1>3, <2>1 DEF Plain, InstrOK
  <2>3. Sound(Emitted(new, code), open) /\ Extends(new, Emitted(new, code))
    BY <1>2, <2>1, <2>2, EmittedSound
  <2> QED
    BY <1>1, <1>2, <1>3, <2>3, ExtendsTrans
<1> QED
  BY <1>1, <1>2, <1>3

\* The branches registered so far have their ids.
Registered(acc, st, open, fns, k) ==
    /\ acc = [st |-> acc.st, ids |-> acc.ids]
    /\ Sound(acc.st, open) /\ Extends(st, acc.st) /\ acc.st.code = st.code
    /\ IsSeq(acc.ids)
    /\ acc.st.err = NoError =>
           /\ Len(acc.ids) = k
           /\ \A b \in 1..k : /\ acc.ids[b] \in DOMAIN acc.st.table
                              /\ acc.st.table[acc.ids[b]] = fns[b]

LEMMA BranchRegistered ==
    ASSUME NEW st, NEW open, Sound(st, open), NEW fns, NEW k \in Nat,
           NEW acc, Registered(acc, st, open, fns, k)
    PROVE  Registered(RegisterBranch(acc, fns[k + 1]), st, open, fns, k + 1)
<1> DEFINE fn == fns[k + 1]
           id == NodeId(fn, acc.st.table)
           reg == Register(fn, acc.st)
<1>1. CASE acc.st.err # NoError
  BY <1>1 DEF RegisterBranch, Registered
<1>2. CASE acc.st.err = NoError
  <2>1. RegisterBranch(acc, fn) = [st |-> reg, ids |-> Append(acc.ids, id)]
    BY <1>2, Zenon DEF RegisterBranch
  <2>2. /\ Sound(reg, open) /\ Extends(acc.st, reg) /\ reg.code = acc.st.code
        /\ reg.err = NoError => id \in DOMAIN reg.table /\ reg.table[id] = fn
    BY RegisterSound DEF Registered
  <2> HIDE DEF id, reg
  <2>3. Extends(st, reg)
    BY <2>2, ExtendsTrans DEF Registered
  <2>4. /\ IsSeq(Append(acc.ids, id)) /\ Len(Append(acc.ids, id)) = k + 1
        /\ \A b \in 1..k : Append(acc.ids, id)[b] = acc.ids[b]
        /\ Append(acc.ids, id)[k + 1] = id
    BY <1>2, AppendIs DEF Registered
  <2>5. ASSUME reg.err = NoError, NEW b \in 1..(k + 1)
        PROVE  /\ Append(acc.ids, id)[b] \in DOMAIN reg.table
               /\ reg.table[Append(acc.ids, id)[b]] = fns[b]
    <3>1. CASE b = k + 1
      BY <2>2, <2>4, <2>5, <3>1
    <3>2. CASE b # k + 1
      <4>1. b \in 1..k
        BY <3>2
      <4> QED
        BY <1>2, <2>2, <2>4, <4>1 DEF Registered, Extends
    <3> QED
      BY <3>1, <3>2
  <2> QED
    BY <2>1, <2>2, <2>3, <2>4, <2>5 DEF Registered
<1> QED
  BY <1>1, <1>2

LEMMA BlockCodeIs ==
    ASSUME NEW ids, NEW mode, NEW ip \in Nat, NEW last, NEW table, BranchesOK(ids, table)
    PROVE  /\ IsSeq(BlockCode(ids, mode))
           /\ \A k \in 1..Len(BlockCode(ids, mode)) :
                  InstrOK(BlockCode(ids, mode)[k], ip, last, table)
<1> DEFINE a == <<EmitBranch(ids), Fork(ids, mode)>>
           b == IF mode = "parallel" THEN <<Join>> ELSE <<>>
<1>1. /\ IsSeq(a) /\ Len(a) = 2 /\ a[1] = EmitBranch(ids) /\ a[2] = Fork(ids, mode)
  BY TuplesAre
<1>2. IsSeq(b) /\ Len(b) \in {0, 1} /\ (Len(b) = 1 => b[1] = Join)
  BY TuplesAre
<1>3. BlockCode(ids, mode) = a \o b
  BY Zenon DEF BlockCode
<1> HIDE DEF a, b
<1>4. /\ IsSeq(a \o b) /\ Len(a \o b) = 2 + Len(b)
      /\ (a \o b)[1] = a[1] /\ (a \o b)[2] = a[2]
      /\ Len(b) = 1 => (a \o b)[3] = b[1]
  <2>1. /\ \A i \in 1..Len(a) : (a \o b)[i] = a[i]
        /\ \A i \in (Len(a) + 1)..Len(a \o b) : (a \o b)[i] = b[i - Len(a)]
        /\ IsSeq(a \o b) /\ Len(a \o b) = Len(a) + Len(b)
    BY <1>1, <1>2, ConcatIs
  <2>2. 1 \in 1..2 /\ 2 \in 1..2 /\ 3 \in (2 + 1)..(2 + 1) /\ 3 - 2 = 1
    OBVIOUS
  <2>3. Len(a \o b) = 2 + Len(b) /\ (a \o b)[1] = a[1] /\ (a \o b)[2] = a[2]
    BY <1>1, <2>1, <2>2
  <2>4. Len(b) = 1 => (a \o b)[3] = b[1]
    BY <1>1, <2>1, <2>2
  <2> QED
    BY <2>1, <2>3, <2>4
<1>5. /\ InstrOK(EmitBranch(ids), ip, last, table)
      /\ InstrOK(Fork(ids, mode), ip, last, table)
      /\ InstrOK(Join, ip, last, table)
  BY DEF InstrOK, EmitBranch, Fork, Join
<1>6. ASSUME NEW k \in 1..Len(a \o b)
      PROVE  k = 1 \/ k = 2 \/ (k = 3 /\ Len(b) = 1)
  <2>1. CASE Len(b) = 0
    <3>1. k \in 1..2
      BY <1>4, <2>1
    <3> QED
      BY <3>1
  <2>2. CASE Len(b) = 1
    <3>1. k \in 1..3
      BY <1>4, <2>2
    <3> QED
      BY <2>2, <3>1
  <2> QED
    BY <1>2, <2>1, <2>2
<1> QED
  BY <1>1, <1>2, <1>3, <1>4, <1>5, <1>6

LEMMA BranchesRegistered ==
    ASSUME NEW st, NEW open, Sound(st, open), NEW fns, IsSeq(fns)
    PROVE  Registered(FoldLeft(RegisterBranch, [st |-> st, ids |-> <<>>], fns),
                      st, open, fns, Len(fns))
<1> DEFINE base == [st |-> st, ids |-> <<>>]
           n == Len(fns)
<1>1. n \in Nat /\ DOMAIN fns = 1..n
  BY SeqIs
<1>2. Registered(base, st, open, fns, 0)
  <2>1. Extends(st, st)
    BY DEF Extends
  <2> QED
    BY <2>1, TuplesAre DEF Registered
<1> HIDE DEF base, n
<1>3. PICK h : /\ Rounds(h, "branches", 0, base, fns, n)
               /\ FoldLeft(RegisterBranch, base, fns) = h[n]
  BY <1>1, BranchRounds
<1> DEFINE S == {k \in 0..n : Registered(h[k], st, open, fns, k)}
<1>4. 0 \in S
  BY <1>1, <1>2, <1>3 DEF Rounds
<1>5. ASSUME NEW k \in 0..(n - 1), k \in S PROVE k + 1 \in S
  <2>1. k + 1 \in 1..n /\ (k + 1) - 1 = k /\ k \in Nat
    BY <1>1
  <2>2. h[k + 1] = Round("branches", 0, h[k], fns[k + 1])
    BY <1>3, <2>1 DEF Rounds
  <2>3. h[k + 1] = RegisterBranch(h[k], fns[k + 1])
    BY <2>2 DEF Round
  <2>4. Registered(h[k], st, open, fns, k)
    BY <1>5
  <2>5. Registered(h[k + 1], st, open, fns, k + 1)
    BY <2>1, <2>3, <2>4, BranchRegistered
  <2> QED
    BY <1>1, <2>1, <2>5
<1> HIDE DEF S
<1>6. n \in S
  BY <1>1, <1>4, <1>5, UpTo
<1>7. Registered(h[n], st, open, fns, n)
  BY <1>6 DEF S
<1> QED
  BY <1>3, <1>7 DEF base, n

LEMMA ParallelSound ==
    ASSUME NEW st, NEW open, Sound(st, open), NEW block, IsSeq(block.branches)
    PROVE  /\ Sound(CompileParallel(block, st), open)
           /\ Extends(st, CompileParallel(block, st))
<1> DEFINE all == FoldLeft(RegisterBranch, [st |-> st, ids |-> <<>>], block.branches)
           n == Len(block.branches)
           conflict == WriteConflict(block.branches, all.ids)
           code == BlockCode(all.ids, block.mode)
<1>1. Registered(all, st, open, block.branches, n)
  BY BranchesRegistered
<1>2. CompileParallel(block, st) =
          IF all.st.err = NoError
          THEN IF conflict THEN Raise(all.st, "WriteConflict") ELSE Emitted(all.st, code)
          ELSE all.st
  BY Zenon DEF CompileParallel, EmitBlock, Then
<1>3. Sound(all.st, open) /\ Extends(st, all.st)
  BY <1>1 DEF Registered
<1>4. CASE all.st.err = NoError /\ conflict
  <2>1. CompileParallel(block, st) = Raise(all.st, "WriteConflict")
    BY <1>2, <1>4, Zenon
  <2>2. Sound(Raise(all.st, "WriteConflict"), open) /\ Extends(all.st, Raise(all.st, "WriteConflict"))
    BY <1>3, RaiseSound, NoErrorIsNone
  <2> HIDE DEF all
  <2>3. Extends(st, Raise(all.st, "WriteConflict"))
    BY <1>3, <2>2, ExtendsTrans
  <2> QED
    BY <2>1, <2>2, <2>3
<1>5. CASE all.st.err = NoError /\ ~conflict
  <2>1. /\ n \in Nat /\ DOMAIN block.branches = 1..n /\ DOMAIN all.ids = 1..n
        /\ IsSeq(all.ids)
        /\ \A b \in 1..n : /\ all.ids[b] \in DOMAIN all.st.table
                           /\ all.st.table[all.ids[b]] = block.branches[b]
    <3> HIDE DEF all, n
    <3>1. IsSeq(all.ids) /\ Len(all.ids) = n
      BY <1>1, <1>5 DEF Registered
    <3>2. n \in Nat /\ DOMAIN block.branches = 1..n
      BY SeqIs DEF n
    <3>3. DOMAIN all.ids = 1..n
      BY <3>1, SeqIs
    <3>4. \A b \in 1..n : /\ all.ids[b] \in DOMAIN all.st.table
                         /\ all.st.table[all.ids[b]] = block.branches[b]
      BY <1>1, <1>5 DEF Registered
    <3> QED
      BY <3>1, <3>2, <3>3, <3>4
  <2>2. BranchesOK(all.ids, all.st.table)
    <3>1. \A i, j \in DOMAIN block.branches :
              (/\ all.ids[i] # all.ids[j]
               /\ ~IsEmptyDecl(block.branches[i].writes)
               /\ ~IsEmptyDecl(block.branches[j].writes))
              => block.branches[i].writes \cap block.branches[j].writes = {}
      <4> HIDE DEF all
      <4> QED
        BY <1>5, Zenon DEF WriteConflict
    <3> HIDE DEF all, n
    <3> QED
      BY <2>1, <3>1, SMTT(30) DEF BranchesOK
  <2>3. /\ IsSeq(code)
        /\ \A ip \in Nat : \A last : \A k \in 1..Len(code) :
               InstrOK(code[k], ip, last, all.st.table)
    <3> HIDE DEF all
    <3> QED
      BY <2>2, BlockCodeIs
  <2>4. CompileParallel(block, st) = Emitted(all.st, code)
    BY <1>2, <1>5, Zenon
  <2> HIDE DEF all, code
  <2>5. /\ Len(all.st.code) \in Nat /\ Len(code) \in Nat
    BY <1>3, <2>3, SoundLen, SeqIs
  <2>6. Sound(Emitted(all.st, code), open) /\ Extends(all.st, Emitted(all.st, code))
    <3>1. ASSUME NEW k \in 1..Len(code)
          PROVE  InstrOK(code[k], Len(all.st.code) + k,
                         Len(all.st.code) + Len(code) + 1, all.st.table)
      <4>1. Len(all.st.code) + k \in Nat
        BY <2>5
      <4> QED
        BY <2>3, <4>1
    <3> QED
      BY <1>3, <2>3, <3>1, EmittedSound
  <2>7. Extends(st, Emitted(all.st, code))
    BY <1>3, <2>6, ExtendsTrans
  <2> QED
    BY <2>4, <2>6, <2>7
<1>6. CASE all.st.err # NoError
  BY <1>2, <1>3, <1>6
<1> QED
  BY <1>4, <1>5, <1>6

-----------------------------------------------------------------------------
(* Auto-parallelism: what the fold gives is made of the nodes it was given *)
(* and of blocks of stages.                                                *)

IsNode(n) == n \in Nodes \/ (n.kind = "parallel" /\ IsSeq(n.branches))

ListOK(list) == IsSeq(list) /\ \A k \in 1..Len(list) : IsNode(list[k])

LEMMA ListGrows ==
    ASSUME NEW list, ListOK(list), NEW n, IsNode(n)
    PROVE  ListOK(Append(list, n))
<1>1. /\ IsSeq(Append(list, n)) /\ Len(Append(list, n)) = Len(list) + 1
      /\ \A i \in 1..Len(list) : Append(list, n)[i] = list[i]
      /\ Append(list, n)[Len(list) + 1] = n
  BY AppendIs DEF ListOK
<1>2. Len(list) \in Nat
  BY SeqIs DEF ListOK
<1>3. \A k \in 1..Len(Append(list, n)) : k \in 1..Len(list) \/ k = Len(list) + 1
  BY <1>1, <1>2
<1> QED
  BY <1>1, <1>3 DEF ListOK

\* The accumulator of _auto_parallelize.
Folding(acc) ==
    /\ acc = [err |-> acc.err, out |-> acc.out, group |-> acc.group]
    /\ ListOK(acc.out)
    /\ acc.group \in Seq(Nodes)

LEMMA FoldingWith ==
    ASSUME NEW acc, Folding(acc), NEW x
    PROVE  /\ [acc EXCEPT !.group = x] = [err |-> acc.err, out |-> acc.out, group |-> x]
           /\ [acc EXCEPT !.out = x] = [err |-> acc.err, out |-> x, group |-> acc.group]
BY DEF Folding

LEMMA FlushFolds ==
    ASSUME NEW acc, Folding(acc)
    PROVE  Folding(Flush(acc)) /\ Flush(acc).group = <<>> /\ Flush(acc).err = acc.err
<1> DEFINE node == IF Len(acc.group) > 1
                   THEN [kind |-> "parallel", branches |-> acc.group, mode |-> "parallel"]
                   ELSE acc.group[1]
<1>1. Flush(acc) = IF acc.group = <<>> THEN acc
                   ELSE [acc EXCEPT !.out = Append(@, node), !.group = <<>>]
  BY Zenon DEF Flush
<1>2. CASE acc.group = <<>>
  BY <1>1, <1>2
<1>3. CASE acc.group # <<>>
  <2>1. IsNode(node)
    <3>1. acc.group \in Seq(Nodes) /\ Len(acc.group) \in Nat \ {0}
      BY <1>3 DEF Folding
    <3>2. CASE Len(acc.group) > 1
      BY <3>1, <3>2 DEF IsNode, IsSeq
    <3>3. CASE ~(Len(acc.group) > 1)
      BY <3>1, <3>3 DEF IsNode
    <3> QED
      BY <3>2, <3>3
  <2> HIDE DEF node
  <2>2. ListOK(Append(acc.out, node))
    BY <2>1, ListGrows DEF Folding
  <2>3. Flush(acc) = [err |-> acc.err, out |-> Append(acc.out, node), group |-> <<>>]
    BY <1>1, <1>3 DEF Folding
  <2> QED
    BY <2>2, <2>3 DEF Folding
<1> QED
  BY <1>2, <1>3

LEMMA VisitFolds ==
    ASSUME NEW acc, Folding(acc), NEW list \in Seq(Nodes), NEW i \in 1..Len(list)
    PROVE  Folding(Visit(list, i, acc))
<1> DEFINE verdict == Verdict(acc.group, list[i])
<1>1. list[i] \in Nodes
  OBVIOUS
<1>2. Folding(Flush(acc))
  BY FlushFolds
<1>3. Folding(Raise(acc, verdict))
  <2>1. Raise(acc, verdict) = [err |-> verdict, out |-> acc.out, group |-> acc.group]
    BY DEF Raise, Folding
  <2> HIDE DEF verdict
  <2> QED
    BY <2>1 DEF Folding
<1>4. Folding([acc EXCEPT !.group = Append(@, list[i])])
  <2>1. Append(acc.group, list[i]) \in Seq(Nodes)
    BY <1>1 DEF Folding
  <2>2. [acc EXCEPT !.group = Append(@, list[i])]
            = [err |-> acc.err, out |-> acc.out, group |-> Append(acc.group, list[i])]
    BY FoldingWith
  <2> QED
    BY <2>1, <2>2 DEF Folding
<1>5. Folding([Flush(acc) EXCEPT !.group = <<list[i]>>])
  <2> DEFINE new == Flush(acc)
  <2>1. Folding(new)
    BY <1>2
  <2> HIDE DEF new
  <2>2. [new EXCEPT !.group = <<list[i]>>]
            = [err |-> new.err, out |-> new.out, group |-> <<list[i]>>]
    BY <2>1 DEF Folding
  <2>3. <<list[i]>> \in Seq(Nodes)
    BY <1>1
  <2>4. Folding([new EXCEPT !.group = <<list[i]>>])
    BY <2>1, <2>2, <2>3 DEF Folding
  <2> QED
    BY <2>4 DEF new
<1>6. Folding([Flush(acc) EXCEPT !.out = Append(@, list[i])])
  <2> DEFINE new == Flush(acc)
  <2>1. Folding(new)
    BY <1>2
  <2> HIDE DEF new
  <2>2. [new EXCEPT !.out = Append(@, list[i])]
            = [err |-> new.err, out |-> Append(new.out, list[i]), group |-> new.group]
    BY <2>1, FoldingWith
  <2>3. ListOK(Append(new.out, list[i]))
    BY <1>1, <2>1, ListGrows DEF Folding, IsNode
  <2>4. Folding([new EXCEPT !.out = Append(@, list[i])])
    BY <2>1, <2>2, <2>3 DEF Folding
  <2> QED
    BY <2>4 DEF new
<1>7. Visit(list, i, acc) \in {Raise(acc, verdict),
                              [acc EXCEPT !.group = Append(@, list[i])],
                              [Flush(acc) EXCEPT !.group = <<list[i]>>],
                              [Flush(acc) EXCEPT !.out = Append(@, list[i])]}
  BY Zenon DEF Visit, Placed
<1> HIDE DEF verdict
<1> QED
  BY <1>3, <1>4, <1>5, <1>6, <1>7

LEMMA NormalizeKeepsNodes ==
    ASSUME NEW list \in Seq(Nodes), NEW flag
    PROVE  ListOK(Normalize(list, flag).out)
<1> DEFINE base == [err |-> NoError, out |-> <<>>, group |-> <<>>]
           seq == [i \in DOMAIN list |-> i]
           n == Len(list)
           fold == FoldLoop(list, base, seq)
<1>1. n \in Nat /\ DOMAIN seq = 1..n /\ DOMAIN list = 1..n
  OBVIOUS
<1>2. Folding(base)
  BY TuplesAre DEF Folding, ListOK
<1>3. PICK h : Rounds(h, "fold", list, base, seq, n) /\ fold = h[n]
  <2> HIDE DEF base, seq, n
  <2> QED
    BY <1>1, FoldRounds
<1> DEFINE S == {k \in 0..n : Folding(h[k])}
<1>4. 0 \in S
  <2> HIDE DEF base, seq, fold
  <2> QED
    BY <1>1, <1>2, <1>3 DEF Rounds
<1>5. ASSUME NEW k \in 0..(n - 1), k \in S PROVE k + 1 \in S
  <2>1. k + 1 \in 1..n /\ (k + 1) - 1 = k /\ seq[k + 1] = k + 1
    BY <1>1
  <2>2. h[k + 1] = Round("fold", list, h[k], k + 1)
    BY <1>3, <2>1 DEF Rounds
  <2>3. h[k + 1] = IF h[k].err = NoError THEN Visit(list, k + 1, h[k]) ELSE h[k]
    BY <2>2, Zenon DEF Round, Then
  <2>4. Folding(Visit(list, k + 1, h[k]))
    BY <1>5, <2>1, VisitFolds
  <2>5. Folding(h[k + 1])
    BY <1>5, <2>3, <2>4
  <2> QED
    BY <1>1, <2>1, <2>5
<1>6. n \in S
  <2> HIDE DEF S, n
  <2> QED
    BY <1>1, <1>4, <1>5, UpTo
<1>7. Folding(fold)
  <2> HIDE DEF fold
  <2> QED
    BY <1>3, <1>6
<1>8. AutoParallelize(list) = IF fold.err = NoError THEN Flush(fold) ELSE fold
  BY Zenon DEF AutoParallelize, Then, FoldLoop
<1>9. ListOK(AutoParallelize(list).out)
  <2> HIDE DEF fold
  <2> QED
    BY <1>7, <1>8, FlushFolds DEF Folding
<1>10. ListOK(list)
  BY DEF ListOK, IsNode, IsSeq
<1> QED
  BY <1>9, <1>10 DEF Normalize

-----------------------------------------------------------------------------
(* The bodies of the routes, and the ROUTE that leads to them.             *)

LEMMA ExtendsItself == ASSUME NEW st PROVE Extends(st, st)
BY DEF Extends

LEMMA BodyNodeSound ==
    ASSUME NEW st, NEW open, Sound(st, open), NEW node, IsNode(node)
    PROVE  Sound(BodyNode(node, st), open) /\ Extends(st, BodyNode(node, st))
<1>1. CASE node.kind = "parallel"
  <2>1. IsSeq(node.branches)
    BY <1>1, NodesTyped DEF IsNode, IsSeq
  <2> QED
    BY <1>1, <2>1, ParallelSound DEF BodyNode
<1>2. CASE node.kind # "parallel"
  BY <1>2, StageSound DEF BodyNode
<1> QED
  BY <1>1, <1>2

LEMMA BodyLoopSound ==
    ASSUME NEW st, NEW open, Sound(st, open), NEW list, ListOK(list)
    PROVE  Sound(BodyLoop(st, list), open) /\ Extends(st, BodyLoop(st, list))
<1> DEFINE n == Len(list)
<1>1. n \in Nat /\ DOMAIN list = 1..n
  BY SeqIs DEF ListOK
<1> HIDE DEF n
<1>2. PICK h : Rounds(h, "body", 0, st, list, n) /\ BodyLoop(st, list) = h[n]
  BY <1>1, BodyRounds
<1> DEFINE S == {k \in 0..n : Sound(h[k], open) /\ Extends(st, h[k])}
<1>3. 0 \in S
  BY <1>1, <1>2, ExtendsItself DEF Rounds
<1>4. ASSUME NEW k \in 0..(n - 1), k \in S PROVE k + 1 \in S
  <2>1. k + 1 \in 1..n /\ (k + 1) - 1 = k
    BY <1>1
  <2>2. h[k + 1] = Round("body", 0, h[k], list[k + 1])
    BY <1>2, <2>1 DEF Rounds
  <2>3. h[k + 1] = IF h[k].err = NoError THEN BodyNode(list[k + 1], h[k]) ELSE h[k]
    BY <2>2, Zenon DEF Round, Then
  <2>4. IsNode(list[k + 1])
    BY <2>1 DEF ListOK, n
  <2>5. /\ Sound(BodyNode(list[k + 1], h[k]), open)
        /\ Extends(h[k], BodyNode(list[k + 1], h[k]))
    BY <1>4, <2>4, BodyNodeSound
  <2>6. Sound(h[k + 1], open) /\ Extends(st, h[k + 1])
    BY <1>4, <2>3, <2>5, ExtendsTrans
  <2> QED
    BY <2>1, <2>6
<1> HIDE DEF S
<1>5. n \in S
  BY <1>1, <1>3, <1>4, UpTo
<1> QED
  BY <1>2, <1>5 DEF S

LEMMA BodySound ==
    ASSUME NEW st, NEW open, Sound(st, open), NEW body \in Seq(Nodes), NEW flag
    PROVE  /\ Sound(CompileBody(body, flag, st), open)
           /\ Extends(st, CompileBody(body, flag, st))
<1> DEFINE normal == Normalize(body, flag)
<1>1. ListOK(normal.out)
  BY NormalizeKeepsNodes
<1>2. NormalBody(normal, st) = IF normal.err # NoError THEN Raise(st, normal.err)
                               ELSE BodyLoop(st, normal.out)
  BY Zenon DEF NormalBody, BodyLoop
<1>3. CompileBody(body, flag, st) = IF body = <<>> THEN Raise(st, "EmptyRoute")
                                    ELSE NormalBody(normal, st)
  BY Zenon DEF CompileBody
<1> HIDE DEF normal
<1>4. CASE body = <<>>
  BY <1>3, <1>4, RaiseSound, NoErrorIsNone
<1>5. CASE body # <<>> /\ normal.err # NoError
  BY <1>2, <1>3, <1>5, RaiseSound
<1>6. CASE body # <<>> /\ normal.err = NoError
  BY <1>1, <1>2, <1>3, <1>6, BodyLoopSound
<1> QED
  BY <1>4, <1>5, <1>6

LEMMA SoundMore ==
    ASSUME NEW st, NEW open, Sound(st, open), NEW more, open \subseteq more
    PROVE  Sound(st, more)
BY DEF Sound

LEMMA FunctionIsSeq ==
    ASSUME NEW n \in Nat, NEW f, f = [i \in 1..n |-> f[i]]
    PROVE  IsSeq(f) /\ Len(f) = n
<1> DEFINE S == {f[i] : i \in 1..n}
<1>1. f \in [1..n -> S]
  OBVIOUS
<1> HIDE DEF S
<1>2. f \in Seq(S) /\ Len(f) = n
  BY <1>1
<1> QED
  BY <1>2 DEF IsSeq

\* The accumulator of the loop over the routes: entry is the code in front of
\* the ROUTE, and what is still to be patched comes after it.
Routing(acc, entry, k) ==
    LET hole == Len(entry.code) + 1
        after == (hole + 1)..Len(acc.st.code)
    IN  /\ Sound(acc.st, {hole} \cup acc.jumps)
        /\ Extends(entry, acc.st)
        /\ hole <= Len(acc.st.code)
        /\ acc.jumps \subseteq after
        /\ \A r \in DOMAIN acc.starts : acc.starts[r] \in after
        /\ (acc.st.err = NoError /\ k > 0) => DOMAIN acc.starts # {}

LEMMA PastTheHole ==
    ASSUME NEW e \in Nat, NEW a \in Nat, NEW b \in Nat, e + 1 <= a, a <= b
    PROVE  /\ b + 1 \in (e + 1 + 1)..(b + 1)
           /\ a + 1 \in (e + 1 + 1)..(b + 1)
           /\ e + 1 <= b + 1
OBVIOUS

LEMMA AddRouteRoutes ==
    ASSUME NEW entry, Sound(entry, {}), NEW k \in Nat, NEW acc, Routing(acc, entry, k),
           acc.st.err = NoError, NEW route, NEW body \in Seq(Nodes), NEW flag
    PROVE  Routing(AddRoute(acc, route, CompileBody(body, flag, acc.st)), entry, k + 1)
<1> DEFINE new == CompileBody(body, flag, acc.st)
           hole == Len(entry.code) + 1
           jump == Len(new.code) + 1
           open == {hole} \cup acc.jumps
           more == {hole} \cup (acc.jumps \cup {jump})
           res == Emitted(new, <<Jump(0)>>)
           starts == [r \in {route} \cup DOMAIN acc.starts |->
                         IF r = route THEN Len(acc.st.code) + 1 ELSE acc.starts[r]]
<1>1. AddRoute(acc, route, new) =
          [st |-> res, starts |-> starts, jumps |-> acc.jumps \cup {jump}]
  BY Zenon DEF AddRoute
<1>2. Sound(new, open) /\ Extends(acc.st, new)
  BY BodySound DEF Routing
<1>3. Sound(new, more)
  <2>1. open \subseteq more
    OBVIOUS
  <2> HIDE DEF open, more, new
  <2> QED
    BY <1>2, <2>1, SoundMore
<1>4. /\ Len(entry.code) \in Nat /\ Len(acc.st.code) \in Nat /\ Len(new.code) \in Nat
      /\ Len(acc.st.code) <= Len(new.code) /\ hole <= Len(acc.st.code)
  <2> HIDE DEF new
  <2> QED
    BY <1>2, SoundLen DEF Routing, Extends
<1>5. /\ Sound(res, more) /\ Extends(new, res) /\ Len(res.code) = Len(new.code) + 1
  <2> DEFINE t == <<Jump(0)>>
  <2>1. IsSeq(t) /\ Len(t) = 1
    BY TuplesAre
  <2>2. \A i \in 1..1 : Len(new.code) + i \in more
    <3> HIDE DEF new
    <3> QED
      BY <1>4
  <2> HIDE DEF new, more, jump, t
  <2>3. /\ Sound(Emitted(new, t), more) /\ Extends(new, Emitted(new, t))
        /\ Len(Emitted(new, t).code) = Len(new.code) + Len(t)
    BY <1>3, <2>1, <2>2, EmittedSound
  <2> QED
    BY <2>1, <2>3 DEF t
<1>6. Extends(entry, res)
  <2>1. Sound(acc.st, open) /\ Extends(entry, acc.st)
    BY DEF Routing
  <2> HIDE DEF new, more, res, open
  <2>2. Extends(acc.st, res)
    BY <1>2, <1>3, <1>5, <2>1, ExtendsTrans
  <2> QED
    BY <1>5, <2>1, <2>2, ExtendsTrans
<1>7. /\ DOMAIN starts = DOMAIN acc.starts \cup {route}
      /\ \A r \in DOMAIN starts : \/ r \in DOMAIN acc.starts /\ starts[r] = acc.starts[r]
                                  \/ starts[r] = Len(acc.st.code) + 1
  OBVIOUS
<1>8. /\ acc.jumps \cup {jump} \subseteq (hole + 1)..Len(res.code)
      /\ \A r \in DOMAIN starts : starts[r] \in (hole + 1)..Len(res.code)
      /\ hole <= Len(res.code)
  <2>1. /\ acc.jumps \subseteq (hole + 1)..Len(acc.st.code)
        /\ \A r \in DOMAIN acc.starts : acc.starts[r] \in (hole + 1)..Len(acc.st.code)
    BY DEF Routing
  <2>2. (hole + 1)..Len(acc.st.code) \subseteq (hole + 1)..Len(res.code)
    <3> HIDE DEF new, res
    <3> QED
      BY <1>4, <1>5
  <2>3. jump \in (hole + 1)..Len(res.code) /\ Len(acc.st.code) + 1 \in (hole + 1)..Len(res.code)
        /\ hole <= Len(res.code)
    <3> HIDE DEF new, res
    <3> QED
      BY <1>4, <1>5, PastTheHole
  <2> HIDE DEF new, res, jump, hole, starts
  <2> QED
    BY <1>7, <2>1, <2>2, <2>3
<1> DEFINE next == [st |-> res, starts |-> starts, jumps |-> acc.jumps \cup {jump}]
<1>9. Routing(next, entry, k + 1)
  <2>1. DOMAIN starts # {} /\ next.st = res /\ next.starts = starts
        /\ next.jumps = acc.jumps \cup {jump}
    BY <1>7
  <2> HIDE DEF new, res, starts, jump, next
  <2> QED
    BY <1>5, <1>6, <1>8, <2>1 DEF Routing
<1> QED
  BY <1>1, <1>9

LEMMA RoutesRouted ==
    ASSUME NEW entry, Sound(entry, {}), NEW dict, NEW flag,
           dict.routes \in Seq([route : Routes, body : Seq(Nodes)])
    PROVE  Routing(CompileRoutes(dict, flag, entry), entry, Len(dict.routes))
<1> DEFINE list == dict.routes
           n == Len(list)
           base == [st |-> Emitted(entry, <<Route(<<>>)>>), starts |-> <<>>, jumps |-> {}]
<1>1. n \in Nat /\ DOMAIN list = 1..n /\ \A k \in 1..n : list[k].body \in Seq(Nodes)
  <2> DEFINE T == [route : Routes, body : Seq(Nodes)]
  <2>1. \A r \in T : r.body \in Seq(Nodes)
    OBVIOUS
  <2>2. list \in Seq(T)
    OBVIOUS
  <2> HIDE DEF T, list
  <2>3. n \in Nat /\ DOMAIN list = 1..n /\ \A k \in 1..n : list[k] \in T
    BY <2>2
  <2> QED
    BY <2>1, <2>3
<1>2. CompileRoutes(dict, flag, entry) = RouteLoop(flag, base, list)
  BY Zenon DEF CompileRoutes, RouteLoop
<1>3. Routing(base, entry, 0)
  <2> DEFINE hole == Len(entry.code) + 1
             t == <<Route(<<>>)>>
             first == Emitted(entry, t)
  <2>1. IsSeq(t) /\ Len(t) = 1
    BY TuplesAre
  <2>2. Len(entry.code) \in Nat /\ Sound(entry, {hole})
    BY SoundLen, SoundMore
  <2>3. \A i \in 1..1 : Len(entry.code) + i \in {hole}
    BY <2>2
  <2>4. /\ Sound(first, {hole}) /\ Extends(entry, first)
        /\ Len(first.code) = Len(entry.code) + 1
    <3> HIDE DEF t, hole
    <3>1. /\ Sound(Emitted(entry, t), {hole}) /\ Extends(entry, Emitted(entry, t))
          /\ Len(Emitted(entry, t).code) = Len(entry.code) + Len(t)
      BY <2>1, <2>2, <2>3, EmittedSound
    <3> QED
      BY <2>1, <3>1
  <2>5. base.st = first /\ base.starts = <<>> /\ base.jumps = {} /\ DOMAIN <<>> = {}
    OBVIOUS
  <2>6. hole <= Len(first.code) /\ {hole} \cup {} = {hole}
    BY <2>2, <2>4
  <2> HIDE DEF first, base
  <2> QED
    BY <2>4, <2>5, <2>6 DEF Routing
<1> HIDE DEF base, list, n
<1>4. PICK h : Rounds(h, "routes", flag, base, list, n) /\ RouteLoop(flag, base, list) = h[n]
  BY <1>1, RouteRounds
<1> DEFINE S == {k \in 0..n : Routing(h[k], entry, k)}
<1>5. 0 \in S
  BY <1>1, <1>3, <1>4 DEF Rounds
<1>6. ASSUME NEW k \in 0..(n - 1), k \in S PROVE k + 1 \in S
  <2>1. k + 1 \in 1..n /\ (k + 1) - 1 = k /\ k \in Nat
    BY <1>1
  <2>2. h[k + 1] = Round("routes", flag, h[k], list[k + 1])
    BY <1>4, <2>1 DEF Rounds
  <2>3. h[k + 1] = IF h[k].st.err # NoError THEN h[k]
                   ELSE AddRoute(h[k], list[k + 1].route,
                                 CompileBody(list[k + 1].body, flag, h[k].st))
    BY <2>2, Zenon DEF Round
  <2>4. CASE h[k].st.err # NoError
    <3>1. h[k + 1] = h[k]
      BY <2>3, <2>4
    <3>2. Routing(h[k], entry, k + 1)
      BY <1>6, <2>4 DEF Routing
    <3> QED
      BY <2>1, <3>1, <3>2
  <2>5. CASE h[k].st.err = NoError
    <3>1. Routing(AddRoute(h[k], list[k + 1].route,
                           CompileBody(list[k + 1].body, flag, h[k].st)), entry, k + 1)
      BY <1>1, <1>6, <2>1, <2>5, AddRouteRoutes
    <3> QED
      BY <2>1, <2>3, <2>5, <3>1
  <2> QED
    BY <2>4, <2>5
<1> HIDE DEF S
<1>7. n \in S
  BY <1>1, <1>5, <1>6, UpTo
<1> QED
  BY <1>2, <1>4, <1>7 DEF S, n, list

LEMMA PatchSound ==
    ASSUME NEW entry, Sound(entry, {}), NEW all, NEW k \in Nat, Routing(all, entry, k),
           all.st.err = NoError, DictsHaveRoutes => k # 0
    PROVE  LET new == PatchRoutes(all.st, Len(entry.code) + 1, all.starts, all.jumps)
           IN  Sound(new, {}) /\ Extends(entry, new)
<1> DEFINE hole == Len(entry.code) + 1
           st == all.st
           n == Len(st.code)
           code == [i \in DOMAIN st.code |->
                       IF i = hole THEN Route(all.starts)
                       ELSE IF i \in all.jumps THEN Jump(Len(st.code) + 1)
                       ELSE st.code[i]]
           new == [err |-> NoError, code |-> code, table |-> st.table]
<1>1. PatchRoutes(st, hole, all.starts, all.jumps) = new
  <2>1. PatchRoutes(st, hole, all.starts, all.jumps) = [st EXCEPT !.code = code]
    BY Zenon DEF PatchRoutes
  <2>2. st = [err |-> NoError, code |-> st.code, table |-> st.table]
    BY DEF Routing, Sound, Shaped
  <2> HIDE DEF code
  <2>3. [st EXCEPT !.code = code] = new
    BY <2>2
  <2> QED
    BY <2>1, <2>3
<1>2. /\ Len(entry.code) \in Nat /\ n \in Nat /\ DOMAIN st.code = 1..n /\ hole <= n
      /\ Sound(st, {hole} \cup all.jumps) /\ Extends(entry, st)
      /\ all.jumps \subseteq (hole + 1)..n
      /\ \A r \in DOMAIN all.starts : all.starts[r] \in (hole + 1)..n
      /\ DictsHaveRoutes => DOMAIN all.starts # {}
  BY SoundLen, SeqIs DEF Routing, Sound, Shaped
<1>3. IsSeq(code) /\ Len(code) = n
  <2>1. code = [i \in 1..n |-> code[i]]
    BY <1>2
  <2> HIDE DEF code, n
  <2> QED
    BY <1>2, <2>1, FunctionIsSeq
<1>4. ASSUME NEW ip \in 1..n
      PROVE  InstrOK(code[ip], ip, n + 1, st.table)
  <2>1. CASE ip = hole
    <3>1. code[ip] = Route(all.starts)
      BY <1>2, <2>1
    <3>2. \A r \in DOMAIN all.starts : all.starts[r] \in (ip + 1)..(n + 1)
      BY <1>2, <2>1
    <3> HIDE DEF code
    <3> QED
      BY <1>2, <3>1, <3>2 DEF InstrOK, Route
  <2>2. CASE ip # hole /\ ip \in all.jumps
    <3>1. code[ip] = Jump(n + 1)
      BY <1>2, <2>2
    <3>2. n + 1 \in (ip + 1)..(n + 1)
      BY <1>2
    <3> HIDE DEF code, n
    <3> QED
      BY <3>1, <3>2 DEF InstrOK, Jump
  <2>3. CASE ip \notin {hole} \cup all.jumps
    <3>1. code[ip] = st.code[ip]
      BY <1>2, <2>3
    <3> HIDE DEF code
    <3> QED
      BY <1>2, <2>3, <3>1 DEF Sound
  <2> QED
    BY <2>1, <2>2, <2>3
<1>5. Sound(new, {})
  <2>1. IsFiniteSet(DOMAIN st.table)
    BY <1>2 DEF Sound, Shaped
  <2>2. /\ new.err = NoError /\ new.code = code /\ new.table = st.table
        /\ new = [err |-> new.err, code |-> new.code, table |-> new.table]
    OBVIOUS
  <2> HIDE DEF code, new
  <2> QED
    BY <1>3, <1>4, <2>1, <2>2 DEF Sound, Shaped
<1>6. Extends(entry, new)
  <2>1. new.code = code /\ new.table = st.table
    OBVIOUS
  <2>2. \A ip \in 1..Len(entry.code) : code[ip] = st.code[ip]
    <3>1. \A ip \in 1..Len(entry.code) : ip \in 1..n /\ ip # hole /\ ip \notin all.jumps
      BY <1>2
    <3> QED
      BY <1>2, <3>1
  <2> HIDE DEF code, new
  <2> QED
    BY <1>2, <1>3, <2>1, <2>2 DEF Extends
<1> QED
  BY <1>1, <1>5, <1>6

IsRouting(dict) ==
    /\ dict.routes \in Seq([route : Routes, body : Seq(Nodes)])
    /\ DictsHaveRoutes => dict.routes # <<>>

LEMMA RouterSound ==
    ASSUME NEW st, Sound(st, {}), NEW router, NEW dict, IsRouting(dict), NEW flag
    PROVE  /\ Sound(CompileRouter(router, dict, flag, st), {})
           /\ Extends(st, CompileRouter(router, dict, flag, st))
<1> DEFINE entry == CompileStage(router, st)
           hole == Len(entry.code) + 1
           all == CompileRoutes(dict, flag, entry)
           patched == PatchRoutes(all.st, hole, all.starts, all.jumps)
           k == Len(dict.routes)
<1>1. CompileRouter(router, dict, flag, st) =
          IF entry.err = NoError
          THEN IF all.st.err = NoError THEN patched ELSE all.st
          ELSE entry
  BY Zenon DEF CompileRouter, EmitRoutes, Then
<1>2. Sound(entry, {}) /\ Extends(st, entry)
  BY StageSound
<1>3. k \in Nat /\ (DictsHaveRoutes => k # 0) /\ dict.routes \in Seq([route : Routes, body : Seq(Nodes)])
  <2> DEFINE T == [route : Routes, body : Seq(Nodes)]
  <2>1. dict.routes \in Seq(T) /\ (DictsHaveRoutes => dict.routes # <<>>)
    BY DEF IsRouting
  <2> HIDE DEF T
  <2>2. k \in Nat /\ (DictsHaveRoutes => k # 0)
    BY <2>1
  <2> QED
    BY <2>1, <2>2 DEF T
<1>4. Routing(all, entry, k)
  <2> HIDE DEF entry
  <2> QED
    BY <1>2, <1>3, RoutesRouted
<1>5. CASE entry.err # NoError
  BY <1>1, <1>2, <1>5
<1>6. CASE entry.err = NoError /\ all.st.err # NoError
  <2>1. Sound(all.st, {}) /\ Extends(entry, all.st)
    <3> HIDE DEF all, entry
    <3> QED
      BY <1>4, <1>6 DEF Routing, Sound
  <2>2. CompileRouter(router, dict, flag, st) = all.st
    BY <1>1, <1>6, Zenon
  <2> HIDE DEF entry, all
  <2> QED
    BY <1>2, <2>1, <2>2, ExtendsTrans
<1>7. CASE entry.err = NoError /\ all.st.err = NoError
  <2>1. Sound(patched, {}) /\ Extends(entry, patched)
    <3> HIDE DEF all, entry, k
    <3> QED
      BY <1>2, <1>3, <1>4, <1>7, PatchSound
  <2>2. CompileRouter(router, dict, flag, st) = patched
    BY <1>1, <1>7, Zenon
  <2> HIDE DEF entry, patched
  <2> QED
    BY <1>2, <2>1, <2>2, ExtendsTrans
<1> QED
  BY <1>5, <1>6, <1>7

-----------------------------------------------------------------------------
(* The list of nodes.                                                      *)

LEMMA NodeSound ==
    ASSUME NEW st, Sound(st, {}), NEW top, ListOK(top),
           NEW i \in 1..Len(top), NEW flag
    PROVE  Sound(CompileNode(top, i, flag, st), {})
<1>1. IsNode(top[i]) /\ DOMAIN top = 1..Len(top)
  BY SeqIs DEF ListOK
<1>2. CASE top[i].kind = "parallel"
  <2>1. IsSeq(top[i].branches)
    BY <1>1, <1>2, NodesTyped DEF IsNode, IsSeq
  <2> QED
    BY <1>2, <2>1, ParallelSound DEF CompileNode
<1>3. CASE top[i].kind = "dict"
  <2>1. CompileNode(top, i, flag, st) \in {st, Raise(st, "DictFirst")}
    BY <1>3, Zenon DEF CompileNode
  <2> QED
    BY <2>1, RaiseSound, NoErrorIsNone
<1>4. CASE top[i].kind \notin {"parallel", "dict"} /\ IsDict(top, i + 1)
  <2>1. CompileNode(top, i, flag, st) = CompileRouter(top[i], top[i + 1], flag, st)
    BY <1>4 DEF CompileNode
  <2>2. top[i + 1].kind = "dict" /\ IsNode(top[i + 1])
    BY <1>1, <1>4 DEF IsDict, ListOK
  <2>3. IsRouting(top[i + 1])
    BY <2>2, NodesTyped DEF IsNode, IsRouting, DictsHaveRoutes
  <2> QED
    BY <2>1, <2>3, RouterSound
<1>5. CASE top[i].kind \notin {"parallel", "dict"} /\ ~IsDict(top, i + 1)
  BY <1>5, StageSound DEF CompileNode
<1> QED
  BY <1>2, <1>3, <1>4, <1>5

LEMMA NodeLoopSound ==
    ASSUME NEW st, Sound(st, {}), NEW top, ListOK(top), NEW flag
    PROVE  Sound(NodeLoop(top, flag, st, [i \in DOMAIN top |-> i]), {})
<1> DEFINE n == Len(top)
           seq == [i \in DOMAIN top |-> i]
           given == [out |-> top, auto |-> flag]
<1>1. n \in Nat /\ DOMAIN seq = 1..n /\ DOMAIN top = 1..n
  BY SeqIs DEF ListOK
<1>2. (\A k \in 1..n : seq[k] = k) /\ given.out = top /\ given.auto = flag
  BY <1>1
<1> HIDE DEF n, seq
<1>3. PICK h : Rounds(h, "nodes", given, st, seq, n) /\ NodeLoop(top, flag, st, seq) = h[n]
  BY <1>1, NodeRounds
<1> HIDE DEF given
<1> DEFINE S == {k \in 0..n : Sound(h[k], {})}
<1>4. 0 \in S
  BY <1>1, <1>3 DEF Rounds
<1>5. ASSUME NEW k \in 0..(n - 1), k \in S PROVE k + 1 \in S
  <2>1. k + 1 \in 1..n /\ (k + 1) - 1 = k
    BY <1>1
  <2>2. h[k + 1] = Round("nodes", given, h[k], k + 1)
    BY <1>2, <1>3, <2>1 DEF Rounds
  <2>3. h[k + 1] = IF h[k].err = NoError THEN CompileNode(top, k + 1, flag, h[k]) ELSE h[k]
    BY <1>2, <2>2, Zenon DEF Round, Then
  <2>4. Sound(CompileNode(top, k + 1, flag, h[k]), {})
    BY <1>5, <2>1, NodeSound DEF n
  <2> QED
    BY <1>5, <2>1, <2>3, <2>4
<1> HIDE DEF S
<1>6. n \in S
  BY <1>1, <1>4, <1>5, UpTo
<1> QED
  BY <1>3, <1>6 DEF S, seq

\* Every address of the finished code is one of its own.
Finished(st) ==
    st.err = NoError =>
        /\ IsSeq(st.code)
        /\ \A ip \in 1..Len(st.code) : InstrOK(st.code[ip], ip, Len(st.code), st.table)

LEMMA StartSound == Sound(Start, {})
<1> DEFINE t == <<EmitPipeline("pipeline_start")>>
<1>1. IsSeq(t) /\ Len(t) = 1 /\ t[1] = EmitPipeline("pipeline_start")
  BY TuplesAre
<1>2. IsFiniteSet(DOMAIN <<>>)
  <2>1. DOMAIN <<>> = {}
    OBVIOUS
  <2> QED
    BY <2>1, FS_EmptySet
<1>3. Start.code = t /\ Start.table = <<>> /\ Start.err = NoError
      /\ Start = [err |-> Start.err, code |-> Start.code, table |-> Start.table]
  BY DEF Start
<1> HIDE DEF t
<1>4. \A ip \in 1..1 : InstrOK(t[ip], ip, Len(t) + 1, Start.table)
  BY <1>1 DEF InstrOK, EmitPipeline
<1> QED
  BY <1>1, <1>2, <1>3, <1>4 DEF Sound, Shaped

LEMMA EndFinishes ==
    ASSUME NEW st, Sound(st, {}), st.err = NoError
    PROVE  Finished(Emitted(st, <<EmitPipeline("pipeline_end")>>))
<1> DEFINE t == <<EmitPipeline("pipeline_end")>>
           res == Emitted(st, t)
           n == Len(st.code)
<1>1. IsSeq(t) /\ Len(t) = 1 /\ t[1] = EmitPipeline("pipeline_end")
  BY TuplesAre
<1>2. n \in Nat /\ IsSeq(st.code)
  BY SoundLen DEF Sound, Shaped
<1>3. res.code = st.code \o t /\ res.table = st.table
  BY DEF Emitted, Sound, Shaped
<1> HIDE DEF t, res
<1>4. /\ IsSeq(st.code \o t) /\ Len(st.code \o t) = n + 1
      /\ \A i \in 1..n : (st.code \o t)[i] = st.code[i]
      /\ (st.code \o t)[n + 1] = t[1]
  <2>1. /\ IsSeq(st.code \o t) /\ Len(st.code \o t) = n + Len(t)
        /\ \A i \in 1..n : (st.code \o t)[i] = st.code[i]
        /\ \A i \in (n + 1)..Len(st.code \o t) :
               i - n \in 1..Len(t) /\ (st.code \o t)[i] = t[i - n]
    BY <1>1, <1>2, ConcatIs
  <2>2. n + 1 \in (n + 1)..(n + 1) /\ (n + 1) - n = 1
    BY <1>2
  <2> QED
    BY <1>1, <2>1, <2>2
<1>5. ASSUME NEW ip \in 1..(n + 1)
      PROVE  InstrOK(res.code[ip], ip, n + 1, res.table)
  <2>1. CASE ip = n + 1
    <3>1. res.code[ip] = EmitPipeline("pipeline_end")
      BY <1>1, <1>3, <1>4, <2>1
    <3> QED
      BY <3>1 DEF InstrOK, EmitPipeline
  <2>2. CASE ip # n + 1
    <3>1. ip \in 1..n
      BY <1>2, <2>2
    <3>2. res.code[ip] = st.code[ip]
      BY <1>3, <1>4, <3>1
    <3> QED
      BY <1>3, <3>1, <3>2 DEF Sound
  <2> QED
    BY <2>1, <2>2
<1>6. Finished(res)
  BY <1>3, <1>4, <1>5 DEF Finished
<1> QED
  BY <1>6 DEF res, t

LEMMA CompileFinishes ==
    ASSUME NEW list \in Seq(Nodes), NEW flag
    PROVE  Finished(Compile(list, flag))
<1> DEFINE normal == Normalize(list, flag)
           loop == NodeLoop(normal.out, flag, Start, [i \in DOMAIN normal.out |-> i])
           end == <<EmitPipeline("pipeline_end")>>
<1>1. Compile(list, flag) =
          IF normal.err # NoError THEN Raise(Start, normal.err)
          ELSE IF loop.err = NoError THEN Emitted(loop, end) ELSE loop
  BY Zenon DEF Compile, CompileNormal, Then, NodeLoop
<1>2. ListOK(normal.out)
  BY NormalizeKeepsNodes
<1>3. Sound(loop, {})
  <2> HIDE DEF normal
  <2> QED
    BY <1>2, StartSound, NodeLoopSound
<1> HIDE DEF loop
<1>4. CASE normal.err # NoError
  <2>1. Compile(list, flag) = Raise(Start, normal.err)
    BY <1>1, <1>4, Zenon
  <2> HIDE DEF normal
  <2>2. Raise(Start, normal.err).err = normal.err
    BY StartSound, RaiseSound
  <2> QED
    BY <1>4, <2>1, <2>2 DEF Finished
<1>5. CASE normal.err = NoError /\ loop.err = NoError
  <2>1. Compile(list, flag) = Emitted(loop, end)
    BY <1>1, <1>5, Zenon
  <2> QED
    BY <1>3, <1>5, <2>1, EndFinishes
<1>6. CASE normal.err = NoError /\ loop.err # NoError
  <2>1. Compile(list, flag) = loop
    BY <1>1, <1>6, Zenon
  <2> QED
    BY <1>6, <2>1 DEF Finished
<1> QED
  BY <1>4, <1>5, <1>6

-----------------------------------------------------------------------------
(* One compilation as a step.                                              *)

CompilerInv ==
    /\ nodes \in Seq(Nodes)
    /\ auto \in BOOLEAN
    /\ out \in {NotCompiled, Compile(nodes, auto)}

LEMMA CompilerInductive == Spec => []CompilerInv
<1>1. Init => CompilerInv
  BY DEF Init, CompilerInv
<1>2. CompilerInv /\ [Next]_vars => CompilerInv'
  BY DEF CompilerInv, Next, CompilePipeline, vars
<1> QED
  BY <1>1, <1>2, PTL DEF Spec

\* What compiled code is, the invariants only read it.
LEMMA CompiledFinishes ==
    ASSUME CompilerInv, Compiled
    PROVE  /\ DOMAIN out.code = 1..Len(out.code) /\ Len(out.code) \in Nat
           /\ \A ip \in 1..Len(out.code) :
                  InstrOK(out.code[ip], ip, Len(out.code), out.table)
<1>1. Finished(out) /\ out.err = NoError
  BY CompileFinishes DEF CompilerInv, Compiled
<1> QED
  BY <1>1, SeqIs DEF Finished

(***************************************************************************)
(* compile(): whatever the list, when each of its dicts has a route, the   *)
(* code that comes out only goes forward, inside itself, and names only    *)
(* nodes that are in the symbol table.                                     *)
(***************************************************************************)
THEOREM CodeIsWellFormed ==
    ASSUME DictsHaveRoutes
    PROVE  Spec => []CodeWellFormed
<1>1. CompilerInv => CodeWellFormed
  <2> SUFFICES ASSUME CompilerInv, Compiled, NEW ip \in DOMAIN out.code
               PROVE  LET i == out.code[ip]
                          ahead == (ip + 1)..Len(out.code)
                      IN  /\ i.op = "jump" => i.target \in ahead
                          /\ i.op = "route" => /\ DOMAIN i.targets # {}
                                               /\ Range(i.targets) \subseteq ahead
                          /\ i.op = "call" => i.node \in DOMAIN out.table
                          /\ i.op = "fork" => Range(i.branches) \subseteq DOMAIN out.table
    BY Zenon DEF CodeWellFormed
  <2>1. InstrOK(out.code[ip], ip, Len(out.code), out.table)
    BY CompiledFinishes
  <2> QED
    BY <2>1, DictsHaveRoutes DEF InstrOK, BranchesOK, Range
<1> QED
  BY <1>1, CompilerInductive, PTL

(***************************************************************************)
(* _compile_parallel: two functions of a compiled block never declare a    *)
(* common write, however many functions share a name.                      *)
(***************************************************************************)
THEOREM ConflictsAreCaught == Spec => []ConflictsCaught
<1>1. CompilerInv => ConflictsCaught
  <2> SUFFICES ASSUME CompilerInv, Compiled, NEW ip \in DOMAIN out.code,
                      out.code[ip].op = "fork",
                      NEW a \in Range(out.code[ip].branches),
                      NEW b \in Range(out.code[ip].branches),
                      a # b,
                      ~IsEmptyDecl(out.table[a].writes), ~IsEmptyDecl(out.table[b].writes)
               PROVE  out.table[a].writes \cap out.table[b].writes = {}
    BY Zenon DEF ConflictsCaught
  <2>1. InstrOK(out.code[ip], ip, Len(out.code), out.table)
    BY CompiledFinishes
  <2> QED
    BY <2>1 DEF InstrOK, BranchesOK, Range
<1> QED
  BY <1>1, CompilerInductive, PTL

-----------------------------------------------------------------------------
(* Context.merge.                                                          *)

\* Branches that have written what they hold, one context for each name.
Mergeable(bs) ==
    /\ IsSeq(bs)
    /\ \A i \in DOMAIN bs : bs[i].written \subseteq DOMAIN bs[i].data
    /\ \A i, j \in DOMAIN bs : bs[i].name = bs[j].name => bs[i] = bs[j]

WrittenBy(bs, I) == UNION {bs[i].written : i \in I}

\* The keys that two of the branches I have written.
Contested(bs, I) ==
    {k \in WrittenBy(bs, I) :
        \E i, j \in I : /\ k \in bs[i].written /\ k \in bs[j].written
                           /\ bs[i].name # bs[j].name}

\* The accumulator of merge after the branches I, said without their order.
Claimed(acc, base, bs, I) ==
    /\ acc = [data |-> acc.data, written |-> acc.written, seen |-> acc.seen,
              conflicts |-> acc.conflicts]
    /\ DOMAIN acc.seen = WrittenBy(bs, I)
    /\ \A k \in WrittenBy(bs, I) :
           \E i \in I : k \in bs[i].written /\ acc.seen[k] = bs[i].name
    /\ acc.written = base.written \cup WrittenBy(bs, I)
    /\ acc.conflicts = Contested(bs, I)
    /\ acc.data = [k \in DOMAIN base.data \cup WrittenBy(bs, I) |-> acc.data[k]]
    /\ \A k \in DOMAIN base.data \ WrittenBy(bs, I) : acc.data[k] = base.data[k]
    /\ acc.conflicts = {} =>
           \A i \in I : \A k \in bs[i].written : acc.data[k] = bs[i].data[k]

LEMMA WrittenByGrows ==
    ASSUME NEW bs, NEW m \in Nat
    PROVE  WrittenBy(bs, 1..(m + 1)) = WrittenBy(bs, 1..m) \cup bs[m + 1].written
<1>1. 1..(m + 1) = 1..m \cup {m + 1}
  OBVIOUS
<1> QED
  BY <1>1 DEF WrittenBy

LEMMA ClaimClaims ==
    ASSUME NEW bs, Mergeable(bs), NEW m \in Nat, m + 1 \in DOMAIN bs,
           NEW base, NEW acc, Claimed(acc, base, bs, 1..m)
    PROVE  Claimed(Claim(acc, bs[m + 1]), base, bs, 1..(m + 1))
<1> DEFINE b == bs[m + 1]
           W == WrittenBy(bs, 1..m)
           clash == {k \in b.written \cap DOMAIN acc.seen : acc.seen[k] # b.name}
           taken == b.written \ clash
           data == Over(Restrict(b.data, taken), acc.data)
           written == acc.written \cup taken
           seen == Over([k \in taken |-> b.name], acc.seen)
           conflicts == acc.conflicts \cup clash
           new == [data |-> data, written |-> written, seen |-> seen,
                   conflicts |-> conflicts]
<1>1. Claim(acc, b) = new
  BY Zenon DEF Claim
<1>2. WrittenBy(bs, 1..(m + 1)) = W \cup b.written /\ DOMAIN acc.seen = W
  BY WrittenByGrows DEF Claimed
<1>3. /\ 1..m \subseteq DOMAIN bs /\ DOMAIN bs = 1..Len(bs) /\ m + 1 \in 1..(m + 1)
      /\ 1..m \subseteq 1..(m + 1) /\ \A i \in 1..(m + 1) : i \in 1..m \/ i = m + 1
  <2>1. DOMAIN bs = 1..Len(bs) /\ Len(bs) \in Nat
    BY SeqIs DEF Mergeable
  <2> QED
    BY <2>1
<1>4. /\ DOMAIN data = taken \cup DOMAIN acc.data
      /\ data = [k \in DOMAIN data |-> data[k]]
      /\ \A k \in taken : data[k] = b.data[k]
      /\ \A k \in DOMAIN acc.data \ taken : data[k] = acc.data[k]
  BY DEF Over, Restrict
<1>5. /\ DOMAIN seen = taken \cup W
      /\ \A k \in taken : seen[k] = b.name
      /\ \A k \in W \ taken : seen[k] = acc.seen[k]
  BY <1>2 DEF Over
<1>6. taken \cup W = W \cup b.written /\ clash \subseteq W
  BY <1>2
<1>7. conflicts = Contested(bs, 1..(m + 1))
  <2>1. ASSUME NEW k \in conflicts PROVE k \in Contested(bs, 1..(m + 1))
    <3>1. CASE k \in acc.conflicts
      BY <1>2, <1>3, <3>1 DEF Claimed, Contested
    <3>2. CASE k \in clash
      <4>1. PICK i \in 1..m : k \in bs[i].written /\ acc.seen[k] = bs[i].name
        BY <1>2, <3>2 DEF Claimed
      <4> QED
        BY <1>2, <1>3, <3>2, <4>1 DEF Contested
    <3> QED
      BY <2>1, <3>1, <3>2
  <2>2. ASSUME NEW k \in Contested(bs, 1..(m + 1)) PROVE k \in conflicts
    <3>1. PICK i, j \in 1..(m + 1) : /\ k \in bs[i].written /\ k \in bs[j].written
                                    /\ bs[i].name # bs[j].name
      BY <2>2 DEF Contested
    <3>2. CASE i \in 1..m /\ j \in 1..m
      <4>1. k \in W
        BY <3>1, <3>2 DEF WrittenBy
      <4>2. k \in Contested(bs, 1..m)
        BY <3>1, <3>2, <4>1 DEF Contested
      <4> QED
        BY <4>2 DEF Claimed
    <3>3. ASSUME NEW l \in 1..m, k \in bs[l].written, k \in b.written,
                 bs[l].name # b.name
          PROVE  k \in conflicts
      <4>1. k \in W
        BY <3>3 DEF WrittenBy
      <4>2. PICK f \in 1..m : k \in bs[f].written /\ acc.seen[k] = bs[f].name
        BY <4>1 DEF Claimed
      <4>3. CASE bs[f].name = b.name
        <5>1. k \in Contested(bs, 1..m)
          BY <3>3, <4>1, <4>2, <4>3 DEF Contested
        <5> QED
          BY <5>1 DEF Claimed
      <4>4. CASE bs[f].name # b.name
        BY <1>2, <3>3, <4>1, <4>2, <4>4
      <4> QED
        BY <4>3, <4>4
    <3>4. CASE i = m + 1 /\ j \in 1..m
      BY <3>1, <3>3, <3>4
    <3>5. CASE j = m + 1 /\ i \in 1..m
      BY <3>1, <3>3, <3>5
    <3>6. CASE i = m + 1 /\ j = m + 1
      BY <3>1, <3>6
    <3> QED
      BY <1>3, <3>2, <3>4, <3>5, <3>6
  <2> HIDE DEF conflicts
  <2> QED
    BY <2>1, <2>2
<1>8. \A k \in W \cup b.written :
         \E i \in 1..(m + 1) : k \in bs[i].written /\ seen[k] = bs[i].name
  <2> SUFFICES ASSUME NEW k \in W \cup b.written
               PROVE  \E i \in 1..(m + 1) : k \in bs[i].written /\ seen[k] = bs[i].name
    OBVIOUS
  <2>1. CASE k \in taken
    BY <1>3, <1>5, <2>1
  <2>2. CASE k \notin taken
    <3>1. k \in W /\ seen[k] = acc.seen[k]
      BY <1>5, <1>6, <2>2
    <3> HIDE DEF seen, taken
    <3> QED
      BY <1>3, <3>1 DEF Claimed
  <2> QED
    BY <2>1, <2>2
<1>9. /\ written = base.written \cup (W \cup b.written)
      /\ DOMAIN data = DOMAIN base.data \cup (W \cup b.written)
  <2>1. acc.written = base.written \cup W /\ DOMAIN acc.data = DOMAIN base.data \cup W
    BY DEF Claimed
  <2> HIDE DEF data, W, clash
  <2> QED
    BY <1>4, <1>6, <2>1
<1>10. ASSUME NEW k \in DOMAIN base.data \ (W \cup b.written)
       PROVE  data[k] = base.data[k]
  <2>1. k \notin W /\ k \notin taken /\ k \in DOMAIN acc.data
    BY <1>10 DEF Claimed
  <2> HIDE DEF data, taken
  <2> QED
    BY <1>4, <1>10, <2>1 DEF Claimed
<1>11. ASSUME conflicts = {}, NEW i \in 1..(m + 1), NEW k \in bs[i].written
       PROVE  data[k] = bs[i].data[k]
  <2>1. clash = {} /\ acc.conflicts = {} /\ taken = b.written
    BY <1>11
  <2>2. CASE k \in b.written
    <3>1. data[k] = b.data[k]
      BY <1>4, <2>1, <2>2
    <3>2. bs[i].name = b.name
      <4>1. k \notin Contested(bs, 1..(m + 1))
        BY <1>7, <1>11
      <4>2. k \in WrittenBy(bs, 1..(m + 1))
        BY <1>2, <2>2
      <4> QED
        BY <1>3, <1>11, <2>2, <4>1, <4>2 DEF Contested
    <3>3. bs[i] = b
      BY <1>3, <3>2 DEF Mergeable
    <3> QED
      BY <3>1, <3>3
  <2>3. CASE k \notin b.written
    <3>1. i \in 1..m
      BY <1>3, <1>11, <2>3
    <3>2. k \in W /\ k \notin taken
      BY <1>11, <2>1, <2>3, <3>1 DEF WrittenBy
    <3>3. k \in DOMAIN acc.data /\ acc.data[k] = bs[i].data[k]
      BY <1>11, <2>1, <3>1, <3>2 DEF Claimed
    <3> HIDE DEF data, taken
    <3> QED
      BY <1>4, <3>2, <3>3
  <2> QED
    BY <2>2, <2>3
<1>12. /\ new.data = data /\ new.written = written /\ new.seen = seen
       /\ new.conflicts = conflicts
       /\ new = [data |-> new.data, written |-> new.written, seen |-> new.seen,
                 conflicts |-> new.conflicts]
  OBVIOUS
<1> HIDE DEF new, data, written, seen, conflicts, W, taken, clash
<1>13. Claimed(new, base, bs, 1..(m + 1))
  <2> DEFINE all == WrittenBy(bs, 1..(m + 1))
  <2>1. all = W \cup b.written
    BY <1>2
  <2>2. DOMAIN seen = all
    BY <1>5, <1>6, <2>1
  <2>3. \A k \in all : \E i \in 1..(m + 1) : k \in bs[i].written /\ seen[k] = bs[i].name
    BY <1>8, <2>1
  <2>4. data = [k \in DOMAIN base.data \cup all |-> data[k]]
    BY <1>4, <1>9, <2>1
  <2>5. /\ written = base.written \cup all
        /\ \A k \in DOMAIN base.data \ all : data[k] = base.data[k]
    BY <1>9, <1>10, <2>1
  <2>6. conflicts = {} => \A i \in 1..(m + 1) : \A k \in bs[i].written : data[k] = bs[i].data[k]
    BY <1>11
  <2> HIDE DEF all
  <2> QED
    BY <1>7, <1>12, <2>2, <2>3, <2>4, <2>5, <2>6 DEF Claimed, all
<1> QED
  BY <1>1, <1>13

MergeStart(base) ==
    [data |-> base.data, written |-> base.written, seen |-> <<>>, conflicts |-> {}]

LEMMA MergeClaims ==
    ASSUME NEW base, base.data = [k \in DOMAIN base.data |-> base.data[k]],
           NEW bs, Mergeable(bs)
    PROVE  Claimed(FoldLeft(Claim, MergeStart(base), bs), base, bs, DOMAIN bs)
<1> DEFINE start == MergeStart(base)
           n == Len(bs)
<1>1. n \in Nat /\ DOMAIN bs = 1..n
  BY SeqIs DEF Mergeable
<1>2. Claimed(start, base, bs, 1..0)
  <2>1. WrittenBy(bs, 1..0) = {} /\ Contested(bs, 1..0) = {} /\ DOMAIN <<>> = {}
    BY DEF WrittenBy, Contested
  <2>2. /\ start.data = base.data /\ start.written = base.written
        /\ start.seen = <<>> /\ start.conflicts = {}
        /\ start = [data |-> start.data, written |-> start.written,
                    seen |-> start.seen, conflicts |-> start.conflicts]
    BY DEF MergeStart
  <2>3. DOMAIN base.data \cup {} = DOMAIN base.data /\ base.written \cup {} = base.written
    OBVIOUS
  <2>4. \A i \in 1..0 : FALSE
    OBVIOUS
  <2> HIDE DEF start
  <2> QED
    BY <2>1, <2>2, <2>3, <2>4 DEF Claimed
<1> HIDE DEF start, n
<1>3. PICK h : Rounds(h, "merge", 0, start, bs, n) /\ FoldLeft(Claim, start, bs) = h[n]
  BY <1>1, MergeRounds
<1> DEFINE S == {k \in 0..n : Claimed(h[k], base, bs, 1..k)}
<1>4. 0 \in S
  BY <1>1, <1>2, <1>3 DEF Rounds
<1>5. ASSUME NEW k \in 0..(n - 1), k \in S PROVE k + 1 \in S
  <2>1. k + 1 \in 1..n /\ (k + 1) - 1 = k /\ k \in Nat
    BY <1>1
  <2>2. h[k + 1] = Round("merge", 0, h[k], bs[k + 1])
    BY <1>3, <2>1 DEF Rounds
  <2>3. h[k + 1] = Claim(h[k], bs[k + 1])
    BY <2>2, Zenon DEF Round
  <2>4. Claimed(Claim(h[k], bs[k + 1]), base, bs, 1..(k + 1))
    BY <1>1, <1>5, <2>1, ClaimClaims
  <2> QED
    BY <2>1, <2>3, <2>4
<1> HIDE DEF S
<1>6. n \in S
  BY <1>1, <1>4, <1>5, UpTo
<1> QED
  BY <1>1, <1>3, <1>6 DEF S, start, n

MergedInto(base, data, written) ==
    [data |-> data, written |-> written, name |-> base.name]

\* What merge gives, by the set of its branches.
IsMerge(result, data, base, bs, W) ==
    /\ result = MergedInto(base, data, base.written \cup W)
    /\ data = [k \in DOMAIN base.data \cup W |-> data[k]]
    /\ \A k \in DOMAIN base.data \ W : data[k] = base.data[k]
    /\ \A i \in DOMAIN bs : \A k \in bs[i].written : data[k] = bs[i].data[k]

LEMMA MergeIs ==
    ASSUME NEW base, base.data = [k \in DOMAIN base.data |-> base.data[k]],
           NEW bs, Mergeable(bs)
    PROVE  /\ Contested(bs, DOMAIN bs) # {} => Merge(base, bs) = MergeConflict
           /\ Contested(bs, DOMAIN bs) = {} =>
                  \E data : IsMerge(Merge(base, bs), data, base, bs, WrittenBy(bs, DOMAIN bs))
<1> DEFINE all == FoldLeft(Claim, MergeStart(base), bs)
<1>1. Merge(base, bs) =
          IF all.conflicts # {} THEN MergeConflict
          ELSE MergedInto(base, all.data, all.written)
  BY Zenon DEF Merge, MergeStart, MergedInto
<1>2. Claimed(all, base, bs, DOMAIN bs)
  <2>1. DOMAIN bs = 1..Len(bs)
    BY SeqIs DEF Mergeable
  <2>2. Claimed(all, base, bs, 1..Len(bs))
    BY MergeClaims
  <2> QED
    BY <2>1, <2>2, Zenon
<1> HIDE DEF all
<1>3. CASE all.conflicts # {}
  BY <1>1, <1>2, <1>3 DEF Claimed
<1>4. CASE all.conflicts = {}
  <2>1. Merge(base, bs) = MergedInto(base, all.data, all.written)
    BY <1>1, <1>4, Zenon
  <2>2. IsMerge(Merge(base, bs), all.data, base, bs, WrittenBy(bs, DOMAIN bs))
    BY <1>2, <1>4, <2>1 DEF Claimed, IsMerge
  <2>3. Contested(bs, DOMAIN bs) = {}
    BY <1>2, <1>4 DEF Claimed
  <2> QED
    BY <2>2, <2>3
<1> QED
  BY <1>3, <1>4

(***************************************************************************)
(* Context.merge: who is listed first never decides.                       *)
(***************************************************************************)
LEMMA MergeIgnoresOrder ==
    ASSUME NEW base, base.data = [k \in DOMAIN base.data |-> base.data[k]],
           NEW s, Mergeable(s), NEW t, Mergeable(t),
           \A i \in DOMAIN s : \E j \in DOMAIN t : s[i] = t[j],
           \A j \in DOMAIN t : \E i \in DOMAIN s : s[i] = t[j]
    PROVE  Merge(base, s) = Merge(base, t)
<1> DEFINE W == WrittenBy(s, DOMAIN s)
           X == WrittenBy(t, DOMAIN t)
<1>1. /\ \A i \in DOMAIN s : \E j \in DOMAIN t : s[i] = t[j]
      /\ \A j \in DOMAIN t : \E i \in DOMAIN s : s[i] = t[j]
  OBVIOUS
<1>2. \A k : k \in W <=> \E i \in DOMAIN s : k \in s[i].written
  BY DEF WrittenBy
<1>3. \A k : k \in X <=> \E j \in DOMAIN t : k \in t[j].written
  BY DEF WrittenBy
<1> HIDE DEF W, X
<1>4. W = X
  <2>1. ASSUME NEW k \in W PROVE k \in X
    <3>1. PICK i \in DOMAIN s : k \in s[i].written
      BY <1>2, <2>1
    <3>2. PICK j \in DOMAIN t : s[i] = t[j]
      BY <1>1
    <3> QED
      BY <1>3, <3>1, <3>2
  <2>2. ASSUME NEW k \in X PROVE k \in W
    <3>1. PICK j \in DOMAIN t : k \in t[j].written
      BY <1>3, <2>2
    <3>2. PICK i \in DOMAIN s : s[i] = t[j]
      BY <1>1
    <3> QED
      BY <1>2, <3>1, <3>2
  <2> QED
    BY <2>1, <2>2
<1>5. Contested(t, DOMAIN t) = Contested(s, DOMAIN s)
  <2>1. ASSUME NEW k \in Contested(s, DOMAIN s) PROVE k \in Contested(t, DOMAIN t)
    <3>1. PICK i, j \in DOMAIN s : /\ k \in s[i].written /\ k \in s[j].written
                                  /\ s[i].name # s[j].name
      BY <2>1 DEF Contested
    <3>2. PICK u, v \in DOMAIN t : t[u] = s[i] /\ t[v] = s[j]
      BY <1>1
    <3>3. k \in WrittenBy(t, DOMAIN t)
      BY <1>4, <2>1 DEF Contested, W, X
    <3> QED
      BY <3>1, <3>2, <3>3 DEF Contested
  <2>2. ASSUME NEW k \in Contested(t, DOMAIN t) PROVE k \in Contested(s, DOMAIN s)
    <3>1. PICK u, v \in DOMAIN t : /\ k \in t[u].written /\ k \in t[v].written
                                  /\ t[u].name # t[v].name
      BY <2>2 DEF Contested
    <3>2. PICK i, j \in DOMAIN s : t[u] = s[i] /\ t[v] = s[j]
      BY <1>1
    <3>3. k \in WrittenBy(s, DOMAIN s)
      BY <1>4, <2>2 DEF Contested, W, X
    <3> QED
      BY <3>1, <3>2, <3>3 DEF Contested
  <2> QED
    BY <2>1, <2>2
<1>6. CASE Contested(s, DOMAIN s) # {}
  BY <1>5, <1>6, MergeIs
<1>7. CASE Contested(s, DOMAIN s) = {}
  <2>1. PICK d : IsMerge(Merge(base, s), d, base, s, W)
    BY <1>7, MergeIs DEF W
  <2>2. PICK e : IsMerge(Merge(base, t), e, base, t, W)
    BY <1>4, <1>5, <1>7, MergeIs DEF X
  <2>3. ASSUME NEW k \in DOMAIN base.data \cup W PROVE d[k] = e[k]
    <3>1. CASE k \in W
      <4>1. PICK i \in DOMAIN s : k \in s[i].written
        BY <1>2, <3>1
      <4>2. PICK j \in DOMAIN t : s[i] = t[j]
        BY <1>1
      <4>3. d[k] = s[i].data[k]
        BY <2>1, <4>1 DEF IsMerge
      <4>4. e[k] = t[j].data[k]
        <5>1. k \in t[j].written
          BY <4>1, <4>2
        <5> QED
          BY <2>2, <5>1 DEF IsMerge
      <4> QED
        BY <4>2, <4>3, <4>4
    <3>2. CASE k \notin W
      <4>1. d[k] = base.data[k]
        BY <2>1, <2>3, <3>2 DEF IsMerge
      <4>2. e[k] = base.data[k]
        BY <2>2, <2>3, <3>2 DEF IsMerge
      <4> QED
        BY <4>1, <4>2
    <3> QED
      BY <3>1, <3>2
  <2>4. d = e
    BY <2>1, <2>2, <2>3 DEF IsMerge
  <2> QED
    BY <2>1, <2>2, <2>4 DEF IsMerge
<1> QED
  BY <1>6, <1>7

\* What a branch of a block gives back.
BranchResult(c, id) ==
    LET patch == Patch(c.table[id], Initial)
    IN  [data |-> Over(patch, Initial), written |-> DOMAIN patch, name |-> id]

Results(c, ids) == Forked(c, ids, Create(Initial))

LEMMA ForkedIs ==
    ASSUME NEW c, NEW ids
    PROVE  Results(c, ids) = [b \in DOMAIN ids |-> BranchResult(c, ids[b])]
<1>1. ASSUME NEW b \in DOMAIN ids
      PROVE  RunStage(c.table[ids[b]], Branch(Create(Initial), ids[b])) =
                 BranchResult(c, ids[b])
  <2> DEFINE id == ids[b]
             fn == c.table[id]
             ctx == Branch(Create(Initial), id)
             patch == Patch(fn, Initial)
  <2>1. ctx = [data |-> Initial, written |-> {}, name |-> id]
    BY DEF Branch, Create
  <2>2. RunStage(fn, ctx) = Update(ctx, Patch(fn, ctx.data))
    BY Zenon DEF RunStage
  <2>3. ctx.data = Initial
    BY <2>1
  <2>4. RunStage(fn, ctx) = Update(ctx, patch)
    BY <2>2, <2>3, Zenon
  <2> HIDE DEF ctx, patch
  <2>5. Update(ctx, patch) = [data |-> Over(patch, Initial), written |-> {} \cup DOMAIN patch,
                              name |-> id]
    BY <2>1 DEF Update
  <2>6. {} \cup DOMAIN patch = DOMAIN patch
    OBVIOUS
  <2>7. BranchResult(c, id) = [data |-> Over(patch, Initial), written |-> DOMAIN patch,
                               name |-> id]
    BY Zenon DEF BranchResult, patch
  <2> QED
    BY <2>4, <2>5, <2>6, <2>7 DEF ctx
<1> QED
  BY <1>1, Zenon DEF Forked, Results

LEMMA ForkedMergeable ==
    ASSUME NEW c, NEW ids, IsSeq(ids)
    PROVE  /\ Mergeable(Results(c, ids)) /\ DOMAIN Results(c, ids) = DOMAIN ids
           /\ \A b \in DOMAIN ids :
                  /\ Results(c, ids)[b].name = ids[b]
                  /\ Results(c, ids)[b].written = KeysOf(c.table[ids[b]].writes)
<1> DEFINE results == Results(c, ids)
<1>1. results = [b \in DOMAIN ids |-> BranchResult(c, ids[b])]
  BY ForkedIs
<1> HIDE DEF results
<1>2. Len(ids) \in Nat /\ DOMAIN ids = 1..Len(ids)
  BY SeqIs
<1>3. IsSeq(results)
  <2>1. results = [b \in 1..Len(ids) |-> results[b]]
    BY <1>1, <1>2
  <2> QED
    BY <1>2, <2>1, FunctionIsSeq
<1>4. ASSUME NEW b \in DOMAIN ids
      PROVE  /\ results[b] = BranchResult(c, ids[b])
             /\ results[b].name = ids[b]
             /\ results[b].written = KeysOf(c.table[ids[b]].writes)
             /\ results[b].written \subseteq DOMAIN results[b].data
  <2> DEFINE patch == Patch(c.table[ids[b]], Initial)
  <2>1. DOMAIN patch = KeysOf(c.table[ids[b]].writes)
    BY DEF Patch
  <2>2. results[b] = BranchResult(c, ids[b])
    BY <1>1
  <2>3. BranchResult(c, ids[b]) = [data |-> Over(patch, Initial), written |-> DOMAIN patch,
                                   name |-> ids[b]]
    BY Zenon DEF BranchResult
  <2>4. DOMAIN patch \subseteq DOMAIN Over(patch, Initial)
    BY DEF Over
  <2> HIDE DEF patch
  <2>5. /\ results[b].name = ids[b] /\ results[b].written = DOMAIN patch
        /\ results[b].data = Over(patch, Initial)
    BY <2>2, <2>3
  <2> QED
    BY <2>1, <2>2, <2>4, <2>5
<1>5. DOMAIN results = DOMAIN ids
  BY <1>1
<1>6. Mergeable(results)
  <2>1. ASSUME NEW i \in DOMAIN ids, NEW j \in DOMAIN ids, results[i].name = results[j].name
        PROVE  results[i] = results[j]
    <3>1. results[i] = BranchResult(c, ids[i]) /\ results[j] = BranchResult(c, ids[j])
      BY <1>4
    <3>2. ids[i] = ids[j]
      BY <1>4, <2>1
    <3> QED
      BY <3>1, <3>2, Zenon
  <2> QED
    BY <1>3, <1>4, <1>5, <2>1 DEF Mergeable
<1> QED
  BY <1>4, <1>5, <1>6 DEF results

LEMMA ReverseMergeable ==
    ASSUME NEW bs, Mergeable(bs)
    PROVE  /\ Mergeable(Reverse(bs))
           /\ \A i \in DOMAIN bs : \E j \in DOMAIN Reverse(bs) : bs[i] = Reverse(bs)[j]
           /\ \A j \in DOMAIN Reverse(bs) : \E i \in DOMAIN bs : bs[i] = Reverse(bs)[j]
<1> DEFINE rev == Reverse(bs)
           n == Len(bs)
<1>1. n \in Nat /\ DOMAIN bs = 1..n
  BY SeqIs DEF Mergeable
<1>2. rev = [i \in 1..n |-> bs[(n - i) + 1]]
  BY Zenon DEF Reverse
<1> HIDE DEF rev, n
<1>3. DOMAIN rev = 1..n /\ \A i \in 1..n : rev[i] = bs[(n - i) + 1]
  BY <1>2
<1>4. \A i \in 1..n : (n - i) + 1 \in 1..n /\ (n - ((n - i) + 1)) + 1 = i
  BY <1>1
<1>5. IsSeq(rev)
  <2>1. rev = [i \in 1..n |-> rev[i]]
    BY <1>2
  <2> QED
    BY <1>1, <2>1, FunctionIsSeq
<1>6. ASSUME NEW i \in 1..n PROVE \E j \in 1..n : bs[i] = rev[j]
  BY <1>3, <1>4
<1>7. ASSUME NEW j \in 1..n PROVE \E i \in 1..n : bs[i] = rev[j]
  BY <1>3, <1>4
<1>8. Mergeable(rev)
  <2>1. ASSUME NEW i \in 1..n
        PROVE  rev[i].written \subseteq DOMAIN rev[i].data
    BY <1>1, <1>7 DEF Mergeable
  <2>2. ASSUME NEW i \in 1..n, NEW j \in 1..n, rev[i].name = rev[j].name
        PROVE  rev[i] = rev[j]
    <3>1. PICK u, v \in 1..n : bs[u] = rev[i] /\ bs[v] = rev[j]
      BY <1>7
    <3> QED
      BY <1>1, <2>2, <3>1 DEF Mergeable
  <2> QED
    BY <1>3, <1>5, <2>1, <2>2 DEF Mergeable
<1> QED
  BY <1>1, <1>3, <1>6, <1>7, <1>8 DEF rev

LEMMA MergedIsNoConflict ==
    ASSUME NEW data, NEW written
    PROVE  MergedInto(Create(Initial), data, written) # MergeConflict
<1>1. MergedInto(Create(Initial), data, written) =
          [data |-> data, written |-> written, name |-> "root"]
  BY DEF MergedInto, Create
<1>2. DOMAIN [data |-> data, written |-> written, name |-> "root"] # DOMAIN MergeConflict
  BY DEF MergeConflict
<1> QED
  BY <1>1, <1>2, Zenon

(***************************************************************************)
(* A compiled block: the order of its branches never decides what they     *)
(* merge to, and branches that declare what they write never conflict.     *)
(***************************************************************************)
THEOREM BlocksAlwaysMerge == Spec => []BlocksMerge
<1> DEFINE base == Create(Initial)
<1>1. base.data = [k \in DOMAIN base.data |-> base.data[k]]
  <2>1. base.data = Initial
    BY DEF Create
  <2>2. Initial = [k \in DOMAIN Initial |-> Initial[k]]
    BY DEF Initial
  <2> HIDE DEF base
  <2> QED
    BY <2>1, <2>2
<1>2. CompilerInv => BlocksMerge
  <2> SUFFICES ASSUME CompilerInv, Compiled, NEW ip \in DOMAIN out.code,
                      out.code[ip].op = "fork"
               PROVE  LET ids == out.code[ip].branches
                          results == Forked(out, ids, base)
                      IN  /\ Merge(base, Reverse(results)) = Merge(base, results)
                          /\ (\A id \in Range(ids) : out.table[id].writes # Undeclared)
                              => Merge(base, results) # MergeConflict
    BY Zenon DEF BlocksMerge
  <2> DEFINE ids == out.code[ip].branches
             results == Results(out, ids)
  <2>1. BranchesOK(ids, out.table)
    BY CompiledFinishes DEF InstrOK
  <2> HIDE DEF ids
  <2>2. /\ Mergeable(results) /\ DOMAIN results = DOMAIN ids
        /\ \A b \in DOMAIN ids : /\ results[b].name = ids[b]
                                /\ results[b].written = KeysOf(out.table[ids[b]].writes)
    <3>1. IsSeq(ids)
      BY <2>1 DEF BranchesOK
    <3> QED
      BY <3>1, ForkedMergeable
  <2> HIDE DEF results
  <2>3. Merge(base, Reverse(results)) = Merge(base, results)
    <3> HIDE DEF base
    <3> QED
      BY <1>1, <2>2, ReverseMergeable, MergeIgnoresOrder
  <2>4. ASSUME \A id \in Range(ids) : out.table[id].writes # Undeclared
        PROVE  Merge(base, results) # MergeConflict
    <3>1. Contested(results, DOMAIN results) = {}
      <4> SUFFICES ASSUME NEW k, NEW i \in DOMAIN ids, NEW j \in DOMAIN ids,
                          k \in results[i].written, k \in results[j].written,
                          results[i].name # results[j].name
                   PROVE  FALSE
        BY <2>2 DEF Contested
      <4>1. /\ ids[i] # ids[j]
            /\ k \in out.table[ids[i]].writes /\ k \in out.table[ids[j]].writes
            /\ out.table[ids[i]].writes # Undeclared /\ out.table[ids[j]].writes # Undeclared
        BY <2>2, <2>4 DEF KeysOf, Range
      <4> QED
        BY <2>1, <4>1 DEF BranchesOK, IsEmptyDecl
    <3>2. PICK d : IsMerge(Merge(base, results), d, base, results,
                           WrittenBy(results, DOMAIN results))
      <4> HIDE DEF base
      <4> QED
        BY <1>1, <2>2, <3>1, MergeIs
    <3> QED
      BY <3>2, MergedIsNoConflict DEF IsMerge
  <2> QED
    BY <2>3, <2>4 DEF results, ids, Results
<1> QED
  BY <1>2, CompilerInductive, PTL
=============================================================================
