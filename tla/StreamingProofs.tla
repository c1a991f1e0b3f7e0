-------------------------- MODULE StreamingProofs ---------------------------
(***************************************************************************)
(* Streaming keeps its contract with the client, bounds its memory and     *)
(* leaves no task behind: for every set of stages, every number of chunks  *)
(* and every size of the queues, whatever raises, times out or is closed.  *)
(***************************************************************************)
EXTENDS StreamingProps, FiniteSetTheorems, SequenceTheorems, TLAPS

-----------------------------------------------------------------------------
(* Queues.                                                                 *)

\* Every chunk of s after the k-th up to the n-th is in q.
Present(q, s, k, n) ==
    \A m \in Nat : k < m /\ m <= n => \E i \in 1..Len(q) : q[i] = <<s, m>>

\* No other is, and the later ones fit behind it.
Spaced(q, s, k, n) ==
    \A i \in 1..Len(q), m \in Nat :
        q[i] = <<s, m>> => k < m /\ m <= n /\ n - m <= Len(q) - i

Sorted(q, s) ==
    \A i, j \in 1..Len(q), m1, m2 \in Nat :
        i < j /\ q[i] = <<s, m1>> /\ q[j] = <<s, m2>> => m1 < m2

InQueue(q, s, k, n) ==
    k <= n /\ Present(q, s, k, n) /\ Spaced(q, s, k, n) /\ Sorted(q, s)

\* A queue has room for what it holds.
LEMMA QueueCounts ==
    ASSUME NEW S, NEW q \in Seq(S), NEW s, NEW k \in Nat, NEW n \in Nat,
           InQueue(q, s, k, n)
    PROVE  n - k <= Len(q)
<1> Len(q) \in Nat
  OBVIOUS
<1>1. CASE n = k
  BY <1>1
<1>2. CASE n # k
  <2>1. k < k + 1 /\ k + 1 <= n /\ k + 1 \in Nat
    BY <1>2 DEF InQueue
  <2>2. PICK i \in 1..Len(q) : q[i] = <<s, k + 1>>
    BY <2>1 DEF InQueue, Present
  <2>3. n - (k + 1) <= Len(q) - i
    BY <2>1, <2>2 DEF InQueue, Spaced
  <2> QED
    BY <2>2, <2>3
<1> QED
  BY <1>1, <1>2

\* The next chunk of s is put at the end.
LEMMA QueueNext ==
    ASSUME NEW S, NEW q \in Seq(S), NEW s, NEW k \in Nat, NEW n \in Nat,
           InQueue(q, s, k, n), <<s, n + 1>> \in S,
           NEW r, r = Append(q, <<s, n + 1>>)
    PROVE  InQueue(r, s, k, n + 1)
<1>1. /\ Len(r) = Len(q) + 1 /\ Len(q) \in Nat
      /\ \A i \in 1..Len(q) : r[i] = q[i]
      /\ r[Len(q) + 1] = <<s, n + 1>>
  OBVIOUS
<1>2. k <= n + 1
  BY DEF InQueue
<1>3. Present(r, s, k, n + 1)
  <2> SUFFICES ASSUME NEW m \in Nat, k < m, m <= n + 1
               PROVE  \E i \in 1..Len(r) : r[i] = <<s, m>>
    BY DEF Present
  <2>1. CASE m = n + 1
    BY <1>1, <2>1
  <2>2. CASE m # n + 1
    <3>1. m <= n
      BY <2>2
    <3>2. PICK i \in 1..Len(q) : q[i] = <<s, m>>
      BY <3>1 DEF InQueue, Present
    <3> QED
      BY <1>1, <3>2
  <2> QED
    BY <2>1, <2>2
<1>4. Spaced(r, s, k, n + 1)
  <2> SUFFICES ASSUME NEW i \in 1..Len(r), NEW m \in Nat, r[i] = <<s, m>>
               PROVE  k < m /\ m <= n + 1 /\ n + 1 - m <= Len(r) - i
    BY SMTT(30) DEF Spaced
  <2>1. CASE i = Len(q) + 1
    <3>1. m = n + 1
      BY <1>1, <2>1
    <3> QED
      BY <1>1, <2>1, <3>1 DEF InQueue
  <2>2. CASE i # Len(q) + 1
    <3>1. i \in 1..Len(q) /\ q[i] = <<s, m>>
      BY <1>1, <2>2
    <3>2. k < m /\ m <= n /\ n - m <= Len(q) - i
      BY <3>1 DEF InQueue, Spaced
    <3> QED
      BY <1>1, <3>1, <3>2
  <2> QED
    BY <2>1, <2>2
<1>5. Sorted(r, s)
  <2> SUFFICES ASSUME NEW i \in 1..Len(r), NEW j \in 1..Len(r),
                      NEW m1 \in Nat, NEW m2 \in Nat,
                      i < j, r[i] = <<s, m1>>, r[j] = <<s, m2>>
               PROVE  m1 < m2
    BY DEF Sorted
  <2>1. i \in 1..Len(q) /\ q[i] = <<s, m1>>
    BY <1>1
  <2>2. CASE j = Len(q) + 1
    <3>1. m2 = n + 1
      BY <1>1, <2>2
    <3>2. m1 <= n
      BY <2>1 DEF InQueue, Spaced
    <3> QED
      BY <3>1, <3>2
  <2>3. CASE j # Len(q) + 1
    <3>1. j \in 1..Len(q) /\ q[j] = <<s, m2>>
      BY <1>1, <2>3
    <3> QED
      BY <2>1, <3>1 DEF InQueue, Sorted
  <2> QED
    BY <2>2, <2>3
<1> QED
  BY <1>2, <1>3, <1>4, <1>5 DEF InQueue

\* Something else is put at the end.
LEMMA QueueOther ==
    ASSUME NEW S, NEW q \in Seq(S), NEW s, NEW k \in Nat, NEW n \in Nat,
           InQueue(q, s, k, n), NEW x \in S, \A m \in Nat : x # <<s, m>>,
           NEW r, r = Append(q, x)
    PROVE  InQueue(r, s, k, n)
<1>1. /\ Len(r) = Len(q) + 1 /\ Len(q) \in Nat
      /\ \A i \in 1..Len(q) : r[i] = q[i]
      /\ r[Len(q) + 1] = x
  OBVIOUS
<1>2. ASSUME NEW i \in 1..Len(r), NEW m \in Nat, r[i] = <<s, m>>
      PROVE  i \in 1..Len(q) /\ q[i] = <<s, m>>
  <2>1. i # Len(q) + 1
    BY <1>1, <1>2
  <2>2. i \in 1..Len(q)
    BY <1>1, <2>1
  <2> QED
    BY <1>1, <1>2, <2>2
<1>3. Present(r, s, k, n)
  <2> SUFFICES ASSUME NEW m \in Nat, k < m, m <= n
               PROVE  \E i \in 1..Len(r) : r[i] = <<s, m>>
    BY DEF Present
  <2>1. PICK i \in 1..Len(q) : q[i] = <<s, m>>
    BY DEF InQueue, Present
  <2> QED
    BY <1>1, <2>1
<1>4. Spaced(r, s, k, n)
  <2> SUFFICES ASSUME NEW i \in 1..Len(r), NEW m \in Nat, r[i] = <<s, m>>
               PROVE  k < m /\ m <= n /\ n - m <= Len(r) - i
    BY DEF Spaced
  <2>1. i \in 1..Len(q) /\ q[i] = <<s, m>>
    BY <1>2
  <2>2. k < m /\ m <= n /\ n - m <= Len(q) - i
    BY <2>1 DEF InQueue, Spaced
  <2> QED
    BY <1>1, <2>1, <2>2
<1>5. Sorted(r, s)
  <2> SUFFICES ASSUME NEW i \in 1..Len(r), NEW j \in 1..Len(r),
                      NEW m1 \in Nat, NEW m2 \in Nat,
                      i < j, r[i] = <<s, m1>>, r[j] = <<s, m2>>
               PROVE  m1 < m2
    BY DEF Sorted
  <2>1. i \in 1..Len(q) /\ q[i] = <<s, m1>> /\ j \in 1..Len(q) /\ q[j] = <<s, m2>>
    BY <1>2
  <2> QED
    BY <2>1 DEF InQueue, Sorted
<1> QED
  BY <1>3, <1>4, <1>5 DEF InQueue

\* The client takes a chunk of s: the next one.
LEMMA QueueTaken ==
    ASSUME NEW S, NEW q \in Seq(S), NEW s, NEW k \in Nat, NEW n \in Nat,
           InQueue(q, s, k, n), NEW m \in Nat, q # <<>>, Head(q) = <<s, m>>,
           NEW r, r = Tail(q)
    PROVE  m = k + 1 /\ k < n /\ InQueue(r, s, k + 1, n)
<1>1. /\ Len(q) \in Nat /\ Len(q) >= 1 /\ Len(r) = Len(q) - 1
      /\ q[1] = <<s, m>>
      /\ \A i \in 1..Len(r) : r[i] = q[i + 1]
  BY HeadTailProperties
<1>2. k < m /\ m <= n
  BY <1>1 DEF InQueue, Spaced
<1>3. m = k + 1
  <2>1. k < k + 1 /\ k + 1 <= n /\ k + 1 \in Nat
    BY <1>2
  <2>2. PICK i \in 1..Len(q) : q[i] = <<s, k + 1>>
    BY <2>1 DEF InQueue, Present
  <2>3. CASE i = 1
    BY <1>1, <2>2, <2>3
  <2>4. CASE i # 1
    <3>1. 1 \in 1..Len(q) /\ 1 < i /\ k + 1 \in Nat
      BY <1>1, <2>4
    <3>2. m < k + 1
      BY <1>1, <2>2, <3>1 DEF InQueue, Sorted
    <3> QED
      BY <1>2, <3>2
  <2> QED
    BY <2>3, <2>4
<1>4. Present(r, s, k + 1, n)
  <2> SUFFICES ASSUME NEW j \in Nat, k + 1 < j, j <= n
               PROVE  \E i \in 1..Len(r) : r[i] = <<s, j>>
    BY DEF Present
  <2> k < j
    OBVIOUS
  <2>1. PICK i \in 1..Len(q) : q[i] = <<s, j>>
    BY DEF InQueue, Present
  <2>2. i # 1
    BY <1>1, <1>3, <2>1
  <2>3. i - 1 \in 1..Len(r) /\ (i - 1) + 1 = i
    BY <1>1, <2>2
  <2>4. r[i - 1] = q[i]
    BY <1>1, <2>3
  <2> QED
    BY <2>1, <2>3, <2>4
<1>5. ASSUME NEW i \in 1..Len(r), NEW j \in Nat, r[i] = <<s, j>>
      PROVE  /\ i + 1 \in 1..Len(q) /\ q[i + 1] = <<s, j>>
             /\ k + 1 < j /\ j <= n /\ n - j <= Len(r) - i
  <2>1. i + 1 \in 1..Len(q) /\ q[i + 1] = <<s, j>>
    BY <1>1, <1>5
  <2>2. j <= n /\ n - j <= Len(q) - (i + 1)
    BY <2>1 DEF InQueue, Spaced
  <2>3. 1 \in 1..Len(q) /\ 1 < i + 1
    BY <1>1
  <2>4. m < j
    BY <1>1, <2>1, <2>3 DEF InQueue, Sorted
  <2> QED
    BY <1>1, <1>3, <2>1, <2>2, <2>4
<1>6. Sorted(r, s)
  <2> SUFFICES ASSUME NEW i \in 1..Len(r), NEW j \in 1..Len(r),
                      NEW m1 \in Nat, NEW m2 \in Nat,
                      i < j, r[i] = <<s, m1>>, r[j] = <<s, m2>>
               PROVE  m1 < m2
    BY DEF Sorted
  <2>1. /\ i + 1 \in 1..Len(q) /\ q[i + 1] = <<s, m1>>
        /\ j + 1 \in 1..Len(q) /\ q[j + 1] = <<s, m2>>
    BY <1>5
  <2>2. i + 1 < j + 1
    OBVIOUS
  <2> QED
    BY <2>1, <2>2 DEF InQueue, Sorted
<1>7. Spaced(r, s, k + 1, n)
  BY <1>5 DEF Spaced
<1> QED
  BY <1>2, <1>3, <1>4, <1>6, <1>7 DEF InQueue

\* The client takes something else.
LEMMA QueuePassed ==
    ASSUME NEW S, NEW q \in Seq(S), NEW s, NEW k \in Nat, NEW n \in Nat,
           InQueue(q, s, k, n), q # <<>>, \A m \in Nat : Head(q) # <<s, m>>,
           NEW r, r = Tail(q)
    PROVE  InQueue(r, s, k, n)
<1>1. /\ Len(q) \in Nat /\ Len(q) >= 1 /\ Len(r) = Len(q) - 1
      /\ q[1] = Head(q)
      /\ \A i \in 1..Len(r) : r[i] = q[i + 1]
  BY HeadTailProperties
<1>2. Present(r, s, k, n)
  <2> SUFFICES ASSUME NEW j \in Nat, k < j, j <= n
               PROVE  \E i \in 1..Len(r) : r[i] = <<s, j>>
    BY DEF Present
  <2>1. PICK i \in 1..Len(q) : q[i] = <<s, j>>
    BY DEF InQueue, Present
  <2>2. i # 1
    BY <1>1, <2>1
  <2>3. i - 1 \in 1..Len(r) /\ (i - 1) + 1 = i
    BY <1>1, <2>2
  <2>4. r[i - 1] = q[i]
    BY <1>1, <2>3
  <2> QED
    BY <2>1, <2>3, <2>4
<1>3. ASSUME NEW i \in 1..Len(r), NEW j \in Nat, r[i] = <<s, j>>
      PROVE  /\ i + 1 \in 1..Len(q) /\ q[i + 1] = <<s, j>>
             /\ k < j /\ j <= n /\ n - j <= Len(r) - i
  <2>1. i + 1 \in 1..Len(q) /\ q[i + 1] = <<s, j>>
    BY <1>1, <1>3
  <2>2. k < j /\ j <= n /\ n - j <= Len(q) - (i + 1)
    BY <2>1 DEF InQueue, Spaced
  <2> QED
    BY <1>1, <2>1, <2>2
<1>4. Sorted(r, s)
  <2> SUFFICES ASSUME NEW i \in 1..Len(r), NEW j \in 1..Len(r),
                      NEW m1 \in Nat, NEW m2 \in Nat,
                      i < j, r[i] = <<s, m1>>, r[j] = <<s, m2>>
               PROVE  m1 < m2
    BY DEF Sorted
  <2>1. /\ i + 1 \in 1..Len(q) /\ q[i + 1] = <<s, m1>>
        /\ j + 1 \in 1..Len(q) /\ q[j + 1] = <<s, m2>>
    BY <1>3
  <2>2. i + 1 < j + 1
    OBVIOUS
  <2> QED
    BY <2>1, <2>2 DEF InQueue, Sorted
<1>5. Spaced(r, s, k, n)
  BY <1>3 DEF Spaced
<1> QED
  BY <1>2, <1>4, <1>5 DEF InQueue

-----------------------------------------------------------------------------
(* The invariant.                                                          *)

Closing == client \in {"close", "closed"}

\* The stage has neither ended nor begun to clean up.
Alive(s) == stage[s] \in {"idle", "get", "notify", "put"}

Items == (UNION {{s} \X ChunksOf(s) : s \in Stages}) \cup {<<End>>}

Tasks == {DriverTask} \cup {ProducerTask(s) : s \in Stages}
                      \cup {StageTask(s) : s \in Stages}

Shapes ==
    /\ producer \in [Stages -> {"none", "new", "gen", "put", "end", "done"}]
    /\ stage \in [Stages -> {"idle", "get", "notify", "put", "cleanup",
                             "returned", "raised"}]
    /\ driver \in {"new", "run", "end", "done"}
    /\ client \in {"get", "hold", "close", "returned", "raised", "closed"}
    /\ inner \in [Stages -> Seq(Nat)]
    /\ outer \in Seq(Items)
    /\ held \in [Stages -> Nat]
    /\ made \in [Stages -> Nat]
    /\ fate \in [Stages -> {"running", "ended", "raised", "cancelled"}]
    /\ broken \in SUBSET Stages /\ expired \in SUBSET broken
    /\ result \in {"ok", "failed"}
    /\ got \in [Stages -> Seq(Nat)]
    /\ cancelled \in SUBSET Tasks

Ranges(s) ==
    /\ inner[s] \in Seq(ChunksOf(s) \cup {End})
    /\ held[s] \in ChunksOf(s) \cup {End}
    /\ made[s] \in ChunksOf(s) \cup {0}
    /\ got[s] \in Seq(ChunksOf(s))

Sentinel(s) ==
    \A i \in 1..Len(inner[s]) :
        inner[s][i] = End => producer[s] = "done" /\ i = Len(inner[s])

\* What the tasks of a stage know of each other.
Own(s) ==
    /\ stage[s] = "idle" <=> producer[s] = "none" /\ Alive(s)
    /\ stage[s] = "returned" => producer[s] # "none"
    /\ stage[s] = "cleanup" => producer[s] # "none"
    /\ StageOver(s) => producer[s] \in {"none", "done"}
    /\ producer[s] \in {"none", "new", "gen", "put"} => fate[s] = "running"
    /\ Alive(s) => fate[s] # "cancelled"
    /\ Alive(s) /\ producer[s] \in {"end", "done"} => fate[s] # "running"
    /\ stage[s] = "cleanup" =>
           Told(ProducerTask(s)) \/ producer[s] \in {"end", "done"}
    /\ Told(ProducerTask(s)) => /\ stage[s] = "cleanup"
                                /\ producer[s] \notin {"none", "done"}
    /\ Told(StageTask(s)) => ~StageOver(s) /\ stage[s] # "cleanup"
    /\ Told(StageTask(s)) \/ stage[s] = "cleanup" => s \in broken \/ Closing
    /\ stage[s] # "idle" \/ Told(StageTask(s)) => driver # "new"
    /\ Alive(s) => (held[s] # End <=> stage[s] \in {"notify", "put"})

Holding(s) == IF held[s] # End THEN 1 ELSE 0

Chunks(s) == IF producer[s] = "done" THEN Len(inner[s]) - 1 ELSE Len(inner[s])

Putting(s) == IF producer[s] = "put" THEN 1 ELSE 0

\* n chunks have left the stage: the next is held, the others follow.
Rest(s, n) ==
    /\ held[s] # End => held[s] = n + 1
    /\ \A i \in 1..Chunks(s) : inner[s][i] = n + Holding(s) + i
    /\ made[s] = n + Holding(s) + Chunks(s) + Putting(s)
    /\ producer[s] = "done" => /\ inner[s] # <<>>
                               /\ inner[s][Len(inner[s])] = End

Finished(s, n) ==
    /\ stage[s] = "returned" => n = made[s] /\ fate[s] = "ended"
    /\ stage[s] = "raised" => \/ s \in broken \/ Closing
                              \/ fate[s] = "raised" /\ n = made[s]

Place(s, n) == n <= made[s] /\ (Alive(s) => Rest(s, n)) /\ Finished(s, n)

\* The chunks of s, in order: received, in the outer queue, with the stage,
\* in the inner queue, with the producer.
Flow(s) ==
    \E n \in Nat : InQueue(outer, s, Len(got[s]), n) /\ Place(s, n)

Behind(s) ==
    \A i, j \in 1..Len(outer), m \in Nat :
        i < j /\ outer[i] = <<End>> => outer[j] # <<s, m>>

\* The end of the run.
Ends ==
    /\ \A i \in 1..Len(outer) : outer[i] = <<End>> => driver = "done"
    /\ Told(DriverTask) => Closing /\ driver # "done"
    /\ Over => driver = "done"
    /\ client = "returned" => result = "ok"

\* What the result says, no chunk behind the sentinel contradicts.
Verdict ==
    driver \in {"end", "done"} =>
        /\ result = "ok" => \A s \in Stages : stage[s] = "returned" /\ Behind(s)
        /\ result = "failed" /\ ~Closing =>
               \/ \A s \in Stages : stage[s] = "returned" /\ Behind(s)
               \/ \E s \in Stages : stage[s] = "raised" /\ Behind(s)

Bounded ==
    /\ Len(outer) <= OuterSize
    /\ \A s \in Stages : Len(inner[s]) <= InnerSize

\* A CALL is waited for by its driver.
Single ==
    \A s \in Stages :
        Stages = {s} =>
            /\ driver \in {"end", "done"} => stage[s] = "idle" \/ StageOver(s)
            /\ driver = "run" /\ Told(DriverTask) => StageOver(s)

\* A stage's part of the invariant.
OfStage(s) == Ranges(s) /\ Sentinel(s) /\ Own(s) /\ Flow(s)

StreamInv ==
    /\ Shapes
    /\ \A s \in Stages : OfStage(s)
    /\ Ends /\ Verdict /\ Bounded /\ Single /\ Backpressure

-----------------------------------------------------------------------------
(* Names.                                                                  *)

\* A cancellation has one addressee.
LEMMA TaskNames ==
    /\ \A s, t \in Stages : ProducerTask(s) # StageTask(t)
    /\ \A s \in Stages : ProducerTask(s) # DriverTask /\ StageTask(s) # DriverTask
    /\ \A s, t \in Stages : ProducerTask(s) = ProducerTask(t) => s = t
    /\ \A s, t \in Stages : StageTask(s) = StageTask(t) => s = t
    /\ DriverTask \in Tasks
    /\ \A s \in Stages : ProducerTask(s) \in Tasks /\ StageTask(s) \in Tasks
BY DEF ProducerTask, StageTask, DriverTask, Tasks

\* A chunk is not the sentinel and says whose it is.
LEMMA ChunkNames ==
    /\ \A s, m : <<s, m>> # <<End>>
    /\ \A s, m, t, k : <<s, m>> = <<t, k>> => s = t /\ m = k
    /\ \A s \in Stages : \A m \in ChunksOf(s) : <<s, m>> \in Items
    /\ <<End>> \in Items
    /\ \A x \in Items :
           x # <<End>> => \E s \in Stages : \E m \in ChunksOf(s) : x = <<s, m>>
<1>1. \A s, m : <<s, m>> # <<End>>
  OBVIOUS
<1>2. \A s, m, t, k : <<s, m>> = <<t, k>> => s = t /\ m = k
  OBVIOUS
<1> DEFINE Chunk == UNION {{s} \X ChunksOf(s) : s \in Stages}
<1>3. ASSUME NEW s \in Stages, NEW m \in ChunksOf(s) PROVE <<s, m>> \in Items
  <2>1. <<s, m>> \in {s} \X ChunksOf(s)
    OBVIOUS
  <2>2. {s} \X ChunksOf(s) \in {{t} \X ChunksOf(t) : t \in Stages}
    OBVIOUS
  <2>3. <<s, m>> \in Chunk
    BY <2>1, <2>2, Zenon
  <2> QED
    BY <2>3, Zenon DEF Items
<1>4. <<End>> \in Items
  BY Zenon DEF Items
<1>5. ASSUME NEW x \in Items, x # <<End>>
      PROVE  \E s \in Stages : \E m \in ChunksOf(s) : x = <<s, m>>
  <2>1. x \in Chunk
    BY <1>5, Zenon DEF Items
  <2>2. PICK s \in Stages : x \in {s} \X ChunksOf(s)
    BY <2>1, Zenon
  <2> QED
    BY <2>2
<1> QED
  BY <1>1, <1>2, <1>3, <1>4, <1>5

\* The invariant holds of the types, as TypeOK states them.
LEMMA StreamInvTyped ==
    ASSUME StreamInv
    PROVE  TypeOK
<1> USE DEF StreamInv, Shapes
<1>1. \A s \in Stages : Ranges(s) /\ Sentinel(s) /\ Own(s)
  BY DEF OfStage
<1>2. \A s \in Stages : DOMAIN inner[s] = 1..Len(inner[s])
  BY LenProperties
<1>3. outer \in Seq((UNION {{s} \X ChunksOf(s) : s \in Stages}) \cup {<<End>>})
  BY DEF Items
<1>4. cancelled \in SUBSET ({DriverTask} \cup {ProducerTask(s) : s \in Stages}
                                          \cup {StageTask(s) : s \in Stages})
  BY DEF Tasks
<1>5. ASSUME NEW s \in Stages
      PROVE  /\ Told(ProducerTask(s)) => producer[s] \notin {"none", "done"}
             /\ Told(StageTask(s)) => ~StageOver(s) /\ stage[s] # "cleanup"
             /\ stage[s] \in {"notify", "put"} => held[s] # End
  BY <1>1 DEF Own, Alive
<1>6. ASSUME NEW s \in Stages, NEW i \in DOMAIN inner[s], inner[s][i] = End
      PROVE  producer[s] = "done" /\ i = Len(inner[s])
  BY <1>1, <1>2, <1>6 DEF Sentinel
<1>7. Told(DriverTask) => driver # "done"
  BY DEF Ends
<1> QED
  BY <1>1, <1>3, <1>4, <1>5, <1>6, <1>7 DEF TypeOK, Ranges

\* The invariant holds initially.
LEMMA StreamInvInit == Init => StreamInv
<1> SUFFICES ASSUME Init PROVE StreamInv
  OBVIOUS
<1> USE DEF Init
<1>1. Shapes
  <2>1. outer \in Seq(Items) /\ cancelled \in SUBSET Tasks
    OBVIOUS
  <2>2. inner \in [Stages -> Seq(Nat)] /\ got \in [Stages -> Seq(Nat)]
    OBVIOUS
  <2>3. held \in [Stages -> Nat] /\ made \in [Stages -> Nat]
    BY DEF End
  <2> QED
    BY <2>1, <2>2, <2>3 DEF Shapes
<1>2. ASSUME NEW s \in Stages PROVE OfStage(s)
  <2>1. Ranges(s) /\ Sentinel(s)
    BY DEF Ranges, Sentinel, End
  <2>2. Own(s)
    BY DEF Own, Alive, StageOver, Told, End
  <2>3. InQueue(outer, s, Len(got[s]), 0)
    BY DEF InQueue, Present, Spaced, Sorted
  <2>4. Place(s, 0)
    BY DEF Place, Rest, Finished, Holding, Chunks, Putting, Alive, End
  <2> QED
    BY <2>1, <2>2, <2>3, <2>4 DEF OfStage, Flow
<1>3. Ends /\ Verdict /\ Bounded /\ Single
  BY SizesPositive DEF Ends, Verdict, Bounded, Single, Told, Over
<1>4. Backpressure
  BY SizesPositive DEF Backpressure
<1> QED
  BY <1>1, <1>2, <1>3, <1>4 DEF StreamInv

-----------------------------------------------------------------------------
(* A step that concerns one stage.                                         *)

\* The stage t and the cancellation of its tasks are as they were.
Same(t) ==
    /\ producer'[t] = producer[t] /\ stage'[t] = stage[t]
    /\ inner'[t] = inner[t] /\ held'[t] = held[t]
    /\ made'[t] = made[t] /\ fate'[t] = fate[t]
    /\ Told(ProducerTask(t))' <=> Told(ProducerTask(t))
    /\ Told(StageTask(t))' <=> Told(StageTask(t))

\* What happens to a stage does not stop having happened.
Lasting ==
    /\ broken \subseteq broken'
    /\ Closing => Closing'
    /\ driver' = "new" => driver = "new"

\* A stage nothing happens to keeps its part.
LEMMA SameStage ==
    ASSUME NEW t \in Stages, Same(t), Lasting, got'[t] = got[t]
    PROVE  /\ Ranges(t) => Ranges(t)'
           /\ Sentinel(t) => Sentinel(t)'
           /\ Own(t) => Own(t)'
           /\ \A n \in Nat : Place(t, n) => Place(t, n)'
<1>1. Ranges(t) => Ranges(t)'
  BY DEF Same, Ranges
<1>2. Sentinel(t) => Sentinel(t)'
  BY DEF Same, Sentinel
<1>3. Own(t) => Own(t)'
  BY DEF Same, Lasting, Own, Alive, StageOver
<1>4. ASSUME NEW n \in Nat, Place(t, n) PROVE Place(t, n)'
  <2>1. Rest(t, n) => Rest(t, n)'
    BY DEF Same, Rest, Holding, Chunks, Putting
  <2>2. Finished(t, n) => Finished(t, n)'
    BY DEF Same, Lasting, Finished
  <2> QED
    BY <1>4, <2>1, <2>2 DEF Same, Place, Alive
<1> QED
  BY <1>1, <1>2, <1>3, <1>4

\* s passes on what it holds.
Sends(s) ==
    /\ ~StageOver(s) /\ held[s] # End
    /\ Len(outer) < OuterSize
    /\ outer' = Append(outer, <<s, held[s]>>)

\* A step of the tasks of s leaves the rest alone.
StepOf(s) ==
    /\ \A t \in Stages \ {s} : Same(t)
    /\ UNCHANGED <<driver, client, result, got>>
    /\ Told(DriverTask)' <=> Told(DriverTask)
    /\ broken \subseteq broken'
    /\ outer' = outer \/ Sends(s)
    /\ StageOver(s) => stage'[s] = stage[s]
    /\ stage[s] = "idle" => driver = "run" \/ stage'[s] \in {"idle", "raised"}
    /\ Len(inner'[s]) <= InnerSize
    /\ made'[s] = made[s] \/ Alive(s)'

\* What is sent is a chunk of s, no other's and not the sentinel.
LEMMA SentIsChunk ==
    ASSUME Shapes, NEW s \in Stages, Ranges(s), Sends(s)
    PROVE  /\ <<s, held[s]>> \in Items /\ <<s, held[s]>> # <<End>>
           /\ outer' \in Seq(Items) /\ Len(outer') = Len(outer) + 1
           /\ \A i \in 1..Len(outer) : outer'[i] = outer[i]
           /\ outer'[Len(outer) + 1] = <<s, held[s]>>
<1>1. held[s] \in ChunksOf(s)
  BY DEF Ranges, Sends
<1>2. <<s, held[s]>> \in Items /\ <<s, held[s]>> # <<End>>
  BY <1>1, ChunkNames
<1> QED
  BY <1>2, AppendProperties DEF Sends, Shapes

\* The chunks of another stage are where they were in the outer queue.
LEMMA SentKeepsOthers ==
    ASSUME Shapes, NEW s \in Stages, Ranges(s), outer' = outer \/ Sends(s),
           NEW t \in Stages \ {s}, NEW k \in Nat, NEW n \in Nat,
           InQueue(outer, t, k, n)
    PROVE  InQueue(outer', t, k, n)
<1>1. CASE outer' = outer
  BY <1>1
<1>2. CASE Sends(s)
  <2>1. <<s, held[s]>> \in Items /\ \A m \in Nat : <<s, held[s]>> # <<t, m>>
    BY <1>2, SentIsChunk
  <2>2. outer \in Seq(Items) /\ outer' = Append(outer, <<s, held[s]>>)
    BY <1>2 DEF Sends, Shapes
  <2> QED
    BY <2>1, <2>2, QueueOther
<1> QED
  BY <1>1, <1>2

\* Nothing of a stage that is over is sent behind the sentinel.
LEMMA SentKeepsBehind ==
    ASSUME Shapes, NEW s \in Stages, Ranges(s), outer' = outer \/ Sends(s),
           NEW t \in Stages, StageOver(t), Behind(t)
    PROVE  Behind(t)'
<1>1. CASE outer' = outer
  BY <1>1 DEF Behind
<1>2. CASE Sends(s)
  <2>1. t # s
    BY <1>2 DEF Sends
  <2> SUFFICES ASSUME NEW i \in 1..Len(outer'), NEW j \in 1..Len(outer'),
                      NEW m \in Nat, i < j, outer'[i] = <<End>>
               PROVE  outer'[j] # <<t, m>>
    BY DEF Behind
  <2>2. /\ Len(outer') = Len(outer) + 1
        /\ \A l \in 1..Len(outer) : outer'[l] = outer[l]
        /\ outer'[Len(outer) + 1] = <<s, held[s]>>
    BY <1>2, SentIsChunk
  <2>0. Len(outer) \in Nat
    BY LenProperties DEF Shapes
  <2>3. CASE j = Len(outer) + 1
    BY <2>1, <2>2, <2>3, ChunkNames
  <2>4. CASE j # Len(outer) + 1
    <3>1. i \in 1..Len(outer) /\ j \in 1..Len(outer)
      BY <2>0, <2>2, <2>4
    <3>2. outer[i] = <<End>> /\ outer'[j] = outer[j]
      BY <2>2, <3>1
    <3> QED
      BY <3>1, <3>2 DEF Behind
  <2> QED
    BY <2>3, <2>4
<1> QED
  BY <1>1, <1>2

\* How far a generator is ahead.
LEMMA FlowBounds ==
    ASSUME Shapes, Bounded, NEW s \in Stages, Flow(s), Alive(s)
    PROVE  made[s] - Len(got[s]) <= InnerSize + OuterSize + 2
<1> USE DEF Shapes
<1>0. /\ Len(got[s]) \in Nat /\ Len(inner[s]) \in Nat /\ Len(outer) \in Nat
      /\ OuterSize \in Nat /\ InnerSize \in Nat /\ made[s] \in Nat
  BY LenProperties, SizesPositive
<1>1. PICK n \in Nat : InQueue(outer, s, Len(got[s]), n) /\ Rest(s, n)
  BY DEF Flow, Place
<1>2. n - Len(got[s]) <= OuterSize
  <2>1. n - Len(got[s]) <= Len(outer)
    BY <1>0, <1>1, QueueCounts
  <2> QED
    BY <1>0, <2>1 DEF Bounded
<1>3. /\ Holding(s) \in {0, 1} /\ Putting(s) \in {0, 1}
      /\ Chunks(s) \in Int /\ Chunks(s) <= InnerSize
  BY <1>0 DEF Holding, Putting, Chunks, Bounded
<1>4. made[s] = n + Holding(s) + Chunks(s) + Putting(s)
  BY <1>1 DEF Rest
<1> QED
  BY <1>0, <1>2, <1>3, <1>4, SMTT(30)

\* Its part of the invariant and the types are all there is to show of it.
LEMMA StepOfStage ==
    ASSUME StreamInv, NEW s \in Stages, StepOf(s), Shapes',
           Ranges(s)', Sentinel(s)', Own(s)', Flow(s)'
    PROVE  StreamInv'
<1> USE DEF StreamInv
<1>0. /\ Lasting /\ Ranges(s)
      /\ outer' = outer \/ Sends(s)
      /\ \A t \in Stages \ {s} : Same(t) /\ got'[t] = got[t]
  BY DEF StepOf, Lasting, Closing, OfStage
<1>1. ASSUME NEW t \in Stages PROVE OfStage(t)'
  <2>1. CASE t = s
    BY <2>1 DEF OfStage
  <2>2. CASE t # s
    <3>0. Same(t) /\ got'[t] = got[t] /\ Lasting
      BY <1>0, <2>2
    <3>1. Ranges(t)' /\ Sentinel(t)' /\ Own(t)'
      <4>1. Ranges(t) /\ Sentinel(t) /\ Own(t)
        BY DEF OfStage
      <4> QED
        BY <3>0, <4>1, SameStage
    <3>2. PICK n \in Nat : InQueue(outer, t, Len(got[t]), n) /\ Place(t, n)
      BY DEF OfStage, Flow
    <3>3. Place(t, n)'
      BY <3>0, <3>2, SameStage
    <3>4. Len(got[t]) \in Nat
      BY LenProperties DEF Shapes
    <3>5. InQueue(outer', t, Len(got[t]), n)
      <4>1. t \in Stages \ {s} /\ Shapes
        BY <2>2
      <4> QED
        BY <1>0, <3>2, <3>4, <4>1, SentKeepsOthers
    <3>6. InQueue(outer, t, Len(got[t]), n)'
      BY <3>0, <3>5 DEF InQueue, Present, Spaced, Sorted
    <3> QED
      BY <3>1, <3>3, <3>6 DEF OfStage, Flow
  <2> QED
    BY <2>1, <2>2
<1>2. Ends'
  <2>1. ASSUME NEW i \in 1..Len(outer'), outer'[i] = <<End>>
        PROVE  driver = "done"
    <3>1. CASE outer' = outer
      BY <2>1, <3>1 DEF Ends
    <3>2. CASE Sends(s)
      <4>1. Len(outer) \in Nat
        BY LenProperties DEF Shapes
      <4>2. /\ Len(outer') = Len(outer) + 1
            /\ \A l \in 1..Len(outer) : outer'[l] = outer[l]
            /\ outer'[Len(outer) + 1] # <<End>>
        BY <1>0, <3>2, SentIsChunk
      <4>3. i # Len(outer) + 1
        BY <2>1, <4>2
      <4>4. i \in 1..Len(outer)
        BY <4>1, <4>2, <4>3
      <4>5. outer[i] = <<End>>
        BY <2>1, <4>2, <4>4
      <4> QED
        BY <4>4, <4>5 DEF Ends
    <3> QED
      BY <1>0, <3>1, <3>2
  <2> QED
    BY <2>1 DEF Ends, StepOf, Closing, Over
<1>3. \A t \in Stages : StageOver(t) => stage'[t] = stage[t]
  BY DEF StepOf, Same
<1>4. Verdict'
  <2>1. \A t \in Stages :
            StageOver(t) /\ Behind(t) => Behind(t)' /\ stage'[t] = stage[t]
    <3> SUFFICES ASSUME NEW t \in Stages, StageOver(t), Behind(t)
                 PROVE  Behind(t)' /\ stage'[t] = stage[t]
      OBVIOUS
    <3>1. Shapes
      OBVIOUS
    <3> QED
      BY <1>0, <1>3, <3>1, SentKeepsBehind
  <2>2. driver' = driver /\ result' = result /\ (Closing' <=> Closing)
    BY DEF StepOf, Closing
  <2> QED
    BY <2>1, <2>2 DEF Verdict, StageOver
<1>5. Bounded'
  <2>1. Len(outer') <= OuterSize
    <3>1. CASE outer' = outer
      BY <3>1 DEF Bounded
    <3>2. CASE Sends(s)
      <4>1. Len(outer) \in Nat /\ OuterSize \in Nat
        BY LenProperties, SizesPositive DEF Shapes
      <4> QED
        BY <1>0, <3>2, <4>1, SentIsChunk DEF Sends
    <3> QED
      BY <1>0, <3>1, <3>2
  <2> QED
    BY <2>1 DEF Bounded, StepOf, Same
<1>6. Single'
  <2> SUFFICES ASSUME Stages = {s} PROVE Single'
    BY DEF Single
  <2>1. driver' = driver /\ (Told(DriverTask)' <=> Told(DriverTask))
    BY DEF StepOf
  <2>2. driver \in {"end", "done"} => stage[s] = "idle" \/ StageOver(s)
    BY DEF Single
  <2>3. driver = "run" /\ Told(DriverTask) => StageOver(s)
    BY DEF Single
  <2> QED
    BY <1>3, <2>1, <2>2, <2>3 DEF Single, StageOver, StepOf
<1>7. Backpressure'
  <2> SUFFICES ASSUME NEW t \in Stages
               PROVE  made'[t] - Len(got'[t]) <= InnerSize + OuterSize + 2
    BY DEF Backpressure
  <2>1. CASE made'[t] = made[t]
    BY <2>1 DEF Backpressure, StepOf
  <2>2. CASE made'[t] # made[t]
    <3>1. t = s /\ Alive(s)'
      BY <2>2 DEF StepOf, Same
    <3> QED
      <4>1. Flow(s)' /\ Alive(s)' /\ Shapes' /\ Bounded'
        BY <1>5, <3>1
      <4>2. (made[s] - Len(got[s]) <= InnerSize + OuterSize + 2)'
        BY <4>1, FlowBounds, PTL
      <4> QED
        BY <3>1, <4>2
  <2> QED
    BY <2>1, <2>2
<1> QED
  BY <1>1, <1>2, <1>4, <1>5, <1>6, <1>7

\* The invariant, taken apart for one stage.
LEMMA StageFacts ==
    ASSUME StreamInv, NEW s \in Stages
    PROVE  /\ Shapes /\ Ranges(s) /\ Sentinel(s) /\ Own(s) /\ Flow(s)
           /\ inner[s] \in Seq(Nat) /\ Len(inner[s]) \in Nat
           /\ held[s] \in Nat /\ made[s] \in Nat /\ MaxChunks[s] \in Nat
           /\ Len(inner[s]) <= InnerSize /\ InnerSize \in Nat \ {0}
BY LenProperties, SizesPositive, ChunksNat
   DEF StreamInv, OfStage, Shapes, Bounded

\* The chunks of s stay where they are in the outer queue.
LEMMA FlowStays ==
    ASSUME NEW s \in Stages, Flow(s), outer' = outer, got'[s] = got[s],
           \A n \in Nat : Place(s, n) => Place(s, n)'
    PROVE  Flow(s)'
BY DEF Flow, InQueue, Present, Spaced, Sorted

-----------------------------------------------------------------------------
(* The producer.                                                           *)

LEMMA StartProducerKeeps ==
    ASSUME StreamInv, NEW s \in Stages, StartProducer(s)
    PROVE  StreamInv'
<1> USE StageFacts DEF StartProducer
<1>1. Shapes'
  BY DEF Shapes
<1>2. producer'[s] = "gen" /\ producer[s] = "new"
  BY DEF Shapes
<1>3. Ranges(s)' /\ Sentinel(s)'
  BY <1>2 DEF Ranges, Sentinel
<1>4. Own(s)'
  BY <1>2 DEF Own, Alive, StageOver, Told, Closing
<1>5. Flow(s)'
  <2>1. ASSUME NEW n \in Nat, Place(s, n) PROVE Place(s, n)'
    BY <1>2, <2>1
       DEF Place, Alive, Rest, Holding, Chunks, Putting, Finished, Closing
  <2> QED
    BY <2>1, FlowStays
<1>6. StepOf(s)
  BY DEF StepOf, Same, Told, Shapes
<1> QED
  BY <1>1, <1>3, <1>4, <1>5, <1>6, StepOfStage

\* A producer that can go on has a stage that will take what it makes.
LEMMA ProducerHasStage ==
    ASSUME NEW s \in Stages, Own(s), Shapes, ~Told(ProducerTask(s)),
           producer[s] \in {"new", "gen", "put"}
    PROVE  stage[s] \in {"get", "notify", "put"} /\ fate[s] = "running"
BY DEF Own, Alive, StageOver, Shapes

LEMMA YieldKeeps ==
    ASSUME StreamInv, NEW s \in Stages, Yield(s)
    PROVE  StreamInv'
<1> USE StageFacts DEF Yield
<1>1. stage[s] \in {"get", "notify", "put"} /\ fate[s] = "running"
  BY ProducerHasStage
<1>2. /\ made'[s] = made[s] + 1 /\ made[s] + 1 \in ChunksOf(s)
      /\ made[s] + 1 \in Nat /\ made[s] + 1 # End
  BY DEF ChunksOf, Shapes, End
<1>3. \/ /\ inner'[s] = Append(inner[s], made[s] + 1) /\ producer'[s] = "gen"
         /\ Len(inner[s]) < InnerSize
      \/ inner'[s] = inner[s] /\ producer'[s] = "put"
  BY DEF Shapes, HasRoom
<1>4. inner'[s] = Append(inner[s], made[s] + 1) =>
          /\ inner'[s] \in Seq(ChunksOf(s) \cup {End})
          /\ Len(inner'[s]) = Len(inner[s]) + 1
          /\ \A i \in 1..Len(inner[s]) : inner'[s][i] = inner[s][i]
          /\ inner'[s][Len(inner[s]) + 1] = made[s] + 1
  BY <1>2, AppendProperties DEF Ranges
<1>5. Shapes'
  <2>0. Append(inner[s], made[s] + 1) \in Seq(Nat)
    BY <1>2
  <2>1. inner' \in [Stages -> Seq(Nat)]
    BY <2>0 DEF Shapes
  <2>2. made' \in [Stages -> Nat]
    BY <1>2 DEF Shapes
  <2> QED
    BY <2>1, <2>2 DEF Shapes
<1>6. Ranges(s)'
  BY <1>2, <1>3, <1>4 DEF Ranges
<1>7. Sentinel(s)'
  <2> SUFFICES ASSUME NEW i \in 1..Len(inner'[s]), inner'[s][i] = End
               PROVE  FALSE
    BY DEF Sentinel
  <2>1. i # Len(inner[s]) + 1
    BY <1>2, <1>3, <1>4
  <2>2. i \in 1..Len(inner[s]) /\ inner[s][i] = End
    BY <1>3, <1>4, <2>1, SMTT(30)
  <2> QED
    BY <2>2 DEF Sentinel
<1>8. Own(s)'
  BY <1>1, <1>3 DEF Own, Alive, StageOver, Told, Closing, Shapes
<1>9. Flow(s)'
  <2> SUFFICES ASSUME NEW n \in Nat, Place(s, n) PROVE Place(s, n)'
    BY FlowStays
  <2>1. Rest(s, n) /\ n <= made[s]
    BY <1>1 DEF Place, Alive
  <2>2. Holding(s)' = Holding(s) /\ Holding(s) \in {0, 1}
    BY DEF Holding
  <2>3. made[s] = n + Holding(s) + Len(inner[s])
    BY <2>1, <2>2 DEF Rest, Chunks, Putting
  <2>4. Rest(s, n)'
    <3>1. CASE producer'[s] = "put"
      <4>1. Chunks(s)' = Len(inner[s]) /\ Chunks(s) = Len(inner[s])
        BY <1>3, <3>1 DEF Chunks
      <4>2. Putting(s)' = 1
        BY <3>1 DEF Putting
      <4>3. made'[s] = n + Holding(s)' + Chunks(s)' + Putting(s)'
        BY <1>2, <2>2, <2>3, <4>1, <4>2
      <4>4. inner'[s] = inner[s] /\ held'[s] = held[s]
        BY <1>3, <3>1
      <4> QED
        BY <2>1, <2>2, <3>1, <4>1, <4>3, <4>4 DEF Rest
    <3>2. CASE producer'[s] = "gen"
      <4>1. Chunks(s)' = Len(inner[s]) + 1 /\ Chunks(s) = Len(inner[s])
        BY <1>3, <1>4, <3>2 DEF Chunks
      <4>2. Putting(s)' = 0
        BY <3>2 DEF Putting
      <4>3. ASSUME NEW i \in 1..Chunks(s)'
            PROVE  inner'[s][i] = n + Holding(s) + i
        <5>1. CASE i = Len(inner[s]) + 1
          BY <1>3, <1>4, <2>2, <2>3, <3>2, <5>1
        <5>2. CASE i # Len(inner[s]) + 1
          <6>1. i \in 1..Len(inner[s])
            BY <4>1, <5>2
          <6> QED
            BY <1>3, <1>4, <2>1, <3>2, <4>1, <6>1 DEF Rest
        <5> QED
          BY <5>1, <5>2
      <4>4. made'[s] = n + Holding(s)' + Chunks(s)' + Putting(s)'
        <5>1. Len(inner[s]) \in Nat
          OBVIOUS
        <5> HIDE StageFacts DEF Yield
        <5>2. made'[s] = (n + Holding(s) + Len(inner[s])) + 1
          BY <1>2, <2>3
        <5>3. made'[s] = n + Holding(s) + (Len(inner[s]) + 1) + 0
          BY <2>2, <5>1, <5>2
        <5> QED
          BY <2>2, <4>1, <4>2, <5>3
      <4> QED
        BY <2>1, <2>2, <3>2, <4>3, <4>4 DEF Rest
    <3> QED
      BY <1>3, <3>1, <3>2
  <2>5. Finished(s, n)' /\ n <= made'[s]
    BY <1>1, <1>2, <2>1 DEF Finished
  <2> QED
    BY <2>4, <2>5 DEF Place
<1>10. StepOf(s)
  <2>1. Len(inner'[s]) <= InnerSize
    BY <1>3, <1>4
  <2> QED
    BY <1>1, <2>1 DEF StepOf, Same, Told, Shapes, Alive, StageOver
<1> QED
  BY <1>5, <1>6, <1>7, <1>8, <1>9, <1>10, StepOfStage

\* A chunk or the sentinel is put into the inner queue.
LEMMA InnerAppended ==
    ASSUME StreamInv, NEW s \in Stages, NEW x \in ChunksOf(s) \cup {End},
           inner' = [inner EXCEPT ![s] = Append(@, x)]
    PROVE  /\ inner' \in [Stages -> Seq(Nat)]
           /\ inner'[s] \in Seq(ChunksOf(s) \cup {End})
           /\ Len(inner'[s]) = Len(inner[s]) + 1
           /\ \A i \in 1..Len(inner[s]) : inner'[s][i] = inner[s][i]
           /\ inner'[s][Len(inner[s]) + 1] = x
<1> USE StageFacts
<1>1. x \in Nat
  BY DEF ChunksOf, End
<1>2. Append(inner[s], x) \in Seq(Nat)
  BY <1>1
<1>3. inner' \in [Stages -> Seq(Nat)] /\ inner'[s] = Append(inner[s], x)
  BY <1>2 DEF Shapes
<1> QED
  BY <1>3, AppendProperties DEF Ranges

LEMMA PutChunkKeeps ==
    ASSUME StreamInv, NEW s \in Stages, PutChunk(s)
    PROVE  StreamInv'
<1> USE StageFacts DEF PutChunk
<1>1. stage[s] \in {"get", "notify", "put"} /\ fate[s] = "running"
  BY ProducerHasStage
<1>2. /\ producer'[s] = "gen" /\ Len(inner[s]) < InnerSize
      /\ inner' = [inner EXCEPT ![s] = Append(@, made[s])]
  BY DEF Shapes, HasRoom
<1>3. made[s] \in ChunksOf(s) /\ made[s] # End
  <2>1. PICK n \in Nat : Rest(s, n)
    BY <1>1 DEF Flow, Place, Alive
  <2>2. made[s] = n + Holding(s) + Len(inner[s]) + 1
    BY <2>1 DEF Rest, Chunks, Putting
  <2>3. Holding(s) \in {0, 1}
    BY DEF Holding
  <2>4. made[s] # 0
    BY <2>2, <2>3
  <2> QED
    BY <2>4 DEF Ranges, End
<1>4. /\ inner' \in [Stages -> Seq(Nat)]
      /\ inner'[s] \in Seq(ChunksOf(s) \cup {End})
      /\ Len(inner'[s]) = Len(inner[s]) + 1
      /\ \A i \in 1..Len(inner[s]) : inner'[s][i] = inner[s][i]
      /\ inner'[s][Len(inner[s]) + 1] = made[s]
  BY <1>2, <1>3, InnerAppended
<1>5. Shapes'
  BY <1>4 DEF Shapes
<1>6. Ranges(s)'
  BY <1>4 DEF Ranges
<1>7. Sentinel(s)'
  <2> SUFFICES ASSUME NEW i \in 1..Len(inner'[s]), inner'[s][i] = End
               PROVE  FALSE
    BY DEF Sentinel
  <2>1. i # Len(inner[s]) + 1
    BY <1>3, <1>4
  <2>2. i \in 1..Len(inner[s]) /\ inner[s][i] = End
    BY <1>4, <2>1
  <2> QED
    BY <2>2 DEF Sentinel
<1>8. Own(s)'
  BY <1>1, <1>2 DEF Own, Alive, StageOver, Told, Closing, Shapes
<1>9. Flow(s)'
  <2> SUFFICES ASSUME NEW n \in Nat, Place(s, n) PROVE Place(s, n)'
    BY FlowStays
  <2>1. Rest(s, n) /\ n <= made[s]
    BY <1>1 DEF Place, Alive
  <2>2. Holding(s)' = Holding(s) /\ Holding(s) \in {0, 1}
    BY DEF Holding
  <2>3. made[s] = n + Holding(s) + Len(inner[s]) + 1
    BY <2>1, <2>2 DEF Rest, Chunks, Putting
  <2>4. /\ Chunks(s)' = Len(inner[s]) + 1 /\ Chunks(s) = Len(inner[s])
        /\ Putting(s)' = 0
    BY <1>2, <1>4 DEF Chunks, Putting
  <2>5. ASSUME NEW i \in 1..Chunks(s)'
        PROVE  inner'[s][i] = n + Holding(s) + i
    <3>1. CASE i = Len(inner[s]) + 1
      <4>1. inner'[s][i] = made[s] /\ Len(inner[s]) \in Nat
        BY <1>4, <3>1
      <4> HIDE StageFacts DEF PutChunk
      <4> QED
        BY <2>2, <2>3, <3>1, <4>1
    <3>2. CASE i # Len(inner[s]) + 1
      <4>1. i \in 1..Len(inner[s])
        BY <2>4, <3>2
      <4> QED
        BY <1>4, <2>1, <2>4, <4>1 DEF Rest
    <3> QED
      BY <3>1, <3>2
  <2>6. made'[s] = n + Holding(s)' + Chunks(s)' + Putting(s)'
    <3>1. made'[s] = made[s] /\ Len(inner[s]) \in Nat
      OBVIOUS
    <3> HIDE StageFacts DEF PutChunk
    <3> QED
      BY <2>2, <2>3, <2>4, <3>1
  <2>7. Rest(s, n)'
    BY <1>2, <2>1, <2>2, <2>5, <2>6 DEF Rest
  <2>8. Finished(s, n)' /\ n <= made'[s]
    BY <1>1, <2>1 DEF Finished
  <2> QED
    BY <2>7, <2>8 DEF Place
<1>10. StepOf(s)
  <2>1. Len(inner'[s]) <= InnerSize
    BY <1>2, <1>4
  <2> QED
    BY <1>1, <2>1 DEF StepOf, Same, Told, Shapes, Alive, StageOver
<1> QED
  BY <1>5, <1>6, <1>7, <1>8, <1>9, <1>10, StepOfStage

\* The sentinel goes in or the producer waits for room for it.
LEMMA PutEndFacts ==
    ASSUME StreamInv, NEW s \in Stages, PutEnd(s), producer[s] # "done"
    PROVE  /\ inner' \in [Stages -> Seq(Nat)]
           /\ producer' \in [Stages -> {"none", "new", "gen", "put", "end", "done"}]
           /\ \A t \in Stages \ {s} :
                  producer'[t] = producer[t] /\ inner'[t] = inner[t]
           /\ inner'[s] \in Seq(ChunksOf(s) \cup {End})
           /\ Len(inner'[s]) <= InnerSize
           /\ \A i \in 1..Len(inner[s]) : inner'[s][i] = inner[s][i]
           /\ \/ /\ producer'[s] = "done" /\ Len(inner'[s]) = Len(inner[s]) + 1
                 /\ inner'[s][Len(inner'[s])] = End /\ inner'[s] # <<>>
              \/ producer'[s] = "end" /\ inner'[s] = inner[s]
           /\ Sentinel(s)'
<1> USE StageFacts DEF PutEnd, HasRoom
<1>1. CASE Len(inner[s]) < InnerSize
  <2>1. inner' = [inner EXCEPT ![s] = Append(@, End)]
    BY <1>1
  <2>2. producer' = [producer EXCEPT ![s] = "done"]
    BY <1>1
  <2>3. /\ inner' \in [Stages -> Seq(Nat)]
        /\ inner'[s] \in Seq(ChunksOf(s) \cup {End})
        /\ Len(inner'[s]) = Len(inner[s]) + 1
        /\ \A i \in 1..Len(inner[s]) : inner'[s][i] = inner[s][i]
        /\ inner'[s][Len(inner[s]) + 1] = End
    BY <2>1, InnerAppended
  <2>4. inner'[s] # <<>>
    BY <2>3
  <2>5. Sentinel(s)'
    <3> SUFFICES ASSUME NEW i \in 1..Len(inner'[s]), inner'[s][i] = End,
                        i # Len(inner[s]) + 1
                 PROVE  FALSE
      BY <2>2, <2>3 DEF Sentinel, Shapes
    <3>1. i \in 1..Len(inner[s]) /\ inner[s][i] = End
      BY <2>3, SMTT(30)
    <3> QED
      BY <3>1 DEF Sentinel
  <2> QED
    BY <1>1, <2>1, <2>2, <2>3, <2>4, <2>5 DEF Shapes
<1>2. CASE ~(Len(inner[s]) < InnerSize)
  BY <1>2 DEF Shapes, Ranges, Sentinel
<1> QED
  BY <1>1, <1>2

\* Behind the chunks of the producer comes the sentinel, if any.
LEMMA PutEndRest ==
    ASSUME StreamInv, NEW s \in Stages, PutEnd(s), NEW n \in Nat, Rest(s, n),
           producer[s] \in {"gen", "end"},
           held'[s] = held[s], made'[s] = made[s]
    PROVE  Rest(s, n)'
<1> USE StageFacts
<1>1. /\ \A i \in 1..Len(inner[s]) : inner'[s][i] = inner[s][i]
      /\ \/ /\ producer'[s] = "done" /\ Len(inner'[s]) = Len(inner[s]) + 1
            /\ inner'[s][Len(inner'[s])] = End /\ inner'[s] # <<>>
         \/ producer'[s] = "end" /\ inner'[s] = inner[s]
  BY PutEndFacts
<1>2. Holding(s)' = Holding(s)
  BY DEF Holding
<1>3. /\ Chunks(s) = Len(inner[s]) /\ Chunks(s)' = Len(inner[s])
      /\ Putting(s) = 0 /\ Putting(s)' = 0
  BY <1>1 DEF Chunks, Putting
<1> QED
  BY <1>1, <1>2, <1>3 DEF Rest

LEMMA GeneratorEndsKeeps ==
    ASSUME StreamInv, NEW s \in Stages, GeneratorEnds(s)
    PROVE  StreamInv'
<1> USE StageFacts DEF GeneratorEnds
<1>1. stage[s] \in {"get", "notify", "put"} /\ fate[s] = "running"
  BY ProducerHasStage
<1>2. PutEnd(s) /\ producer[s] = "gen" /\ fate'[s] \in {"ended", "raised"}
  BY DEF Shapes
<1>3. /\ inner' \in [Stages -> Seq(Nat)]
      /\ producer' \in [Stages -> {"none", "new", "gen", "put", "end", "done"}]
      /\ \A t \in Stages \ {s} :
             producer'[t] = producer[t] /\ inner'[t] = inner[t]
      /\ inner'[s] \in Seq(ChunksOf(s) \cup {End})
      /\ Len(inner'[s]) <= InnerSize
      /\ producer'[s] \in {"done", "end"}
      /\ Sentinel(s)'
  BY <1>2, PutEndFacts
<1>4. Shapes'
  BY <1>3 DEF Shapes
<1>5. Ranges(s)'
  BY <1>3 DEF Ranges
<1>6. Own(s)'
  BY <1>1, <1>2, <1>3 DEF Own, Alive, StageOver, Told, Closing, Shapes
<1>7. Flow(s)'
  <2> SUFFICES ASSUME NEW n \in Nat, Place(s, n) PROVE Place(s, n)'
    BY FlowStays
  <2>1. Rest(s, n) /\ n <= made[s]
    BY <1>1 DEF Place, Alive
  <2>2. Rest(s, n)'
    BY <1>2, <2>1, PutEndRest
  <2> QED
    BY <1>1, <2>1, <2>2 DEF Place, Finished
<1>8. StepOf(s)
  BY <1>1, <1>3 DEF StepOf, Same, Told, Shapes, Alive, StageOver
<1> QED
  BY <1>3, <1>4, <1>5, <1>6, <1>7, <1>8, StepOfStage

LEMMA PutProducerEndKeeps ==
    ASSUME StreamInv, NEW s \in Stages, PutProducerEnd(s)
    PROVE  StreamInv'
<1> USE StageFacts DEF PutProducerEnd
<1>1. PutEnd(s) /\ producer[s] = "end"
  OBVIOUS
<1>2. /\ inner' \in [Stages -> Seq(Nat)]
      /\ producer' \in [Stages -> {"none", "new", "gen", "put", "end", "done"}]
      /\ \A t \in Stages \ {s} :
             producer'[t] = producer[t] /\ inner'[t] = inner[t]
      /\ inner'[s] \in Seq(ChunksOf(s) \cup {End})
      /\ Len(inner'[s]) <= InnerSize
      /\ producer'[s] \in {"done", "end"}
      /\ Sentinel(s)'
  BY <1>1, PutEndFacts
<1>3. Shapes'
  BY <1>2 DEF Shapes
<1>4. Ranges(s)'
  BY <1>2 DEF Ranges
<1>5. Own(s)'
  BY <1>1, <1>2 DEF Own, Alive, StageOver, Told, Closing, Shapes
<1>6. Flow(s)'
  <2> SUFFICES ASSUME NEW n \in Nat, Place(s, n) PROVE Place(s, n)'
    BY FlowStays
  <2>1. Rest(s, n) => Rest(s, n)'
    BY <1>1, PutEndRest
  <2> QED
    BY <2>1 DEF Place, Finished, Alive, Closing
<1>7. StepOf(s)
  BY <1>2 DEF StepOf, Same, Told, Shapes, Alive, StageOver
<1> QED
  BY <1>2, <1>3, <1>4, <1>5, <1>6, <1>7, StepOfStage

\* Its cancellation, which no other task awaits, is dealt with.
LEMMA ProducerCancelledKeeps ==
    ASSUME StreamInv, NEW s \in Stages, ProducerCancelled(s)
    PROVE  StreamInv'
<1> USE StageFacts, TaskNames DEF ProducerCancelled
<1>1. /\ stage[s] = "cleanup" /\ producer[s] \notin {"none", "done"}
      /\ stage' = stage
  BY DEF Own
<1>2. /\ inner' \in [Stages -> Seq(Nat)]
      /\ producer' \in [Stages -> {"none", "new", "gen", "put", "end", "done"}]
      /\ \A t \in Stages \ {s} :
             producer'[t] = producer[t] /\ inner'[t] = inner[t]
      /\ inner'[s] \in Seq(ChunksOf(s) \cup {End})
      /\ Len(inner'[s]) <= InnerSize
      /\ producer'[s] \in {"done", "end"}
      /\ Sentinel(s)'
  <2>1. CASE producer[s] \in {"gen", "put"}
    <3>1. PutEnd(s)
      BY <2>1
    <3> QED
      BY <1>1, <3>1, PutEndFacts
  <2>2. CASE producer[s] \notin {"gen", "put"}
    <3>1. inner' = inner /\ producer' = [producer EXCEPT ![s] = "done"]
      BY <2>2
    <3>2. Sentinel(s)'
      BY <3>1 DEF Sentinel, Shapes
    <3> QED
      BY <3>1, <3>2 DEF Shapes, Ranges
  <2> QED
    BY <2>1, <2>2
<1>3. fate'[s] # "running" /\ fate' \in [Stages ->
          {"running", "ended", "raised", "cancelled"}]
  BY DEF Shapes
<1>4. /\ ~Told(ProducerTask(s))'
      /\ Told(StageTask(s))' <=> Told(StageTask(s))
      /\ Told(DriverTask)' <=> Told(DriverTask)
      /\ \A t \in Stages \ {s} :
             /\ Told(ProducerTask(t))' <=> Told(ProducerTask(t))
             /\ Told(StageTask(t))' <=> Told(StageTask(t))
      /\ cancelled' \in SUBSET Tasks
  BY DEF Told, Shapes
<1>5. Shapes'
  BY <1>2, <1>3, <1>4 DEF Shapes
<1>6. Ranges(s)'
  BY <1>2 DEF Ranges
<1>7. Own(s)'
  BY <1>1, <1>2, <1>3, <1>4 DEF Own, Alive, StageOver, Closing
<1>8. Flow(s)'
  <2>1. ASSUME NEW n \in Nat, Place(s, n) PROVE Place(s, n)'
    BY <1>1, <2>1 DEF Place, Finished, Alive
  <2> QED
    BY <2>1, FlowStays
<1>9. StepOf(s)
  <2>1. \A t \in Stages \ {s} : fate'[t] = fate[t]
    BY DEF Shapes
  <2> QED
    BY <1>1, <1>2, <1>4, <2>1 DEF StepOf, Same, StageOver
<1> QED
  BY <1>2, <1>5, <1>6, <1>7, <1>8, <1>9, StepOfStage

-----------------------------------------------------------------------------
(* The task of a stage.                                                    *)

LEMMA StartStageKeeps ==
    ASSUME StreamInv, NEW s \in Stages, StartStage(s)
    PROVE  StreamInv'
<1> USE StageFacts DEF StartStage
<1>1. /\ stage[s] = "idle" /\ stage'[s] = "get"
      /\ producer[s] = "none" /\ producer'[s] = "new"
  BY DEF Shapes, Own
<1>2. Shapes'
  BY DEF Shapes
<1>3. Ranges(s)' /\ Sentinel(s)'
  BY <1>1 DEF Ranges, Sentinel
<1>4. Own(s)'
  BY <1>1 DEF Own, Alive, StageOver, Told, Closing
<1>5. Flow(s)'
  <2>1. ASSUME NEW n \in Nat, Place(s, n) PROVE Place(s, n)'
    BY <1>1, <2>1
       DEF Place, Alive, Rest, Holding, Chunks, Putting, Finished, Closing
  <2> QED
    BY <2>1, FlowStays
<1>6. StepOf(s)
  BY <1>1 DEF StepOf, Same, Told, Shapes, StageOver
<1> QED
  BY <1>2, <1>3, <1>4, <1>5, <1>6, StepOfStage

\* The head of the inner queue is taken.
LEMMA InnerTaken ==
    ASSUME StreamInv, NEW s \in Stages, inner[s] # <<>>,
           inner' = [inner EXCEPT ![s] = Tail(@)]
    PROVE  /\ inner' \in [Stages -> Seq(Nat)]
           /\ inner'[s] \in Seq(ChunksOf(s) \cup {End})
           /\ Len(inner'[s]) = Len(inner[s]) - 1
           /\ \A i \in 1..Len(inner'[s]) : inner'[s][i] = inner[s][i + 1]
           /\ Head(inner[s]) = inner[s][1]
           /\ Head(inner[s]) \in ChunksOf(s) \cup {End}
           /\ Head(inner[s]) \in Nat
           /\ Len(inner[s]) \in Nat /\ Len(inner[s]) >= 1
<1> USE StageFacts
<1>1. Tail(inner[s]) \in Seq(Nat)
  BY HeadTailProperties
<1>2. inner' \in [Stages -> Seq(Nat)] /\ inner'[s] = Tail(inner[s])
  BY <1>1 DEF Shapes
<1>3. Len(inner[s]) >= 1
  BY EmptySeq
<1>4. inner[s] \in Seq(ChunksOf(s) \cup {End})
  BY DEF Ranges
<1>5. /\ Head(inner[s]) \in ChunksOf(s) \cup {End}
      /\ Tail(inner[s]) \in Seq(ChunksOf(s) \cup {End})
      /\ Len(Tail(inner[s])) = Len(inner[s]) - 1
      /\ \A i \in 1..Len(Tail(inner[s])) : Tail(inner[s])[i] = inner[s][i + 1]
  BY <1>4, HeadTailProperties
<1>6. Head(inner[s]) = inner[s][1]
  BY <1>3
<1> QED
  BY <1>2, <1>3, <1>5, <1>6, HeadTailProperties DEF ChunksOf, End

LEMMA TakeKeeps ==
    ASSUME StreamInv, NEW s \in Stages, Take(s)
    PROVE  StreamInv'
<1> USE StageFacts DEF Take
<1>1. /\ inner' \in [Stages -> Seq(Nat)]
      /\ inner'[s] \in Seq(ChunksOf(s) \cup {End})
      /\ Len(inner'[s]) = Len(inner[s]) - 1
      /\ \A i \in 1..Len(inner'[s]) : inner'[s][i] = inner[s][i + 1]
      /\ Head(inner[s]) = inner[s][1]
      /\ Head(inner[s]) \in ChunksOf(s) \cup {End}
      /\ Head(inner[s]) \in Nat
      /\ Len(inner[s]) \in Nat /\ Len(inner[s]) >= 1
  BY InnerTaken
<1>2. /\ stage[s] = "get" /\ stage'[s] = "notify"
      /\ held'[s] = inner[s][1] /\ held'[s] # End /\ producer' = producer
  BY <1>1 DEF Shapes
<1>3. held[s] = End
  BY <1>2 DEF Own, Alive
<1>4. Shapes'
  BY <1>1 DEF Shapes
<1>5. Ranges(s)'
  BY <1>1, <1>2 DEF Ranges
<1>6. Sentinel(s)'
  <2> SUFFICES ASSUME NEW i \in 1..Len(inner'[s]), inner'[s][i] = End
               PROVE  producer'[s] = "done" /\ i = Len(inner'[s])
    BY DEF Sentinel
  <2>1. i + 1 \in 1..Len(inner[s]) /\ inner[s][i + 1] = End
    BY <1>1
  <2>2. producer[s] = "done" /\ i + 1 = Len(inner[s])
    BY <2>1 DEF Sentinel
  <2>3. i = Len(inner'[s])
    <3> HIDE StageFacts DEF Take
    <3> QED
      BY <1>1, <2>2
  <2> QED
    BY <1>2, <2>2, <2>3
<1>7. Own(s)'
  BY <1>2 DEF Own, Alive, StageOver, Told, Closing
<1>8. Flow(s)'
  <2> SUFFICES ASSUME NEW n \in Nat, Place(s, n) PROVE Place(s, n)'
    BY FlowStays
  <2>1. Rest(s, n) /\ n <= made[s]
    BY <1>2 DEF Place, Alive
  <2>2. Holding(s) = 0 /\ Holding(s)' = 1
    BY <1>2, <1>3 DEF Holding
  <2>3. Putting(s)' = Putting(s)
    BY <1>2 DEF Putting
  <2>4. producer[s] = "done" => /\ Len(inner[s]) >= 2
                                /\ inner[s][Len(inner[s])] = End
    BY <1>1, <1>2, <2>1 DEF Rest
  <2>5. /\ Chunks(s) \in Nat /\ Chunks(s) >= 1 /\ Chunks(s)' = Chunks(s) - 1
        /\ Chunks(s)' <= Len(inner'[s])
    BY <1>1, <1>2, <2>4 DEF Chunks
  <2>6. held'[s] = n + 1
    <3>1. 1 \in 1..Chunks(s)
      BY <2>5
    <3>2. inner[s][1] = n + 0 + 1
      BY <2>1, <2>2, <3>1 DEF Rest
    <3> QED
      BY <1>2, <3>2
  <2>7. ASSUME NEW i \in 1..Chunks(s)'
        PROVE  inner'[s][i] = n + 1 + i
    <3>1. i + 1 \in 1..Chunks(s) /\ i \in 1..Len(inner'[s])
      BY <1>1, <2>5
    <3>2. inner'[s][i] = inner[s][i + 1]
      BY <1>1, <3>1
    <3>3. inner[s][i + 1] = n + 0 + (i + 1)
      BY <2>1, <2>2, <3>1 DEF Rest
    <3>4. n + 0 + (i + 1) = n + 1 + i
      BY <3>1
    <3> QED
      BY <3>2, <3>3, <3>4
  <2>8. made'[s] = n + 1 + Chunks(s)' + Putting(s)'
    <3>1. made[s] = n + 0 + Chunks(s) + Putting(s) /\ made'[s] = made[s]
      BY <2>1, <2>2 DEF Rest
    <3>2. Putting(s) \in {0, 1}
      BY DEF Putting
    <3> HIDE StageFacts DEF Take
    <3> QED
      BY <2>3, <2>5, <3>1, <3>2
  <2>9. producer'[s] = "done" => /\ inner'[s] # <<>>
                                 /\ inner'[s][Len(inner'[s])] = End
    <3> SUFFICES ASSUME producer'[s] = "done"
                 PROVE  inner'[s] # <<>> /\ inner'[s][Len(inner'[s])] = End
      OBVIOUS
    <3>1. Len(inner'[s]) >= 1 /\ Len(inner'[s]) \in 1..Len(inner'[s])
      BY <1>1, <1>2, <2>4
    <3>2. inner'[s][Len(inner'[s])] = inner[s][Len(inner'[s]) + 1]
      BY <1>1, <3>1
    <3>3. Len(inner'[s]) + 1 = Len(inner[s])
      BY <1>1
    <3>4. inner'[s][Len(inner'[s])] = End
      BY <1>2, <2>4, <3>2, <3>3
    <3>5. inner'[s] # <<>>
      <4>1. Len(<<>>) # Len(inner'[s])
        BY <3>1
      <4> QED
        BY <4>1
    <3> QED
      BY <3>4, <3>5
  <2>10. Rest(s, n)'
    BY <2>2, <2>6, <2>7, <2>8, <2>9 DEF Rest
  <2> QED
    BY <1>2, <2>1, <2>10 DEF Place, Finished
<1>9. StepOf(s)
  <2>1. Len(inner'[s]) <= InnerSize
    BY <1>1
  <2> QED
    BY <1>2, <2>1 DEF StepOf, Same, Told, Shapes, StageOver
<1> QED
  BY <1>4, <1>5, <1>6, <1>7, <1>8, <1>9, StepOfStage

LEMMA TakeEndKeeps ==
    ASSUME StreamInv, NEW s \in Stages, TakeEnd(s)
    PROVE  StreamInv'
<1> USE StageFacts DEF TakeEnd
<1>1. /\ inner' \in [Stages -> Seq(Nat)]
      /\ inner'[s] \in Seq(ChunksOf(s) \cup {End})
      /\ Len(inner'[s]) = Len(inner[s]) - 1
      /\ Head(inner[s]) = inner[s][1]
      /\ Len(inner[s]) \in Nat /\ Len(inner[s]) >= 1
  BY InnerTaken
<1>2. stage[s] = "get" /\ stage'[s] = StageResult(s) /\ held[s] = End
  BY DEF Shapes, Own, Alive
<1>3. producer[s] = "done" /\ Len(inner[s]) = 1 /\ Len(inner'[s]) = 0
  <2>1. 1 \in 1..Len(inner[s]) /\ inner[s][1] = End
    BY <1>1
  <2> QED
    BY <1>1, <2>1 DEF Sentinel
<1>4. \/ stage'[s] = "returned" /\ fate[s] = "ended"
      \/ stage'[s] = "raised" /\ fate[s] = "raised"
  BY <1>2, <1>3 DEF StageResult, Own, Alive, Shapes
<1>5. Shapes'
  BY <1>1, <1>4 DEF Shapes
<1>6. Ranges(s)' /\ Sentinel(s)'
  BY <1>1, <1>3 DEF Ranges, Sentinel
<1>7. Own(s)'
  BY <1>2, <1>3, <1>4 DEF Own, Alive, StageOver, Told, Closing
<1>8. Flow(s)'
  <2> SUFFICES ASSUME NEW n \in Nat, Place(s, n) PROVE Place(s, n)'
    BY FlowStays
  <2>1. Rest(s, n)
    BY <1>2 DEF Place, Alive
  <2>2. made[s] = n
    BY <1>2, <1>3, <2>1 DEF Rest, Holding, Chunks, Putting
  <2> QED
    BY <1>4, <2>2 DEF Place, Finished, Alive
<1>9. StepOf(s)
  BY <1>2, <1>3 DEF StepOf, Same, Told, Shapes, StageOver
<1> QED
  BY <1>5, <1>6, <1>7, <1>8, <1>9, StepOfStage

\* A chunk goes from the stage into the outer queue.
LEMMA PassOnKeeps ==
    ASSUME StreamInv, NEW s \in Stages, stage[s] \in {"notify", "put"},
           HasRoom(outer, OuterSize), PassOn(s),
           UNCHANGED <<producer, driver, client, inner, made, fate, broken,
                       expired, result, got, cancelled>>
    PROVE  StreamInv'
<1> USE StageFacts DEF PassOn
<1>1. held[s] # End /\ held'[s] = End /\ stage'[s] = "get"
  BY DEF Shapes, Own, Alive
<1>2. Sends(s)
  BY <1>1 DEF Sends, StageOver, HasRoom
<1>3. /\ <<s, held[s]>> \in Items /\ outer' \in Seq(Items)
  BY <1>2, SentIsChunk
<1>4. Shapes'
  <2>1. held' \in [Stages -> Nat] /\ stage' \in [Stages ->
            {"idle", "get", "notify", "put", "cleanup", "returned", "raised"}]
    BY DEF Shapes, End
  <2> QED
    BY <1>3, <2>1 DEF Shapes
<1>5. Ranges(s)' /\ Sentinel(s)'
  BY <1>1 DEF Ranges, Sentinel
<1>6. Own(s)'
  BY <1>1 DEF Own, Alive, StageOver, Told, Closing
<1>7. Flow(s)'
  <2>1. PICK n \in Nat : InQueue(outer, s, Len(got[s]), n) /\ Place(s, n)
    BY DEF Flow
  <2>2. Rest(s, n) /\ held[s] = n + 1
    BY <1>1, <2>1 DEF Place, Rest, Alive
  <2>3. Len(got[s]) \in Nat /\ outer \in Seq(Items) /\ <<s, n + 1>> \in Items
    BY <1>3, <2>2, LenProperties DEF Shapes
  <2>4. outer' = Append(outer, <<s, n + 1>>)
    BY <2>2
  <2>5. InQueue(outer', s, Len(got[s]), n + 1)
    BY <2>1, <2>3, <2>4, QueueNext
  <2>6. /\ Holding(s) = 1 /\ Holding(s)' = 0
        /\ Chunks(s)' = Chunks(s) /\ Putting(s)' = Putting(s)
    BY <1>1 DEF Holding, Chunks, Putting
  <2>7. Chunks(s) \in Nat /\ Putting(s) \in Nat
    BY <2>2, EmptySeq DEF Rest, Chunks, Putting
  <2>8. made[s] = n + 1 + Chunks(s) + Putting(s)
    BY <2>2, <2>6 DEF Rest
  <2>9. made[s] = n + 1 + 0 + Chunks(s) + Putting(s) /\ n + 1 <= made[s]
    BY <2>7, <2>8
  <2>10. \A i \in 1..Chunks(s) : inner[s][i] = n + 1 + 0 + i
    <3> SUFFICES ASSUME NEW i \in 1..Chunks(s)
                 PROVE  inner[s][i] = n + 1 + 0 + i
      OBVIOUS
    <3>1. inner[s][i] = n + 1 + i
      BY <2>2, <2>6 DEF Rest
    <3> QED
      BY <3>1
  <2>11. Rest(s, n + 1)'
    BY <1>1, <2>2, <2>6, <2>9, <2>10 DEF Rest
  <2>12. Place(s, n + 1)'
    BY <1>1, <2>9, <2>11 DEF Place, Finished
  <2>13. InQueue(outer, s, Len(got[s]), n + 1)'
    BY <2>5 DEF InQueue, Present, Spaced, Sorted
  <2>14. n + 1 \in Nat
    OBVIOUS
  <2> QED
    BY <2>12, <2>13, <2>14 DEF Flow
<1>8. StepOf(s)
  BY <1>1, <1>2 DEF StepOf, Same, Told, Shapes, StageOver
<1> QED
  BY <1>4, <1>5, <1>6, <1>7, <1>8, StepOfStage

LEMMA NotifyKeeps ==
    ASSUME StreamInv, NEW s \in Stages, Notify(s)
    PROVE  StreamInv'
<1>1. CASE HasRoom(outer, OuterSize)
  BY <1>1, PassOnKeeps DEF Notify
<1>2. CASE ~HasRoom(outer, OuterSize)
  <2> USE <1>2, StageFacts DEF Notify
  <2>1. stage[s] = "notify" /\ stage'[s] = "put"
    BY DEF Shapes
  <2>2. Shapes'
    BY ZenonT(60) DEF Shapes
  <2>3. Ranges(s)' /\ Sentinel(s)'
    BY <2>1 DEF Ranges, Sentinel
  <2>4. Own(s)'
    BY <2>1 DEF Own, Alive, StageOver, Told, Closing
  <2>5. Flow(s)'
    <3>1. ASSUME NEW n \in Nat, Place(s, n) PROVE Place(s, n)'
      BY <2>1, <3>1
         DEF Place, Alive, Rest, Holding, Chunks, Putting, Finished, Closing
    <3> QED
      BY <3>1, FlowStays
  <2>6. StepOf(s)
    BY <2>1 DEF StepOf, Same, Told, Shapes, StageOver
  <2> QED
    BY <2>2, <2>3, <2>4, <2>5, <2>6, StepOfStage
<1> QED
  BY <1>1, <1>2

LEMMA PutOuterKeeps ==
    ASSUME StreamInv, NEW s \in Stages, PutOuter(s)
    PROVE  StreamInv'
BY PassOnKeeps DEF PutOuter

\* A stage is broken off: it cancels its producer or, if that is done, ends.
LEMMA AbortKeeps ==
    ASSUME StreamInv, NEW s \in Stages, Abort(s),
           stage[s] \in {"get", "notify", "put"},
           s \in broken' \/ Closing, broken \subseteq broken',
           broken' \in SUBSET Stages,
           UNCHANGED <<producer, driver, client, inner, outer, held, made,
                       fate, expired, result, got>>
    PROVE  StreamInv'
<1> USE StageFacts, TaskNames DEF Abort, AbortTells
<1>1. /\ \/ producer[s] = "done" /\ stage'[s] = "raised"
         \/ producer[s] # "done" /\ stage'[s] = "cleanup"
      /\ producer[s] # "none"
  BY DEF Shapes, Own, Alive
<1>2. /\ Told(ProducerTask(s))' <=>
             producer[s] # "done" \/ Told(ProducerTask(s))
      /\ ~Told(StageTask(s))'
      /\ Told(DriverTask)' <=> Told(DriverTask)
      /\ \A t \in Stages \ {s} :
             /\ Told(ProducerTask(t))' <=> Told(ProducerTask(t))
             /\ Told(StageTask(t))' <=> Told(StageTask(t))
      /\ cancelled' \in SUBSET Tasks
  BY DEF Told, Shapes
<1>3. ~Told(ProducerTask(s))
  BY DEF Own
<1>4. Shapes'
  BY <1>2 DEF Shapes
<1>5. Ranges(s)' /\ Sentinel(s)'
  BY DEF Ranges, Sentinel
<1>6. Own(s)'
  BY <1>1, <1>2, <1>3 DEF Own, Alive, StageOver, Closing
<1>7. Flow(s)'
  <2>1. ASSUME NEW n \in Nat, Place(s, n) PROVE Place(s, n)'
    BY <1>1, <2>1 DEF Place, Alive, Finished, Closing
  <2> QED
    BY <2>1, FlowStays
<1>8. StepOf(s)
  BY <1>1, <1>2 DEF StepOf, Same, Shapes, StageOver
<1> QED
  BY <1>4, <1>5, <1>6, <1>7, <1>8, StepOfStage

LEMMA CallbackRaisesKeeps ==
    ASSUME StreamInv, NEW s \in Stages, CallbackRaises(s)
    PROVE  StreamInv'
<1>1. broken \in SUBSET Stages
  BY StageFacts DEF Shapes
<1> QED
  BY <1>1, AbortKeeps DEF CallbackRaises

LEMMA StageCancelledKeeps ==
    ASSUME StreamInv, NEW s \in Stages, StageCancelled(s)
    PROVE  StreamInv'
<1> USE StageFacts, TaskNames DEF StageCancelled
<1>1. /\ s \in broken \/ Closing
      /\ stage[s] \in {"idle", "get", "notify", "put"}
      /\ broken \in SUBSET Stages
  BY DEF Own, Shapes, StageOver
<1>2. CASE stage[s] = "idle"
  <2>1. stage'[s] = "raised" /\ producer[s] = "none"
    BY <1>2 DEF Shapes, Own
  <2>2. /\ Told(ProducerTask(s))' <=> Told(ProducerTask(s))
        /\ ~Told(StageTask(s))'
        /\ Told(DriverTask)' <=> Told(DriverTask)
        /\ \A t \in Stages \ {s} :
               /\ Told(ProducerTask(t))' <=> Told(ProducerTask(t))
               /\ Told(StageTask(t))' <=> Told(StageTask(t))
        /\ cancelled' \in SUBSET Tasks
    BY <1>2 DEF Told, Shapes
  <2>3. Shapes'
    BY <1>2, <2>2, ZenonT(60) DEF Shapes
  <2>4. Ranges(s)' /\ Sentinel(s)'
    BY DEF Ranges, Sentinel
  <2>5. Own(s)'
    <3>1. ~Told(ProducerTask(s)) /\ fate[s] = "running" /\ driver # "new"
      BY <1>2, <2>1 DEF Own
    <3> HIDE StageFacts, TaskNames
    <3> QED
      BY <2>1, <2>2, <3>1 DEF Own, Alive, StageOver, Closing
  <2>6. Flow(s)'
    <3>1. ASSUME NEW n \in Nat, Place(s, n) PROVE Place(s, n)'
      BY <1>1, <2>1, <3>1 DEF Place, Alive, Finished, Closing
    <3> QED
      BY <3>1, FlowStays
  <2>7. StepOf(s)
    BY <1>2, <2>1, <2>2 DEF StepOf, Same, Shapes, StageOver
  <2> QED
    BY <2>3, <2>4, <2>5, <2>6, <2>7, StepOfStage
<1>3. CASE stage[s] # "idle"
  BY <1>1, <1>3, AbortKeeps
<1> QED
  BY <1>2, <1>3

LEMMA CleanedUpKeeps ==
    ASSUME StreamInv, NEW s \in Stages, CleanedUp(s)
    PROVE  StreamInv'
<1> USE StageFacts DEF CleanedUp
<1>1. /\ stage[s] = "cleanup" /\ stage'[s] = "raised" /\ producer[s] = "done"
      /\ s \in broken \/ Closing
  BY DEF Shapes, Own
<1>2. Shapes'
  BY DEF Shapes
<1>3. Ranges(s)' /\ Sentinel(s)'
  BY DEF Ranges, Sentinel
<1>4. Own(s)'
  BY <1>1 DEF Own, Alive, StageOver, Told, Closing
<1>5. Flow(s)'
  <2>1. ASSUME NEW n \in Nat, Place(s, n) PROVE Place(s, n)'
    BY <1>1, <2>1 DEF Place, Alive, Finished, Closing
  <2> QED
    BY <2>1, FlowStays
<1>6. StepOf(s)
  BY <1>1 DEF StepOf, Same, Told, Shapes, StageOver
<1> QED
  BY <1>2, <1>3, <1>4, <1>5, <1>6, StepOfStage

\* Whom a cancel() reaches has not ended.
LEMMA TellsKeepsOwn ==
    ASSUME Shapes, NEW s \in Stages, Own(s), s \in broken' \/ Closing',
           Lasting, driver # "new",
           Told(ProducerTask(s))' =>
               Told(ProducerTask(s)) \/ ProducerTask(s) \in StageTells(s),
           Told(StageTask(s))' =>
               Told(StageTask(s)) \/ StageTask(s) \in StageTells(s),
           Told(ProducerTask(s)) => Told(ProducerTask(s))',
           producer'[s] = producer[s], stage'[s] = stage[s],
           held'[s] = held[s], fate'[s] = fate[s]
    PROVE  Own(s)'
BY TaskNames DEF Own, Alive, StageOver, StageTells, Lasting, Shapes

LEMMA TimeoutKeeps ==
    ASSUME StreamInv, NEW s \in Stages, Timeout(s)
    PROVE  StreamInv'
<1> USE StageFacts, TaskNames DEF Timeout
<1>1. /\ StageTells(s) \subseteq {ProducerTask(s), StageTask(s)}
      /\ broken' = broken \cup {s}
  BY DEF StageTells
<1>2. /\ Told(DriverTask)' <=> Told(DriverTask)
      /\ \A t \in Stages \ {s} :
             /\ Told(ProducerTask(t))' <=> Told(ProducerTask(t))
             /\ Told(StageTask(t))' <=> Told(StageTask(t))
      /\ cancelled' \in SUBSET Tasks
  <2>1. \A x : x # ProducerTask(s) /\ x # StageTask(s) =>
            (x \in cancelled' <=> x \in cancelled)
    BY <1>1
  <2>2. cancelled' \in SUBSET Tasks
    <3>1. {ProducerTask(s), StageTask(s)} \subseteq Tasks
      OBVIOUS
    <3>2. cancelled' = cancelled \cup StageTells(s) /\ cancelled \subseteq Tasks
      BY DEF Shapes
    <3> HIDE StageFacts, TaskNames DEF Timeout
    <3> QED
      BY <1>1, <3>1, <3>2
  <2> QED
    BY <2>1, <2>2 DEF Told
<1>3. Shapes'
  BY <1>2 DEF Shapes
<1>4. Ranges(s)' /\ Sentinel(s)'
  BY DEF Ranges, Sentinel
<1>5. Own(s)'
  <2>1. /\ Told(ProducerTask(s))' =>
               Told(ProducerTask(s)) \/ ProducerTask(s) \in StageTells(s)
        /\ Told(StageTask(s))' =>
               Told(StageTask(s)) \/ StageTask(s) \in StageTells(s)
        /\ Told(ProducerTask(s)) => Told(ProducerTask(s))'
    BY DEF Told
  <2>2. s \in broken' /\ Lasting /\ driver # "new"
    BY DEF Lasting, Closing, Own
  <2> QED
    BY <2>1, <2>2, TellsKeepsOwn
<1>6. Flow(s)'
  <2>1. ASSUME NEW n \in Nat, Place(s, n) PROVE Place(s, n)'
    BY <2>1 DEF Place, Alive, Rest, Holding, Chunks, Putting, Finished, Closing
  <2> QED
    BY <2>1, FlowStays
<1>7. StepOf(s)
  BY <1>2 DEF StepOf, Same, StageOver
<1> QED
  BY <1>3, <1>4, <1>5, <1>6, <1>7, StepOfStage

-----------------------------------------------------------------------------
(* The driver.                                                             *)

\* The sentinel is the last item, if it is there.
LEMMA NothingBehind ==
    ASSUME Shapes, Ends, driver # "done", NEW t \in Stages,
           outer' = outer \/ outer' = Append(outer, <<End>>)
    PROVE  Behind(t)'
<1>1. \A i \in 1..Len(outer) : outer[i] # <<End>>
  BY DEF Ends
<1>2. Len(outer) \in Nat /\ outer \in Seq(Items) /\ <<End>> \in Items
  BY ChunkNames, LenProperties DEF Shapes
<1>3. CASE outer' = outer
  BY <1>1, <1>3 DEF Behind
<1>4. CASE outer' = Append(outer, <<End>>)
  <2>1. /\ Len(outer') = Len(outer) + 1
        /\ \A i \in 1..Len(outer) : outer'[i] = outer[i]
    BY <1>2, <1>4, AppendProperties
  <2> SUFFICES ASSUME NEW i \in 1..Len(outer'), NEW j \in 1..Len(outer'),
                      i < j, outer'[i] = <<End>>
               PROVE  FALSE
    BY DEF Behind
  <2>2. i \in 1..Len(outer)
    BY <1>2, <2>1
  <2> QED
    BY <1>1, <2>1, <2>2
<1> QED
  BY <1>3, <1>4

\* A step of the driver: what it must show of the result and of its stages.
LEMMA DriverKeeps ==
    ASSUME StreamInv, driver # "done",
           UNCHANGED <<producer, stage, client, inner, held, made, fate,
                       broken, expired, got>>,
           cancelled' = cancelled \ {DriverTask},
           driver' \in {"run", "end", "done"}, result' \in {"ok", "failed"},
           \/ outer' = outer
           \/ /\ outer' = Append(outer, <<End>>)
              /\ HasRoom(outer, OuterSize) /\ driver' = "done",
           driver' # "run" =>
               /\ result' = "ok" => \A s \in Stages : stage[s] = "returned"
               /\ result' = "failed" /\ ~Closing =>
                      \/ \A s \in Stages : stage[s] = "returned"
                      \/ \E s \in Stages : stage[s] = "raised"
               /\ \A s \in Stages :
                      Stages = {s} => stage[s] = "idle" \/ StageOver(s)
    PROVE  StreamInv'
<1> USE DEF StreamInv
<1>1. /\ ~Told(DriverTask)' /\ cancelled' \in SUBSET Tasks
      /\ \A t \in Stages :
             /\ Told(ProducerTask(t))' <=> Told(ProducerTask(t))
             /\ Told(StageTask(t))' <=> Told(StageTask(t))
  BY TaskNames DEF Told, Shapes
<1>2. outer \in Seq(Items) /\ Len(outer) \in Nat /\ <<End>> \in Items
  BY ChunkNames, LenProperties DEF Shapes
<1>3. ~Over /\ \A i \in 1..Len(outer) : outer[i] # <<End>>
  BY DEF Ends
<1>4. outer' = outer \/ outer' = Append(outer, <<End>>)
  OBVIOUS
<1>5. Shapes'
  <2>1. outer' \in Seq(Items)
    <3>1. Append(outer, <<End>>) \in Seq(Items)
      <4> HIDE DEF StreamInv
      <4> QED
        BY <1>2, AppendProperties
    <3> HIDE DEF StreamInv
    <3> QED
      BY <1>2, <1>4, <3>1
  <2> QED
    BY <1>1, <2>1 DEF Shapes
<1>6. ASSUME NEW t \in Stages PROVE OfStage(t)'
  <2>1. Same(t) /\ Lasting /\ got'[t] = got[t]
    BY <1>1 DEF Same, Lasting, Closing
  <2>2. Ranges(t)' /\ Sentinel(t)' /\ Own(t)'
    BY <2>1, SameStage DEF OfStage
  <2>3. PICK n \in Nat : InQueue(outer, t, Len(got[t]), n) /\ Place(t, n)
    BY DEF OfStage, Flow
  <2>4. Place(t, n)'
    BY <2>1, <2>3, SameStage
  <2>5. Len(got[t]) \in Nat /\ \A m \in Nat : <<End>> # <<t, m>>
    BY ChunkNames, LenProperties DEF Shapes
  <2>6. InQueue(outer', t, Len(got[t]), n)
    BY <1>2, <1>4, <2>3, <2>5, QueueOther
  <2>7. InQueue(outer, t, Len(got[t]), n)'
    BY <2>6 DEF InQueue, Present, Spaced, Sorted
  <2> QED
    BY <2>2, <2>4, <2>7 DEF OfStage, Flow
<1>7. Ends'
  <2>1. ASSUME NEW i \in 1..Len(outer'), outer'[i] = <<End>>
        PROVE  driver' = "done"
    <3>1. CASE outer' = outer
      BY <1>3, <2>1, <3>1
    <3>2. CASE outer' # outer
      BY <3>2
    <3> QED
      BY <3>1, <3>2
  <2>2. ~Over'
    BY <1>3 DEF Over
  <2> QED
    BY <1>1, <2>1, <2>2 DEF Ends, Over
<1>8. Verdict'
  <2>1. \A t \in Stages : Behind(t)'
    BY <1>4, NothingBehind
  <2> QED
    BY <2>1 DEF Verdict, Closing
<1>9. Bounded'
  <2>1. Len(outer') <= OuterSize
    <3>1. CASE outer' = outer
      BY <3>1 DEF Bounded
    <3>2. CASE outer' = Append(outer, <<End>>) /\ HasRoom(outer, OuterSize)
      <4>1. Len(outer') = Len(outer) + 1 /\ OuterSize \in Nat
        BY <1>2, <3>2, AppendProperties, SizesPositive
      <4> QED
        BY <1>2, <3>2, <4>1 DEF HasRoom
    <3> QED
      BY <3>1, <3>2
  <2> QED
    BY <2>1 DEF Bounded
<1>10. Single'
  BY <1>1 DEF Single, StageOver
<1>11. Backpressure'
  BY DEF Backpressure
<1> QED
  BY <1>5, <1>6, <1>7, <1>8, <1>9, <1>10, <1>11

LEMMA DriverStepKeeps ==
    ASSUME StreamInv, Driver
    PROVE  StreamInv'
<1> USE DEF StreamInv
<1>0. ~Told(DriverTask) => cancelled \ {DriverTask} = cancelled
  BY DEF Told
<1>1. CASE StartDriver
  BY <1>0, <1>1, DriverKeeps DEF StartDriver, Shapes
<1>2. CASE RunEnds
  <2>1. /\ driver # "done" /\ cancelled' = cancelled \ {DriverTask}
        /\ driver' \in {"run", "end", "done"} /\ result' \in {"ok", "failed"}
        /\ \/ outer' = outer
           \/ /\ outer' = Append(outer, <<End>>)
              /\ HasRoom(outer, OuterSize) /\ driver' = "done"
    BY <1>0, <1>2 DEF RunEnds, PutDriverEnd
  <2>2. \A s \in Stages : stage[s] = "returned"
    BY <1>2 DEF RunEnds
  <2> QED
    BY <1>2, <2>1, <2>2, DriverKeeps DEF RunEnds, StageOver
<1>3. CASE RunRaises
  <2>1. /\ driver # "done" /\ cancelled' = cancelled \ {DriverTask}
        /\ driver' \in {"run", "end", "done"} /\ result' = "failed"
        /\ \/ outer' = outer
           \/ /\ outer' = Append(outer, <<End>>)
              /\ HasRoom(outer, OuterSize) /\ driver' = "done"
    BY <1>0, <1>3 DEF RunRaises, PutDriverEnd
  <2>2. \E s \in Stages : stage[s] = "raised"
    BY <1>3 DEF RunRaises
  <2>3. \A s \in Stages : Stages = {s} => StageOver(s)
    BY <2>2 DEF StageOver
  <2> QED
    BY <1>3, <2>1, <2>2, <2>3, DriverKeeps DEF RunRaises
<1>4. CASE FinishDriver
  <2>1. /\ driver = "end" /\ cancelled' = cancelled \ {DriverTask}
        /\ driver' = "done" /\ result' = result
        /\ outer' = Append(outer, <<End>>) /\ HasRoom(outer, OuterSize)
    BY <1>0, <1>4 DEF FinishDriver, PutDriverEnd
  <2>2. /\ result = "ok" => \A s \in Stages : stage[s] = "returned"
        /\ result = "failed" /\ ~Closing =>
               \/ \A s \in Stages : stage[s] = "returned"
               \/ \E s \in Stages : stage[s] = "raised"
    BY <2>1 DEF Verdict
  <2>3. \A s \in Stages : Stages = {s} => stage[s] = "idle" \/ StageOver(s)
    BY <2>1 DEF Single
  <2>4. result \in {"ok", "failed"}
    BY DEF Shapes
  <2> QED
    BY <1>4, <2>1, <2>2, <2>3, <2>4, DriverKeeps DEF FinishDriver
<1>5. CASE DriverCancelled
  <2>1. Told(DriverTask) /\ Closing /\ driver # "done"
    BY <1>5 DEF DriverCancelled, Ends
  <2>2. /\ driver' \in {"run", "end", "done"} /\ result' \in {"ok", "failed"}
        /\ \/ outer' = outer
           \/ /\ outer' = Append(outer, <<End>>)
              /\ HasRoom(outer, OuterSize) /\ driver' = "done"
        /\ cancelled' = cancelled \ {DriverTask}
        /\ \/ driver = "end" /\ result' = result
           \/ result' = "failed"
    BY <1>5 DEF DriverCancelled, PutDriverEnd, Shapes
  <2>3. result' = "ok" => \A s \in Stages : stage[s] = "returned"
    BY <2>2 DEF Verdict
  <2>4. ASSUME NEW s \in Stages, Stages = {s}
        PROVE  stage[s] = "idle" \/ StageOver(s)
    <3>1. driver = "new" => stage[s] = "idle"
      BY DEF OfStage, Own
    <3>2. driver = "run" => StageOver(s)
      BY <2>1, <2>4 DEF Single
    <3>3. driver \in {"end", "done"} => stage[s] = "idle" \/ StageOver(s)
      BY <2>4 DEF Single
    <3> QED
      BY <3>1, <3>2, <3>3 DEF Shapes
  <2> QED
    BY <1>5, <2>1, <2>2, <2>3, <2>4, DriverKeeps DEF DriverCancelled
<1> QED
  BY <1>1, <1>2, <1>3, <1>4, <1>5 DEF Driver

-----------------------------------------------------------------------------
(* The client.                                                             *)

\* The head of the outer queue is taken.
LEMMA OuterTaken ==
    ASSUME Shapes, outer # <<>>, outer' = Tail(outer)
    PROVE  /\ outer' \in Seq(Items) /\ Len(outer') = Len(outer) - 1
           /\ Len(outer) \in Nat /\ Len(outer) >= 1
           /\ \A i \in 1..Len(outer') : outer'[i] = outer[i + 1]
           /\ Head(outer) = outer[1] /\ Head(outer) \in Items
BY HeadTailProperties, EmptySeq DEF Shapes

\* A step of the client that takes the head of the outer queue, or nothing.
LEMMA ClientTakes ==
    ASSUME StreamInv, outer # <<>>, outer' = Tail(outer), ~Closing,
           UNCHANGED <<producer, stage, driver, inner, held, made, fate,
                       broken, expired, result, cancelled>>,
           got' \in [Stages -> Seq(Nat)],
           \A t \in Stages :
               /\ Ranges(t)' /\ Len(got'[t]) >= Len(got[t])
               /\ \A n \in Nat : InQueue(outer, t, Len(got[t]), n) =>
                                     InQueue(outer', t, Len(got'[t]), n),
           client' \in {"hold", "returned", "raised"},
           client' # "hold" => driver = "done",
           client' = "returned" => result = "ok"
    PROVE  StreamInv'
<1> USE DEF StreamInv
<1>1. /\ outer' \in Seq(Items) /\ Len(outer') = Len(outer) - 1
      /\ Len(outer) \in Nat /\ Len(outer) >= 1
      /\ \A i \in 1..Len(outer') : outer'[i] = outer[i + 1]
  BY OuterTaken
<1>2. \A t : Told(t)' <=> Told(t)
  BY DEF Told
<1>3. Shapes'
  BY <1>1 DEF Shapes
<1>4. ~Closing' /\ (Over' => driver = "done")
  BY DEF Closing, Over
<1>5. ASSUME NEW t \in Stages PROVE OfStage(t)'
  <2>1. /\ Sentinel(t) /\ Own(t)
        /\ \E n \in Nat : InQueue(outer, t, Len(got[t]), n) /\ Place(t, n)
    BY DEF OfStage, Flow
  <2>2. Sentinel(t)'
    BY <2>1 DEF Sentinel
  <2>3. Own(t)'
    BY <1>2, <1>4, <2>1 DEF Own, Alive, StageOver
  <2>4. PICK n \in Nat : InQueue(outer, t, Len(got[t]), n) /\ Place(t, n)
    BY <2>1
  <2>5. Place(t, n)'
    BY <1>4, <2>4
       DEF Place, Alive, Rest, Holding, Chunks, Putting, Finished
  <2>6. InQueue(outer', t, Len(got'[t]), n)
    BY <2>4
  <2>7. InQueue(outer, t, Len(got[t]), n)'
    BY <2>6 DEF InQueue, Present, Spaced, Sorted
  <2> QED
    BY <2>2, <2>3, <2>5, <2>7 DEF OfStage, Flow
<1>6. Ends'
  <2>1. ASSUME NEW i \in 1..Len(outer'), outer'[i] = <<End>>
        PROVE  driver = "done"
    <3>1. i + 1 \in 1..Len(outer) /\ outer[i + 1] = <<End>>
      BY <1>1, <2>1
    <3> QED
      BY <3>1 DEF Ends
  <2>2. ~Told(DriverTask)
    BY DEF Ends
  <2> QED
    BY <1>2, <1>4, <2>1, <2>2 DEF Ends
<1>7. Verdict'
  <2>1. ASSUME NEW t \in Stages, Behind(t) PROVE Behind(t)'
    <3> SUFFICES ASSUME NEW i \in 1..Len(outer'), NEW j \in 1..Len(outer'),
                        NEW m \in Nat, i < j, outer'[i] = <<End>>
                 PROVE  outer'[j] # <<t, m>>
      BY DEF Behind
    <3>1. /\ i + 1 \in 1..Len(outer) /\ j + 1 \in 1..Len(outer) /\ i + 1 < j + 1
          /\ outer[i + 1] = <<End>> /\ outer[j + 1] = outer'[j]
      BY <1>1
    <3> QED
      BY <2>1, <3>1 DEF Behind
  <2> QED
    BY <1>4, <2>1 DEF Verdict
<1>8. Bounded'
  <2>1. OuterSize \in Nat /\ Len(outer) <= OuterSize
    BY SizesPositive DEF Bounded
  <2>2. Len(outer') <= OuterSize
    BY <1>1, <2>1
  <2> QED
    BY <2>2 DEF Bounded
<1>9. Single'
  BY <1>2 DEF Single, StageOver
<1>10. Backpressure'
  <2> SUFFICES ASSUME NEW t \in Stages
               PROVE  made[t] - Len(got'[t]) <= InnerSize + OuterSize + 2
    BY DEF Backpressure
  <2>1. /\ made[t] - Len(got[t]) <= InnerSize + OuterSize + 2
        /\ made[t] \in Nat /\ Len(got[t]) \in Nat /\ Len(got'[t]) \in Nat
        /\ Len(got'[t]) >= Len(got[t])
        /\ InnerSize \in Nat /\ OuterSize \in Nat
    BY LenProperties, SizesPositive DEF Backpressure, Shapes
  <2> QED
    BY <2>1
<1> QED
  BY <1>3, <1>5, <1>6, <1>7, <1>8, <1>9, <1>10

\* What the client is given is the next chunk of its stage.
LEMMA Received ==
    ASSUME StreamInv, Receive
    PROVE  \E s \in Stages :
               /\ Len(got[s]) + 1 <= made[s]
               /\ got' = [got EXCEPT ![s] = Append(@, Len(got[s]) + 1)]
               /\ Head(outer) = <<s, Len(got[s]) + 1>>
               /\ Len(got[s]) + 1 \in ChunksOf(s)
<1> USE DEF StreamInv
<1>1. Head(outer) \in Items /\ Head(outer) # <<End>> /\ outer # <<>>
  BY HeadTailProperties DEF Receive, Shapes
<1>2. PICK s \in Stages : \E m \in ChunksOf(s) : Head(outer) = <<s, m>>
  BY <1>1, ChunkNames
<1>3. PICK m \in ChunksOf(s) : Head(outer) = <<s, m>>
  BY <1>2
<1>4. /\ m \in Nat /\ Len(got[s]) \in Nat /\ outer \in Seq(Items)
      /\ made[s] \in Nat /\ got \in [Stages -> Seq(Nat)]
  BY LenProperties, ChunksNat DEF ChunksOf, Shapes
<1>5. PICK n \in Nat : InQueue(outer, s, Len(got[s]), n) /\ Place(s, n)
  BY DEF OfStage, Flow
<1>6. outer' = Tail(outer)
  BY DEF Receive
<1>7. m = Len(got[s]) + 1 /\ Len(got[s]) < n
  BY <1>1, <1>3, <1>4, <1>5, <1>6, QueueTaken
<1>8. n <= made[s]
  BY <1>5 DEF Place
<1>9. Head(outer)[1] = s /\ Head(outer)[2] = m
  BY <1>3
<1>10. got' = [got EXCEPT ![s] = Append(@, m)]
  BY <1>9 DEF Receive
<1>11. /\ Len(got[s]) + 1 <= made[s]
       /\ got' = [got EXCEPT ![s] = Append(@, Len(got[s]) + 1)]
       /\ Head(outer) = <<s, Len(got[s]) + 1>>
       /\ Len(got[s]) + 1 \in ChunksOf(s)
  <2>1. Len(got[s]) + 1 <= made[s]
    BY <1>4, <1>7, <1>8
  <2> QED
    BY <1>3, <1>7, <1>10, <2>1
<1> QED
  BY <1>11

LEMMA ReceiveKeeps ==
    ASSUME StreamInv, Receive
    PROVE  StreamInv'
<1> USE DEF StreamInv
<1>1. PICK s \in Stages :
          /\ Len(got[s]) + 1 <= made[s]
          /\ got' = [got EXCEPT ![s] = Append(@, Len(got[s]) + 1)]
          /\ Head(outer) = <<s, Len(got[s]) + 1>>
          /\ Len(got[s]) + 1 \in ChunksOf(s)
  BY Received
<1>2. /\ got \in [Stages -> Seq(Nat)] /\ outer \in Seq(Items)
      /\ \A t \in Stages : Len(got[t]) \in Nat
  BY LenProperties DEF Shapes
<1>3. /\ got' \in [Stages -> Seq(Nat)]
      /\ got'[s] = Append(got[s], Len(got[s]) + 1)
      /\ Len(got'[s]) = Len(got[s]) + 1
      /\ \A t \in Stages \ {s} : got'[t] = got[t]
  <2>1. Append(got[s], Len(got[s]) + 1) \in Seq(Nat)
    BY <1>2
  <2>2. got' \in [Stages -> Seq(Nat)] /\ got'[s] = Append(got[s], Len(got[s]) + 1)
    BY <1>1, <1>2, <2>1
  <2>3. Len(got'[s]) = Len(got[s]) + 1
    BY <1>2, <2>2, AppendProperties
  <2> QED
    BY <1>1, <1>2, <2>2, <2>3
<1>4. outer # <<>> /\ outer' = Tail(outer)
  BY DEF Receive
<1>5. ASSUME NEW t \in Stages
      PROVE  /\ Ranges(t)' /\ Len(got'[t]) >= Len(got[t])
             /\ \A n \in Nat : InQueue(outer, t, Len(got[t]), n) =>
                                   InQueue(outer', t, Len(got'[t]), n)
  <2>1. Ranges(t)
    BY DEF OfStage
  <2>2. CASE t = s
    <3>1. got'[s] \in Seq(ChunksOf(s))
      BY <1>1, <1>3, <2>1, <2>2, AppendProperties DEF Ranges
    <3>2. Ranges(t)'
      BY <2>1, <2>2, <3>1 DEF Ranges, Receive
    <3>3. ASSUME NEW n \in Nat, InQueue(outer, s, Len(got[s]), n)
          PROVE  InQueue(outer', s, Len(got[s]) + 1, n)
      <4>1. Len(got[s]) \in Nat /\ Len(got[s]) + 1 \in Nat
        BY <1>2
      <4> QED
        BY <1>1, <1>2, <1>4, <3>3, <4>1, QueueTaken, ZenonT(60)
    <3> QED
      BY <1>2, <1>3, <2>2, <3>2, <3>3
  <2>3. CASE t # s
    <3>1. Ranges(t)'
      BY <1>3, <2>1, <2>3 DEF Ranges, Receive
    <3>2. \A m \in Nat : Head(outer) # <<t, m>>
      BY <1>1, <2>3, ChunkNames
    <3>3. ASSUME NEW n \in Nat, InQueue(outer, t, Len(got[t]), n)
          PROVE  InQueue(outer', t, Len(got[t]), n)
      BY <1>2, <1>4, <3>2, <3>3, QueuePassed
    <3> QED
      BY <1>2, <1>3, <2>3, <3>1, <3>3
  <2> QED
    BY <2>2, <2>3
<1>6. ~Closing /\ client' = "hold"
  BY DEF Receive, Closing
<1> QED
  BY <1>3, <1>4, <1>5, <1>6, ClientTakes DEF Receive

LEMMA ReceiveEndKeeps ==
    ASSUME StreamInv, ReceiveEnd
    PROVE  StreamInv'
<1> USE DEF StreamInv
<1>1. outer # <<>> /\ outer' = Tail(outer) /\ Head(outer) = <<End>>
  BY DEF ReceiveEnd
<1>2. driver = "done"
  <2>1. 1 \in 1..Len(outer) /\ outer[1] = <<End>>
    BY <1>1, OuterTaken
  <2> QED
    BY <2>1 DEF Ends
<1>3. ASSUME NEW t \in Stages
      PROVE  /\ Ranges(t)' /\ Len(got'[t]) >= Len(got[t])
             /\ \A n \in Nat : InQueue(outer, t, Len(got[t]), n) =>
                                   InQueue(outer', t, Len(got'[t]), n)
  <2>1. Ranges(t)' /\ got' = got
    BY DEF ReceiveEnd, OfStage, Ranges
  <2>2. Len(got[t]) \in Nat /\ outer \in Seq(Items)
    BY LenProperties DEF Shapes
  <2>3. \A m \in Nat : Head(outer) # <<t, m>>
    BY <1>1, ChunkNames
  <2>4. ASSUME NEW n \in Nat, InQueue(outer, t, Len(got[t]), n)
        PROVE  InQueue(outer', t, Len(got[t]), n)
    BY <1>1, <2>2, <2>3, <2>4, QueuePassed
  <2> QED
    BY <2>1, <2>2, <2>4
<1>4. /\ ~Closing /\ client' \in {"returned", "raised"}
      /\ client' = "returned" => result = "ok"
      /\ got' \in [Stages -> Seq(Nat)]
  BY DEF ReceiveEnd, Closing, Shapes
<1> QED
  BY <1>1, <1>2, <1>3, <1>4, ClientTakes DEF ReceiveEnd

\* The client goes on or away, and cancels whom it is waiting for.
LEMMA ClientGoes ==
    ASSUME StreamInv,
           UNCHANGED <<producer, stage, driver, inner, outer, held, made, fate,
                       broken, expired, result, got>>,
           Closing => Closing', client' \in {"get", "close", "closed"},
           client' = "closed" => driver = "done",
           cancelled' \in SUBSET Tasks, \A t \in Stages : Own(t)',
           Told(DriverTask)' => Closing' /\ driver # "done",
           \A s \in Stages :
               Stages = {s} /\ driver = "run" /\ Told(DriverTask)' => StageOver(s)
    PROVE  StreamInv'
<1> USE DEF StreamInv
<1>1. Shapes'
  BY DEF Shapes
<1>2. ASSUME NEW t \in Stages PROVE OfStage(t)'
  <2>1. Ranges(t) /\ Sentinel(t) /\ Flow(t)
    BY DEF OfStage
  <2>2. Ranges(t)' /\ Sentinel(t)'
    BY <2>1 DEF Ranges, Sentinel
  <2>3. ASSUME NEW n \in Nat, Place(t, n) PROVE Place(t, n)'
    BY <2>3 DEF Place, Alive, Rest, Holding, Chunks, Putting, Finished
  <2>4. Flow(t)'
    BY <2>1, <2>3, FlowStays
  <2> QED
    BY <2>2, <2>4 DEF OfStage
<1>3. Ends'
  BY DEF Ends, Over
<1>4. Verdict'
  <2>1. \A t \in Stages : Behind(t)' <=> Behind(t)
    BY DEF Behind
  <2> QED
    BY <2>1 DEF Verdict
<1>5. Bounded' /\ Single' /\ Backpressure'
  BY DEF Bounded, Single, StageOver, Backpressure
<1> QED
  BY <1>1, <1>2, <1>3, <1>4, <1>5

\* A cancellation reaches tasks that have not ended.
LEMMA TellsKeeps ==
    ASSUME StreamInv, driver # "done", Closing', Closing => client = "close",
           client' = "close", cancelled' = cancelled \cup DriverTells,
           UNCHANGED <<producer, stage, driver, inner, outer, held, made, fate,
                       broken, expired, result, got>>
    PROVE  StreamInv'
<1> USE DEF StreamInv
<1> DEFINE waiting == /\ driver = "run"
                      /\ \E s \in Stages : ~StageOver(s)
                      /\ \A s \in Stages : stage[s] # "raised"
<1>1. Lasting /\ \A t \in Stages : Own(t)
  BY DEF Lasting, OfStage
<1>2. CASE waiting
  <2>1. DriverTells = UNION {StageTells(s) : s \in Stages}
    BY <1>2, Zenon DEF DriverTells
  <2>2. \A x : x \in cancelled' <=>
            x \in cancelled \/ \E s \in Stages : x \in StageTells(s)
    BY <2>1
  <2>3. \A s \in Stages : \A x \in StageTells(s) :
            x = ProducerTask(s) \/ x = StageTask(s)
    BY DEF StageTells
  <2>4. Told(DriverTask)' <=> Told(DriverTask)
    BY <2>2, <2>3, TaskNames DEF Told
  <2>5. cancelled' \in SUBSET Tasks
    <3>1. \A x : x \in cancelled => x \in Tasks
      BY DEF Shapes
    <3>2. \A s \in Stages : ProducerTask(s) \in Tasks /\ StageTask(s) \in Tasks
      BY TaskNames
    <3> HIDE DEF StreamInv, waiting
    <3> QED
      BY <2>2, <2>3, <3>1, <3>2
  <2>6. ASSUME NEW t \in Stages PROVE Own(t)'
    <3>1. /\ Told(ProducerTask(t))' =>
                 Told(ProducerTask(t)) \/ ProducerTask(t) \in StageTells(t)
          /\ Told(StageTask(t))' =>
                 Told(StageTask(t)) \/ StageTask(t) \in StageTells(t)
          /\ Told(ProducerTask(t)) => Told(ProducerTask(t))'
      BY <2>2, <2>3, TaskNames DEF Told
    <3> QED
      BY <1>1, <1>2, <3>1, TellsKeepsOwn
  <2>7. Told(DriverTask) => Closing' /\ driver # "done"
    OBVIOUS
  <2>8. \A s \in Stages :
            Stages = {s} /\ driver = "run" /\ Told(DriverTask) => StageOver(s)
    BY DEF Single
  <2> QED
    BY <2>4, <2>5, <2>6, <2>7, <2>8, ClientGoes
<1>3. CASE ~waiting
  <2>1. DriverTells = {DriverTask}
    BY <1>3, Zenon DEF DriverTells
  <2>2. cancelled' \in SUBSET Tasks
    BY <2>1, TaskNames DEF Shapes
  <2>3. ASSUME NEW t \in Stages PROVE Own(t)'
    <3>1. /\ Told(ProducerTask(t))' <=> Told(ProducerTask(t))
          /\ Told(StageTask(t))' <=> Told(StageTask(t))
      BY <2>1, TaskNames DEF Told
    <3>2. Same(t) /\ got'[t] = got[t]
      BY <3>1 DEF Same
    <3> QED
      BY <1>1, <3>2, SameStage
  <2>4. \A s \in Stages : Stages = {s} /\ driver = "run" => StageOver(s)
    BY <1>3 DEF StageOver
  <2> QED
    BY <2>2, <2>3, <2>4, ClientGoes
<1> QED
  BY <1>2, <1>3

\* Nobody is cancelled.
LEMMA ClientOnly ==
    ASSUME StreamInv, UNCHANGED <<producer, stage, driver, inner, outer, held,
                                  made, fate, broken, expired, result, got,
                                  cancelled>>,
           Closing => Closing', client' \in {"get", "closed"},
           client' = "closed" => driver = "done"
    PROVE  StreamInv'
<1> USE DEF StreamInv
<1>1. cancelled' \in SUBSET Tasks
  BY DEF Shapes
<1>2. ASSUME NEW t \in Stages PROVE Own(t)'
  <2>1. Own(t)
    BY DEF OfStage
  <2> QED
    BY <2>1 DEF Own, Alive, StageOver, Told
<1>3. /\ Told(DriverTask)' <=> Told(DriverTask)
      /\ Told(DriverTask) => Closing' /\ driver # "done"
      /\ \A s \in Stages :
             Stages = {s} /\ driver = "run" /\ Told(DriverTask) => StageOver(s)
  BY DEF Told, Ends, Single
<1> QED
  BY <1>1, <1>2, <1>3, ClientGoes

LEMMA ClientStepKeeps ==
    ASSUME StreamInv, Client \/ Ask \/ Close \/ CloseAgain
    PROVE  StreamInv'
<1>1. CASE Receive
  BY <1>1, ReceiveKeeps
<1>2. CASE ReceiveEnd
  BY <1>2, ReceiveEndKeeps
<1>3. CASE Closed
  BY <1>3, ClientOnly DEF Closed, Closing
<1>4. CASE Ask
  BY <1>4, ClientOnly DEF Ask, Closing
<1>5. CASE Close
  <2>1. CASE driver = "done"
    BY <1>5, <2>1, ClientOnly DEF Close, ClosePhase, Closing
  <2>2. CASE driver # "done"
    BY <1>5, <2>2, TellsKeeps DEF Close, ClosePhase, Closing
  <2> QED
    BY <2>1, <2>2
<1>6. CASE CloseAgain
  BY <1>6, TellsKeeps DEF CloseAgain, Closing
<1> QED
  BY <1>1, <1>2, <1>3, <1>4, <1>5, <1>6 DEF Client

\* A stuttering step.
LEMMA StutterKeeps ==
    ASSUME StreamInv, UNCHANGED vars
    PROVE  StreamInv'
<1> USE DEF vars, StreamInv
<1>1. Shapes'
  BY DEF Shapes
<1>2. ASSUME NEW t \in Stages PROVE OfStage(t)'
  <2>1. Ranges(t)' /\ Sentinel(t)'
    BY DEF Ranges, Sentinel, OfStage
  <2>2. Own(t)'
    BY DEF Own, OfStage, Alive, StageOver, Told, Closing
  <2>3. ASSUME NEW n \in Nat, Place(t, n) PROVE Place(t, n)'
    BY <2>3 DEF Place, Alive, Rest, Holding, Chunks, Putting, Finished, Closing
  <2>4. Flow(t)'
    BY <2>3, FlowStays DEF OfStage
  <2> QED
    BY <2>1, <2>2, <2>4 DEF OfStage
<1>3. Ends' /\ Verdict'
  <2>1. \A t \in Stages : Behind(t)' <=> Behind(t)
    BY DEF Behind
  <2> QED
    BY <2>1 DEF Ends, Verdict, Over, Told, Closing
<1>4. Bounded' /\ Single' /\ Backpressure'
  BY DEF Bounded, Single, StageOver, Told, Backpressure
<1> QED
  BY <1>1, <1>2, <1>3, <1>4

-----------------------------------------------------------------------------
(* The theorems.                                                           *)

\* StreamInv is inductive.
LEMMA StreamInvariant == Spec => []StreamInv
<1>1. StreamInv /\ [Next]_vars => StreamInv'
  <2> SUFFICES ASSUME StreamInv, [Next]_vars PROVE StreamInv'
    OBVIOUS
  <2>1. ASSUME NEW s \in Stages, Generator(s) \/ Producer(s) PROVE StreamInv'
    BY <2>1, YieldKeeps, GeneratorEndsKeeps, StartProducerKeeps, PutChunkKeeps,
       PutProducerEndKeeps, ProducerCancelledKeeps DEF Generator, Producer
  <2>2. ASSUME NEW s \in Stages, Stage(s) PROVE StreamInv'
    BY <2>2, StartStageKeeps, TakeKeeps, TakeEndKeeps, NotifyKeeps,
       PutOuterKeeps, StageCancelledKeeps, CleanedUpKeeps DEF Stage
  <2>3. ASSUME NEW s \in Stages, CallbackRaises(s) \/ Timeout(s)
        PROVE  StreamInv'
    BY <2>3, CallbackRaisesKeeps, TimeoutKeeps
  <2> QED
    BY <2>1, <2>2, <2>3, DriverStepKeeps, ClientStepKeeps, StutterKeeps DEF Next
<1> QED
  BY StreamInvInit, <1>1, PTL DEF Spec

(***************************************************************************)
(* The tasks of a call never confuse each other: a sentinel in a queue is  *)
(* the last thing its producer did, a CancelledError only travels to a     *)
(* task that is not done, and only chunks are passed on.                   *)
(***************************************************************************)
THEOREM StreamTyped == Spec => []TypeOK
BY StreamInvariant, StreamInvTyped, PTL

(***************************************************************************)
(* However slow the client and however many chunks a generator has, no     *)
(* more than the two queues and two chunks are between them, also after a  *)
(* stage has been broken off or closed.                                    *)
(***************************************************************************)
THEOREM MemoryIsBounded == Spec => []Backpressure
<1>1. StreamInv => Backpressure
  BY DEF StreamInv
<1> QED
  BY StreamInvariant, <1>1, PTL

(***************************************************************************)
(* An iteration that is over leaves no task of the call behind: a CALL     *)
(* whatever ended it, a FORK that ended normally.                          *)
(***************************************************************************)
THEOREM NothingOutlivesCall == Spec => []NoTaskOutlivesCall
<1>1. ASSUME StreamInv PROVE NoTaskOutlivesCall
  <2> USE <1>1 DEF StreamInv
  <2>1. CASE client = "returned"
    <3>1. driver = "done" /\ result = "ok"
      BY <2>1 DEF Ends, Over
    <3>2. \A s \in Stages : stage[s] = "returned"
      BY <3>1 DEF Verdict
    <3>3. \A s \in Stages : producer[s] \in {"none", "done"}
      BY <3>2 DEF OfStage, Own, StageOver
    <3> QED
      BY <3>1, <3>2, <3>3 DEF NoTaskOutlivesCall
  <2>2. CASE Over /\ Cardinality(Stages) = 1
    <3>1. driver = "done"
      BY <2>2 DEF Ends
    <3>2. PICK s : Stages = {s}
      BY <2>2, StagesSome, FS_Singleton
    <3>3. stage[s] = "idle" \/ StageOver(s)
      BY <3>1, <3>2 DEF Single
    <3>4. producer[s] \in {"none", "done"}
      BY <3>2, <3>3 DEF OfStage, Own
    <3> QED
      BY <3>1, <3>2, <3>3, <3>4 DEF NoTaskOutlivesCall, StageOver
  <2> QED
    BY <2>1, <2>2 DEF NoTaskOutlivesCall
<1> QED
  BY StreamInvariant, <1>1, PTL

-----------------------------------------------------------------------------
(* The contract with the client, step by step.                             *)

\* Where the iteration is over and where it is not.
Outcome == IF Over THEN client ELSE "open"

\* No chunk of s is behind the sentinel, so all that left it were received.
LEMMA AllReceived ==
    ASSUME StreamInv, outer # <<>>, Head(outer) = <<End>>,
           NEW s \in Stages, Behind(s)
    PROVE  Place(s, Len(got[s]))
<1> USE DEF StreamInv
<1>1. PICK n \in Nat : InQueue(outer, s, Len(got[s]), n) /\ Place(s, n)
  BY DEF OfStage, Flow
<1>2. /\ Len(outer) \in Nat /\ Len(outer) >= 1 /\ outer[1] = <<End>>
      /\ Len(got[s]) \in Nat
  BY HeadTailProperties, LenProperties, EmptySeq DEF Shapes
<1>3. n = Len(got[s])
  <2> SUFFICES ASSUME n # Len(got[s]) PROVE FALSE
    OBVIOUS
  <2>1. /\ Len(got[s]) < Len(got[s]) + 1 /\ Len(got[s]) + 1 <= n
        /\ Len(got[s]) + 1 \in Nat
    BY <1>1, <1>2 DEF InQueue
  <2>2. PICK i \in 1..Len(outer) : outer[i] = <<s, Len(got[s]) + 1>>
    <3>1. Present(outer, s, Len(got[s]), n)
      BY <1>1 DEF InQueue
    <3> HIDE DEF StreamInv
    <3> QED
      BY <2>1, <3>1 DEF Present
  <2>3. i # 1
    <3> HIDE DEF StreamInv
    <3> QED
      BY <1>2, <2>2, ChunkNames
  <2>4. 1 \in 1..Len(outer) /\ 1 < i /\ Len(got[s]) + 1 \in Nat
    BY <1>2, <2>3
  <2> QED
    BY <1>2, <2>2, <2>4 DEF Behind
<1> QED
  BY <1>1, <1>3

\* Receiving the sentinel is returning or raising, with the right to.
LEMMA ReceiveEndContract ==
    ASSUME StreamInv, ReceiveEnd
    PROVE  Contract!Return \/ Contract!Raise
<1> USE DEF StreamInv
<1>1. outer # <<>> /\ Head(outer) = <<End>> /\ client = "get"
  BY DEF ReceiveEnd
<1>2. driver = "done" /\ ~Closing
  <2>1. 1 \in 1..Len(outer) /\ outer[1] = <<End>>
    BY <1>1, HeadTailProperties, LenProperties, EmptySeq DEF Shapes
  <2> QED
    BY <1>1, <2>1 DEF Ends, Closing
<1>3. UNCHANGED <<made, fate, broken, got>> /\ Outcome = "open"
  BY DEF ReceiveEnd, Outcome, Over
<1>4. ASSUME NEW s \in Stages, stage[s] = "returned", Behind(s)
      PROVE  Contract!Complete(s)
  <2>1. Finished(s, Len(got[s]))
    BY <1>1, <1>4, AllReceived DEF Place
  <2> QED
    BY <1>4, <2>1 DEF Finished, Contract!Complete, Contract!Delivered
<1>5. CASE result = "ok"
  <2>1. \A s \in Stages : Contract!Complete(s)
    BY <1>2, <1>4, <1>5 DEF Verdict
  <2>2. Outcome' = "returned"
    BY <1>5 DEF ReceiveEnd, Outcome, Over
  <2> QED
    BY <1>3, <2>1, <2>2 DEF Contract!Return, Contract!Finish, Outcome
<1>6. CASE result = "failed"
  <2>1. \/ \A s \in Stages : stage[s] = "returned" /\ Behind(s)
        \/ \E s \in Stages : stage[s] = "raised" /\ Behind(s)
    BY <1>2, <1>6 DEF Verdict
  <2>2. \/ \E s \in Stages : fate[s] = "raised" /\ Contract!Delivered(s)
        \/ broken # {}
        \/ \A s \in Stages : Contract!Complete(s)
    <3>1. CASE \A s \in Stages : stage[s] = "returned" /\ Behind(s)
      BY <1>4, <3>1
    <3>2. ASSUME NEW s \in Stages, stage[s] = "raised", Behind(s)
          PROVE  \/ \E t \in Stages : fate[t] = "raised" /\ Contract!Delivered(t)
                 \/ broken # {}
      <4>1. Finished(s, Len(got[s]))
        BY <1>1, <3>2, AllReceived DEF Place
      <4> QED
        BY <1>2, <3>2, <4>1 DEF Finished, Contract!Delivered
    <3> QED
      BY <2>1, <3>1, <3>2
  <2>3. Outcome' = "raised"
    BY <1>6 DEF ReceiveEnd, Outcome, Over
  <2> QED
    BY <1>3, <2>2, <2>3 DEF Contract!Raise, Contract!Finish, Outcome
<1> QED
  BY <1>5, <1>6 DEF Shapes

\* A step of a task of a stage yields, ends, breaks off or shows nothing.
LEMMA StageContract ==
    ASSUME StreamInv, NEW s \in Stages,
           \/ Generator(s) \/ Producer(s) \/ Stage(s)
           \/ CallbackRaises(s) \/ Timeout(s)
    PROVE  [Contract!Next]_<<made, fate, broken, got, Outcome>>
<1> USE StageFacts
<1>1. CASE Yield(s)
  <2>1. fate[s] = "running"
    BY <1>1, ProducerHasStage DEF Yield
  <2>2. Contract!Produce(s)
    BY <1>1, <2>1 DEF Yield, Contract!Produce, Over
  <2> QED
    BY <2>2 DEF Contract!Next
<1>2. CASE GeneratorEnds(s)
  <2>1. fate[s] = "running"
    BY <1>2, ProducerHasStage DEF GeneratorEnds
  <2>2. Contract!Stop(s)
    BY <1>2, <2>1 DEF GeneratorEnds, Contract!Stop, Over
  <2> QED
    BY <2>2 DEF Contract!Next
<1>3. CASE ProducerCancelled(s)
  <2>1. CASE fate[s] = "running"
    <3>1. Contract!Stop(s)
      BY <1>3, <2>1 DEF ProducerCancelled, Contract!Stop, Over
    <3> QED
      BY <3>1 DEF Contract!Next
  <2>2. CASE fate[s] # "running"
    BY <1>3, <2>2 DEF ProducerCancelled, Outcome, Over, Shapes
  <2> QED
    BY <2>1, <2>2
<1>4. CASE CallbackRaises(s) \/ Timeout(s)
  <2>1. Contract!Break(s)
    BY <1>4 DEF CallbackRaises, Timeout, Contract!Break, Over
  <2> QED
    BY <2>1 DEF Contract!Next
<1>5. CASE StartProducer(s) \/ PutChunk(s) \/ PutProducerEnd(s) \/ Stage(s)
  BY <1>5 DEF StartProducer, PutChunk, PutProducerEnd, Stage, StartStage, Take,
              TakeEnd, Notify, PutOuter, StageCancelled, CleanedUp, Outcome, Over
<1> QED
  BY <1>1, <1>2, <1>3, <1>4, <1>5 DEF Generator, Producer

\* A step of the driver shows nothing; the client receives, ends or closes.
LEMMA ClientContract ==
    ASSUME StreamInv,
           Driver \/ Client \/ Ask \/ Close \/ CloseAgain \/ UNCHANGED vars
    PROVE  [Contract!Next]_<<made, fate, broken, got, Outcome>>
<1>1. CASE Receive
  <2>1. PICK s \in Stages :
            /\ Len(got[s]) + 1 <= made[s]
            /\ got' = [got EXCEPT ![s] = Append(@, Len(got[s]) + 1)]
    BY <1>1, Received
  <2>2. Len(got[s]) \in Nat /\ made[s] \in Nat
    BY LenProperties DEF StreamInv, Shapes
  <2>3. ~Contract!Delivered(s)
    BY <2>1, <2>2 DEF Contract!Delivered
  <2>4. Contract!Deliver(s)
    BY <1>1, <2>1, <2>3 DEF Receive, Contract!Deliver, Over
  <2> QED
    BY <2>4 DEF Contract!Next
<1>2. CASE ReceiveEnd
  BY <1>2, ReceiveEndContract DEF Contract!Next
<1>3. CASE Closed
  <2>1. Contract!Close
    BY <1>3 DEF Closed, Contract!Close, Contract!Finish, Over
  <2> QED
    BY <2>1 DEF Contract!Next
<1>4. CASE Close
  <2>1. CASE driver = "done"
    <3>1. Contract!Close
      BY <1>4, <2>1 DEF Close, ClosePhase, Contract!Close, Contract!Finish, Over
    <3> QED
      BY <3>1 DEF Contract!Next
  <2>2. CASE driver # "done"
    BY <1>4, <2>2 DEF Close, ClosePhase, Outcome, Over
  <2> QED
    BY <2>1, <2>2
<1>5. CASE Driver
  BY <1>5 DEF Driver, StartDriver, RunEnds, RunRaises, FinishDriver,
              DriverCancelled, Outcome, Over
<1>6. CASE Ask \/ CloseAgain \/ UNCHANGED vars
  BY <1>6 DEF Ask, CloseAgain, vars, Outcome, Over
<1> QED
  BY <1>1, <1>2, <1>3, <1>4, <1>5, <1>6 DEF Client

(***************************************************************************)
(* Streaming implements StreamContract, for every number of stages and     *)
(* chunks and every size of the queues: every step of its tasks is a step  *)
(* of the contract or shows the client nothing.  No chunk is lost,         *)
(* repeated or reordered before the end, no error overtakes a chunk.       *)
(***************************************************************************)
THEOREM ContractIsKept == Spec => KeepsContract
<1>1. Init => Contract!Init
  BY DEF Init, Contract!Init, Over
<1>2. StreamInv /\ [Next]_vars => [Contract!Next]_<<made, fate, broken, got, Outcome>>
  <2> SUFFICES ASSUME StreamInv, [Next]_vars
               PROVE  [Contract!Next]_<<made, fate, broken, got, Outcome>>
    OBVIOUS
  <2> QED
    BY StageContract, ClientContract DEF Next
<1>3. StreamInv /\ [Next]_vars => [Contract!Next]_(Contract!cvars)
  BY <1>2 DEF Contract!cvars, Outcome
<1> QED
  BY <1>1, <1>3, StreamInvariant, PTL DEF Spec, KeepsContract, Contract!Spec
=============================================================================
