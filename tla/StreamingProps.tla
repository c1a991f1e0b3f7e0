--------------------------- MODULE StreamingProps ---------------------------
(***************************************************************************)
(* What streaming promises: the contract with the client, and what it does *)
(* with memory, tasks and time.                                            *)
(***************************************************************************)
EXTENDS Streaming

Over == client \in {"returned", "raised", "closed"}

Contract == INSTANCE StreamContract
                WITH outcome <- IF Over THEN client ELSE "open"

(***************************************************************************)
(* Streaming implements StreamContract: through two bounded queues, three  *)
(* kinds of tasks and their cancellation, no chunk is lost, repeated or    *)
(* reordered before the end, and no error overtakes a chunk.               *)
(***************************************************************************)
KeepsContract == Contract!Spec

ChunksOf(s) == 1..MaxChunks[s]

(***************************************************************************)
(* Types, and what each task knows of the others: a sentinel in a queue is *)
(* the last thing its producer did, a CancelledError only travels to a     *)
(* task that is not done, and a stage passes chunks on, never sentinels.   *)
(***************************************************************************)
TypeOK ==
    /\ producer \in [Stages -> {"none", "new", "gen", "put", "end", "done"}]
    /\ stage \in [Stages -> {"idle", "get", "notify", "put", "cleanup",
                             "returned", "raised"}]
    /\ driver \in {"new", "run", "end", "done"}
    /\ client \in {"get", "hold", "close", "returned", "raised", "closed"}
    /\ outer \in Seq((UNION {{s} \X ChunksOf(s) : s \in Stages}) \cup {<<End>>})
    /\ fate \in [Stages -> {"running", "ended", "raised", "cancelled"}]
    /\ broken \in SUBSET Stages /\ expired \in SUBSET broken
    /\ result \in {"ok", "failed"}
    /\ cancelled \in SUBSET ({DriverTask} \cup {ProducerTask(s) : s \in Stages}
                                          \cup {StageTask(s) : s \in Stages})
    /\ \A s \in Stages :
        /\ inner[s] \in Seq(ChunksOf(s) \cup {End})
        /\ held[s] \in ChunksOf(s) \cup {End}
        /\ made[s] \in ChunksOf(s) \cup {0}
        /\ got[s] \in Seq(ChunksOf(s))
        /\ \A i \in DOMAIN inner[s] :
               inner[s][i] = End => producer[s] = "done" /\ i = Len(inner[s])
        /\ Told(ProducerTask(s)) => producer[s] \notin {"none", "done"}
        /\ Told(StageTask(s)) => ~StageOver(s) /\ stage[s] # "cleanup"
        /\ stage[s] \in {"notify", "put"} => held[s] # End
    /\ Told(DriverTask) => driver # "done"

(***************************************************************************)
(* Backpressure: a generator is never further ahead of the client than the *)
(* two queues, the chunk its producer is putting and the chunk its stage   *)
(* is passing on.  However slow the client, memory stays bounded.          *)
(***************************************************************************)
Backpressure ==
    \A s \in Stages : made[s] - Len(got[s]) <= InnerSize + OuterSize + 2

(***************************************************************************)
(* When the client's iteration is over, no task of the call is left: the   *)
(* run lock, released then, is not released under a running stage.  For a  *)
(* CALL however it ended; for a FORK if it ended normally (the branches    *)
(* that a failed gather leaves behind do outlive the call).                *)
(***************************************************************************)
NoTaskOutlivesCall ==
    (client = "returned" \/ (Over /\ Cardinality(Stages) = 1)) =>
        /\ driver = "done"
        /\ \A s \in Stages : /\ stage[s] \in {"idle", "returned", "raised"}
                             /\ producer[s] \in {"none", "done"}

-----------------------------------------------------------------------------
(* Liveness.                                                               *)

\* Generators yield or end, and the client keeps iterating.
Busy == (\A s \in Stages : WF_vars(Generator(s))) /\ WF_vars(Ask)

(***************************************************************************)
(* If no timeout and no callback breaks a stage off, a client that keeps   *)
(* iterating gets to the end: the sentinel reaches it although the queue   *)
(* may be full when the run ends, and a stage that raises does not leave   *)
(* it waiting.                                                             *)
(***************************************************************************)
StreamEnds == (Busy /\ [](broken = {} /\ client # "close")) => <>Over

(***************************************************************************)
(* test_stream.py:42: a client that stops early does not hang.  (It does   *)
(* while a queue is full: a finally clause waits for room for a sentinel   *)
(* that nobody will take.)                                                 *)
(***************************************************************************)
CloseReturns == client = "close" ~> client = "closed"

\* A task waits in its finally clause for room for its sentinel.
SentinelWaits == driver = "end" \/ \E s \in Stages : producer[s] = "end"

(***************************************************************************)
(* Nothing but a sentinel that waits for room can keep a close from        *)
(* returning, not even a generator that waits for something that never     *)
(* comes: the cancellation gets through every task to it.                  *)
(***************************************************************************)
CloseReturnsOrWaits ==
    client = "close" ~> client = "closed" \/ SentinelWaits

(***************************************************************************)
(* stage.py:60: the timeout of a stage, or a callback's exception, ends    *)
(* the stage, whatever its generator does, unless again the sentinel of    *)
(* its producer finds the queue full.                                      *)
(***************************************************************************)
FaultSurfacesOrWaits ==
    \A s \in Stages : s \in broken ~> StageOver(s) \/ producer[s] = "end"
=============================================================================
