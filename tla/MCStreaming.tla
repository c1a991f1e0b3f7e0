---------------------------- MODULE MCStreaming -----------------------------
(***************************************************************************)
(* Small instances of streaming: one stage yields more chunks than the     *)
(* queues and the tasks between it and the client hold, the others one.    *)
(***************************************************************************)
EXTENDS StreamingProps

CONSTANT ManyChunks

MCChunks ==
    [s \in Stages |-> IF s = CHOOSE t \in Stages : TRUE THEN ManyChunks ELSE 1]

\* Generators and clients that never wait, so that no hang is theirs.
MCBusySpec == FairSpec /\ Busy
=============================================================================
