------------------------------ MODULE MCObserved ------------------------------
(***************************************************************************)
(* The instances of MCDurable with their observers.                        *)
(***************************************************************************)
EXTENDS MCDurable, Observed

\* What the theorems about observers assume of code, for the code of this run.
ASSUME StepsBracketed == StepsAreBracketed

MCRetrySpec == ObservedSpec /\ Fairness /\ Retries
=============================================================================
