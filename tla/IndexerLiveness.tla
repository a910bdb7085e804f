-------------------------- MODULE IndexerLiveness ---------------------------
(***************************************************************************)
(* The indexer when its faults do not go on for ever.  That they have      *)
(* ceased is told by a variable, because a failed request can leave the    *)
(* same state as a successful one (a tick with nothing to do).             *)
(***************************************************************************)
EXTENDS Indexer

(* Run always loops back into Tick, so the goroutine is always scheduled.  *)
LSpec == Spec /\ WF_vars(Step) /\ WF_vars(FaultsCease)

(* From whatever the faults, restarts and reorganisations have left, the   *)
(* indexer comes to the settled head of the canonical chain, and stays     *)
(* there once the chain stands still.                                      *)
EventuallyCaughtUp ==
  <>[](Canonical /\ (SafeBlock(BlockNumber) >= FactoryDeployBlock
                      => Position = SafeBlock(BlockNumber)))
=============================================================================
