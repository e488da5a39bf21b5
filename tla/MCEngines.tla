------------------------------ MODULE MCEngines ------------------------------
(* An instance of ScoringEngines for TLC: those of the velocity and the hedge-betting store, two  *)
(* lists of one wallet each.                                                                      *)
EXTENDS ScoringEngines, MCVelocity, MCHedge

CONSTANTS w1, w2, listA, listB

\* Two wallets, each on a list of its own.
Assets == (w1 :> listA) @@ (w2 :> listB)
=============================================================================
