----------------------- MODULE MCReconstructionWorkers -----------------------
(* An instance of ReconstructionWorkers for TLC.                           *)
EXTENDS ReconstructionWorkers, TLC

CONSTANTS h1, a1, a2, w1, w2

TwoVersions == (a1 :> h1) @@ (a2 :> h1)
=============================================================================
