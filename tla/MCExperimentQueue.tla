------------------------- MODULE MCExperimentQueue -------------------------
(***************************************************************************)
(* The experiment queue on small instances, for TLC.                       *)
(***************************************************************************)
EXTENDS ExperimentQueue
=============================================================================
