------------------------ MODULE MCHeadlessSupervisor ------------------------
(***************************************************************************)
(* The batch lifecycle on small instances, for TLC.                        *)
(***************************************************************************)
EXTENDS HeadlessSupervisor, TLC

CallSymmetry == Permutations(Call)
AllFaults == FaultKind
=============================================================================
