------------------------ MODULE MCSupervisorCapacity ------------------------
(***************************************************************************)
(* Two concurrent creations of different sizes and two managed runs on a   *)
(* supervisor that has room for only some of them at a time.               *)
(***************************************************************************)
EXTENDS SupervisorCapacity, TLC

CONSTANTS b1, b2, b3, m1, m2

MCBatch == {b1, b2, b3}
MCManaged == {m1, m2}
MCEnvironments == b1 :> 1 @@ b2 :> 2 @@ b3 :> 2
ManagedSymmetry == Permutations(MCManaged)
=============================================================================
