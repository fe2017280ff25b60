---------------------- MODULE MCSharedTensorEnvironment ----------------------
(***************************************************************************)
(* Instances of SharedTensorEnvironment: a camera and a lidar, captured    *)
(* together by two routes or one after the other.  Their products have the *)
(* same lengths, and a raw product another than an observation, so that    *)
(* the space one leaves is taken by the other.                             *)
(***************************************************************************)
EXTENDS SharedTensorEnvironment

CONSTANTS c1

MCSensor == 1..2
MCRawLen == <<2, 2>>
MCObsLen == <<3, 3>>
MCCall == {c1}
MCCaller == Handler \cup Call
MCContent == Nat
=============================================================================
