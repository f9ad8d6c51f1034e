---------------------------- MODULE MCGrpcManager ----------------------------
(***************************************************************************)
(* Instances of GrpcManager for TLC.  The name of the agent stands for the *)
(* singular fields, the cpu statistics for the repeated ones.              *)
(***************************************************************************)
EXTENDS GrpcManager, TLC

CONSTANTS a1, a2, r1

\* One agent sends twice, the other client of each kind calls once.
TheMaxCalls == a1 :> 2 @@ a2 :> 1 @@ r1 :> 1

OneAgentCalls == a1 :> 1 @@ r1 :> 1

TheSingular == {"name"}
TheRepeated == {"cpu_stat"}
=============================================================================
