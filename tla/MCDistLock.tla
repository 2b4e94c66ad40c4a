----------------------------- MODULE MCDistLock ------------------------------
(***************************************************************************)
(* An instance of DistLock with a multi-threaded PE.                       *)
(***************************************************************************)
EXTENDS DistLock, TLC

CONSTANTS t1, t2, t3

MCThread == {t1, t2, t3}
MCPEOf == t1 :> 0 @@ t2 :> 0 @@ t3 :> 1

==============================================================================
