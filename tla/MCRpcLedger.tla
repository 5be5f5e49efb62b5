---------------------------- MODULE MCRpcLedger ----------------------------
(***************************************************************************)
(* Instances of RpcLedger for TLC: three requests in two shards.           *)
(***************************************************************************)
EXTENDS RpcLedger, TLC

CONSTANTS k1, k2, k3, s1, s2

MCShardOf == (k1 :> s1) @@ (k2 :> s2) @@ (k3 :> s1)
=============================================================================
