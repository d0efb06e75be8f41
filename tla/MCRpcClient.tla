---------------------------- MODULE MCRpcClient ----------------------------
(* Values of the run of RpcClient are given in its .cfg file.              *)
EXTENDS RpcClient
=============================================================================
