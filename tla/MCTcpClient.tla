---------------------------- MODULE MCTcpClient ----------------------------
(* Model-checking parameters for TcpClient.                                *)
EXTENDS TcpClient, TLC
=============================================================================
