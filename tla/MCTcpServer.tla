---------------------------- MODULE MCTcpServer ----------------------------
(* Instances of the reactor small enough for TLC.                          *)
EXTENDS TcpServer
=============================================================================
