------------------------------ MODULE MCTcpSvr ------------------------------
(***************************************************************************)
(* TcpSvr.tla for TLC, alone and with callbacks that overlap, to refute    *)
(* the limit on the clients.                                               *)
(***************************************************************************)
EXTENDS TcpSvr, TLC

ClientSymmetry == Permutations(Client)
=============================================================================
