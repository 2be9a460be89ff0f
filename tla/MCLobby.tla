------------------------------ MODULE MCLobby ------------------------------
(***************************************************************************)
(* Lobby.tla for TLC: the server with clients that send requests to match, *)
(* to cancel and to start in any order, and leave whenever they like.      *)
(***************************************************************************)
EXTENDS Lobby
=============================================================================
