----------------------------- MODULE MCSockBuf -----------------------------
(***************************************************************************)
(* SockBuf.tla on a small instance: pieces of at most two bytes, at most   *)
(* three unread bytes, an initial size smaller than one piece.             *)
(***************************************************************************)
EXTENDS SockBuf
=============================================================================
