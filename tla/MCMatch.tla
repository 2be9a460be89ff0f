------------------------------ MODULE MCMatch ------------------------------
(***************************************************************************)
(* Match.tla for TLC: in MCMatchPlay users leave and reconnect, messages   *)
(* arrive in the middle of a button and games send shots and positions; in *)
(* MCMatchCancel users cancel and ask again, and keep-alives are sent.     *)
(*                                                                         *)
(* Users are interchangeable: sessions are numbered in the order of        *)
(* connection, so permuting users is a symmetry.                           *)
(***************************************************************************)
EXTENDS Match, TLC

UserSymmetry == Permutations(User)
=============================================================================
