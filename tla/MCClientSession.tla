-------------------------- MODULE MCClientSession --------------------------
(* ClientSession for TLC: its bounds are given in the cfg files. *)
EXTENDS ClientSession
=============================================================================
