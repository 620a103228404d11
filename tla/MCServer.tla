------------------------------ MODULE MCServer ------------------------------
(***************************************************************************)
(* An instance of Server for TLC.                                          *)
(***************************************************************************)
EXTENDS ServerProperties

CONSTANTS c1, c2, v
=============================================================================
