-------------------------- MODULE MCServerBootstrap --------------------------
(***************************************************************************)
(* ServerBootstrap for TLC; the sizes are in the configurations.           *)
(***************************************************************************)
EXTENDS ServerBootstrap
=============================================================================
