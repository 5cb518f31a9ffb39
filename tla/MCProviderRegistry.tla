------------------------- MODULE MCProviderRegistry -------------------------
(***************************************************************************)
(* Calls for the model checking of ProviderRegistry, one model value each. *)
(***************************************************************************)
EXTENDS ProviderRegistry

CONSTANTS c1, k1, d1, d2, u1, u2
=============================================================================
