------------------------- MODULE MCProviderLifecycle -------------------------
(***************************************************************************)
(* The symmetry of the addresses and of the ProviderImpls.                 *)
(***************************************************************************)
EXTENDS ProviderLifecycle

Symmetry == Permutations(Addr) \cup Permutations(Impl)
=============================================================================
