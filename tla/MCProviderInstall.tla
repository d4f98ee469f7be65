------------------------- MODULE MCProviderInstall -------------------------
(***************************************************************************)
(* Two overlapping installs of a provider and a process that reads the     *)
(* registry.                                                               *)
(***************************************************************************)
EXTENDS ProviderInstall, TLC

Symmetric == Permutations(Installers)
=============================================================================
