---------------------------- MODULE MCQuickScan ----------------------------
(***************************************************************************)
(* Quick scans of three providers, asked for up to twice.                  *)
(***************************************************************************)
EXTENDS QuickScan

ThreeProviders == <<"aws", "azure", "gcp">>
=============================================================================
