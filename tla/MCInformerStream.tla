-------------------------- MODULE MCInformerStream --------------------------
(***************************************************************************)
(* Two clients that watch the same type, or a type the cache cannot        *)
(* resolve.  The first client's list succeeds, the second one's never does.*)
(***************************************************************************)
EXTENDS InformerStream

CONSTANTS deployments, roles, s1, s2

Watches == {{deployments}, {roles}}

\* The list of every other stream is forbidden.
OnlyFirstLists == [s \in Streams |-> IF s = s1 THEN 2 ELSE 0]
=============================================================================
