-------------------------- MODULE MCResourceStream --------------------------
(***************************************************************************)
(* Two clusters of two types with two pages each, a channel of two elements*)
(* and a window of one message.  Kubernetes streams what it discovers and  *)
(* what is named, an API group it lists and one it does not; Azure and GCP *)
(* stream two services or none.                                            *)
(***************************************************************************)
EXTENDS ResourceStream

Calls == {[style |-> "pages", names |-> <<>>],
          [style |-> "pages", names |-> <<2, 1>>],
          [style |-> "group", names |-> <<2>>],
          [style |-> "group", names |-> <<>>],
          [style |-> "refs", names |-> <<1, 2>>],
          [style |-> "refs", names |-> <<>>]}
=============================================================================
