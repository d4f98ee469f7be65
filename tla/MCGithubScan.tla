---------------------------- MODULE MCGithubScan ----------------------------
(***************************************************************************)
(* Three repositories and two slots.  Two are protected: REST refuses to   *)
(* tell the protection of one, that of the other is hidden, and its alerts *)
(* are off.  The third has no default branch.  The default batch, and      *)
(* batches of the other services.                                          *)
(***************************************************************************)
EXTENDS GithubScan

CONSTANTS api, web, docs

ThreeRepos == <<api, web, docs>>

SomeBatches == {<<"repos", "security", "findings">>, <<"actions", "access">>, <<"other", "orgs">>}

SomeEnterprise == {<<"actions", "access">>}

SomeRefused == {<<api, "protection">>, <<web, "alerts">>, <<None, "listing">>}
=============================================================================
