---------------------------- MODULE MCRunHistory ----------------------------
(***************************************************************************)
(* RunHistory and StatusView on the small instances of MCRunLifecycle.     *)
(***************************************************************************)
EXTENDS StatusView, MCRunLifecycle

=============================================================================
