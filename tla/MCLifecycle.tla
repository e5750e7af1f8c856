---------------------------- MODULE MCLifecycle ----------------------------
(***************************************************************************)
(* Values of the constants of Lifecycle for TLC.                           *)
(***************************************************************************)
EXTENDS Lifecycle

OneInfo == <<"svn">>
=============================================================================
