---------------------------- MODULE MCScrollback ----------------------------
(***************************************************************************)
(* The instance of Scrollback that TLC checks.                             *)
(***************************************************************************)
EXTENDS Scrollback

(* Once a bookmark has led the view astray, nothing more is explored: the  *)
(* places a bookmark can lead to then have no bound.                       *)
MCBound == ~strayed
=============================================================================
