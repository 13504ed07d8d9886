---------------------------- MODULE MCServerLink ----------------------------
(***************************************************************************)
(* Model checking of ServerLink; the constants have values in each .cfg.   *)
(***************************************************************************)
EXTENDS ServerLink
=============================================================================
