-------------------------- MODULE MCOverlayMirror --------------------------
(***************************************************************************)
(* OverlayMirror on a small instance.                                      *)
(***************************************************************************)
EXTENDS OverlayMirror

CONSTANTS p, q, t, u, c1, c2
=============================================================================
