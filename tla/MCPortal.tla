------------------------------ MODULE MCPortal ------------------------------
(* Bounds from below the series to beyond it. *)
EXTENDS Portal
MCBounds == -1 .. N + 1
=============================================================================
