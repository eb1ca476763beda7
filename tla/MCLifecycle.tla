---------------------------- MODULE MCLifecycle -----------------------------
(* Lifecycle.tla with two URLs and two API handlers, for TLC.              *)
EXTENDS Lifecycle, TLC

CONSTANTS u1, u2, c1, c2
=============================================================================
