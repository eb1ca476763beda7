------------------------------- MODULE MCSpool -------------------------------
(* Spool.tla on two pages, for TLC.                                        *)
EXTENDS Spool, TLC

CONSTANTS u1, u2
=============================================================================
