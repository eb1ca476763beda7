----------------------------- MODULE MCDispatch -----------------------------
(* Dispatch.tla on two hosts, one with two URLs and one with one, for TLC.  *)
EXTENDS Dispatch, TLC

CONSTANTS h1, h2, a1, a2, b1

MCHostOf == [i \in Items |-> IF i = b1 THEN h2 ELSE h1]
=============================================================================
