-------------------------- MODULE MCOrderDispatch --------------------------
(* An instance of OrderDispatch for TLC. *)
EXTENDS OrderDispatch

CONSTANTS w1, w2

TwoWorkers == {w1, w2}
=============================================================================
