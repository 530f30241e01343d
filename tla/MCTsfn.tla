------------------------------- MODULE MCTsfn -------------------------------
(* Model-checking instance of Tsfn: two or three native worker threads,  *)
(* the binding that owns the handle, and the host thread.                 *)
EXTENDS Tsfn

CONSTANTS w1, w2, w3

MCWorkers == {w1, w2}
ThreeWorkers == {w1, w2, w3}
=============================================================================
