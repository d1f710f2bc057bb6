----------------------------- MODULE MCBalancers -----------------------------
(* Three backends of different weights.                                    *)
EXTENDS Balancers

PoolWeights == <<1, 3, 2>>
=============================================================================
