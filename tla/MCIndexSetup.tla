---------------------------- MODULE MCIndexSetup ----------------------------
(* IndexSetup for TLC: workers are model values.                            *)
EXTENDS IndexSetup

CONSTANTS w1, w2
=============================================================================
