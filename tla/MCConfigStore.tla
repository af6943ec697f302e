---------------------------- MODULE MCConfigStore ----------------------------
(* A small instance of ConfigStore: two values besides the default, one smart *)
(* key out of range, and a queue that the second save wraps around.         *)
EXTENDS ConfigStore, TLC

CONSTANTS v1, v2, late

ValueSymmetry == Permutations({v1, v2})
=============================================================================
