---------------------------- MODULE MCTouchPanel ----------------------------
(* Every button filters two samples or more. *)
EXTENDS TouchPanel

MCFilterCnt == [b \in Buttons |-> b + 1]
=============================================================================
