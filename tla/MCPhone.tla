------------------------------ MODULE MCPhone ------------------------------
(* The relay whose value stands where a cut report's opcode is read. *)
EXTENDS Phone

MCUsed == {3}
=============================================================================
