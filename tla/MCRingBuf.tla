------------------------------ MODULE MCRingBuf ------------------------------
(* A small instance of RingBuf: the bytes are two model values.             *)
EXTENDS RingBuf

CONSTANTS b1, b2
=============================================================================
