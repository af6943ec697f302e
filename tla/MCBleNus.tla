------------------------------ MODULE MCBleNus ------------------------------
(* A small instance of BleNus: two relays, one of them with a button, a     *)
(* one-byte acknowledgement and a two-byte response, and a ring that holds  *)
(* two frames and a bit, so that it overflows.                              *)
EXTENDS BleNus

CONSTANTS ack, ver

MCRespLen == [k \in {ack, ver} |-> IF k = ack THEN 1 ELSE 2]
=============================================================================
