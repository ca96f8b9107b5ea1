---------------------------- MODULE MCMediaRelay ----------------------------
(***************************************************************************)
(* Instances of the relay: one channel with its buffer, and two channels   *)
(* of which one has a buffer and the other little to receive.              *)
(***************************************************************************)
EXTENDS MediaRelay

CONSTANTS c1, c2, b1

MCUnits == [c \in Channels |-> IF c = c1 THEN 3 ELSE 1]

MCOut == [b \in Buffers |-> c1]
=============================================================================
