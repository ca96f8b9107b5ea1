------------------------------ MODULE MCInputs ------------------------------
(***************************************************************************)
(* An instance of the inputs.                                              *)
(***************************************************************************)
EXTENDS Inputs

CONSTANTS p, q, a1, a2, chan
=============================================================================
