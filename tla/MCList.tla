------------------------------- MODULE MCList -------------------------------
(***************************************************************************)
(* An instance of the list.                                                *)
(***************************************************************************)
EXTENDS List

CONSTANTS e1, e2, e3
=============================================================================
