------------------------------ MODULE MCrring -------------------------------
(* Four slots and two values: every position of the front, full and empty  *)
(* rings, and pops that wrap.                                              *)
EXTENDS rring

CONSTANTS x, y

MCValues == {x, y}

=============================================================================
