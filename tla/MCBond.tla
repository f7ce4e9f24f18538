------------------------------- MODULE MCBond -------------------------------
(***************************************************************************)
(* Model checking Bond: a client that bonds two channels.                  *)
(***************************************************************************)
EXTENDS Bond

CONSTANTS d1, i1, i2

MCRequest == {<<d1, i1>>, <<d1, i2>>}
=============================================================================
