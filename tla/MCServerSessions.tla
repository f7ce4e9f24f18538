-------------------------- MODULE MCServerSessions --------------------------
(***************************************************************************)
(* Model checking ServerSessions: a client with two channels and one with  *)
(* a single channel.                                                       *)
(***************************************************************************)
EXTENDS ServerSessions

CONSTANTS d1, d2, i1, i2

MCRequest == {<<d1, i1>>, <<d1, i2>>, <<d2, i1>>}
=============================================================================
