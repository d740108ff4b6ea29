------------------------------ MODULE MCFcTune -------------------------------
(* A small instance of FcTune.                                             *)
EXTENDS FcTune

P(i, v) == [id |-> i, value |-> v]

MCAccepts == { P(1, 0) }
MCLists   == { << P(1, 0) >> }
MCGains   == [ steering |-> { << P(1, 1) >> }, speed |-> { << P(1, 0) >> } ]
=============================================================================
