---------------------------- MODULE MCFcParams ------------------------------
(* Small instances of FcParams: two parameters, of which the second does  *)
(* not take the value the upload has for it; or one parameter only.        *)
EXTENDS FcParams

P(i, v) == [id |-> i, value |-> v]

MCLists    == { << P(1, 1), P(2, 1) >> }
MCAccepts  == { P(1, 0), P(1, 1), P(2, 0) }

OneLists   == { << P(1, 1) >>, << P(1, 0) >> }
OneAccepts == { P(1, 0), P(1, 1) }
=============================================================================
