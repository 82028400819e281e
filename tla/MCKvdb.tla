------------------------------- MODULE MCKvdb -------------------------------
(* Two keys of different length; values of two levels, two of them in place  *)
(* of each other.                                                            *)
EXTENDS Kvdb

MCKey == {<<97>>, <<98, 98>>}
MCValue == {<<120>>, <<121>>, <<122, 122, 122>>}
MCDLV == <<3, 5>>
=============================================================================
