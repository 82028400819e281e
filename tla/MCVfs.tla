-------------------------------- MODULE MCVfs -------------------------------
(* A directory in a directory, with room for two entries each, two files or  *)
(* three, one of them in the root: the root fills up, inodes run out and   *)
(* are used again.                                                           *)
EXTENDS Vfs

CONSTANT a

MCName == {"dev", "d", "s", "f", a}

MCPath == {<<"d">>, <<"f">>, <<"dev", "f">>, <<"d", "s">>, <<"d", a>>, <<"d", "s", a>>}
=============================================================================
