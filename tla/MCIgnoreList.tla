----------------------------- MODULE MCIgnoreList -----------------------------
(* The ignore list with two directories "a" and "b", two settings ("a" and *)
(* "a;b"), two inodes, and an hour of two time units.                     *)
EXTENDS IgnoreList

MCPatterns == {<<"a">>, <<"a", ";", "b">>}
MCDirs == {<<"a">>, <<"b">>}
MCHome == <<"h">>
=============================================================================
