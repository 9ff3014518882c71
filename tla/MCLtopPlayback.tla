---------------------------- MODULE MCLtopPlayback ----------------------------
(* Two OSTs of one file system and an MDT of another.                      *)
EXTENDS LtopPlayback, TLC

CONSTANTS x, y, z, f1, f2

MCFsOf  == (x :> f1) @@ (y :> f2) @@ (z :> f1)
MCOrder == <<x, y, z>>
===============================================================================
