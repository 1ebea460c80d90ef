---- MODULE MCGlsaSync ----
(***************************************************************************)
(* GlsaSync for TLC: one or two callers, the official repository and a     *)
(* fork of it, whose default branch has the same name or another one.      *)
(***************************************************************************)
EXTENDS GlsaSync

CONSTANTS p1, p2, official, fork, master, main

SameHead == [r \in Repos |-> master]

OtherHead == [r \in Repos |-> IF r = official THEN master ELSE main]
====
