---- MODULE MCPipeline ----
(***************************************************************************)
(* Pipeline for TLC: two overlapping callers on one directory and one      *)
(* repository; the second push revises an advisory and adds another.       *)
(***************************************************************************)
EXTENDS Pipeline

CONSTANTS p1, p2, official, master

MCFirstHead == [r \in Repos |-> master]

MCWrites == [n \in 1 .. MaxCommits |-> IF n = 1 THEN {1, 2} ELSE {1, 3}]
====
