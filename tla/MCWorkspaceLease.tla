-------------------------- MODULE MCWorkspaceLease --------------------------
(* Two sessions of one process and one of another, two runs each.            *)
EXTENDS WorkspaceLease, TLC

CONSTANTS p1, p2, s1, s2

MCOwners == {<<p1, s1>>, <<p1, s2>>, <<p2, s1>>}
TwoOwners == {<<p1, s1>>, <<p2, s1>>}
MCCallers == {1, 2}
=============================================================================
