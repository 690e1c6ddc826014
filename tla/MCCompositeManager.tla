-------------------------- MODULE MCCompositeManager ------------------------
(***************************************************************************)
(* A small island, for TLC.                                                *)
(***************************************************************************)
EXTENDS CompositeManager, TLC

CONSTANTS n1, n2, s1, c1, c2

TwoNodes == {n1, n2}
OneNode == {n1}
OneSession == {s1}
TwoClients == {c1, c2}
EveryOp == AllOps
=============================================================================
