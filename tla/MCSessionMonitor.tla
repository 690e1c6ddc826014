-------------------------- MODULE MCSessionMonitor --------------------------
(***************************************************************************)
(* A manager of two nodes and the page of one session, for TLC.            *)
(***************************************************************************)
EXTENDS SessionMonitor

CONSTANTS n1, n2

TwoNodes == {n1, n2}
=============================================================================
