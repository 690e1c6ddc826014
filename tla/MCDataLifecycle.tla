-------------------------- MODULE MCDataLifecycle ---------------------------
(***************************************************************************)
(* Small sets of drops on which TLC checks DataLifecycle.                  *)
(***************************************************************************)
EXTENDS DataLifecycle

CONSTANTS d1, d2, c1, c2, a1, v1

NoDrops == {}
One == {d1}
Two == {d1, d2}
Second == {d2}
TwoCopies == {c1, c2}
OneApp == {a1}
OneViewer == {v1}
ConsumeFirst == [d \in Drops |-> IF d = d1 THEN Apps ELSE {}]
TwoProducers == [d \in Drops |-> IF d = d1 THEN 2 ELSE 0]
=============================================================================
