--------------------------- MODULE MCEventExchange --------------------------
(***************************************************************************)
(* Two nodes that exchange events, for TLC.                                *)
(***************************************************************************)
EXTENDS EventExchange, TLC

CONSTANTS n1, n2, s1, s2, a1, d1

TwoNodes == {n1, n2}
Second == {n2}
TwoSessions == {s1, s2}

\* The application a1 on n1 produces d1 on n2.
Ping == {a1, d1}
PingData == {d1}
PingHome == a1 :> n1 @@ d1 :> n2
PingRel == {<<a1, d1>>}

FirstFails == {<<n1, s1>>}
=============================================================================
