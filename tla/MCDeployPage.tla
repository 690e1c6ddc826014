---------------------------- MODULE MCDeployPage ----------------------------
(***************************************************************************)
(* Two stored methods, one with a blank in its name, for TLC.              *)
(***************************************************************************)
EXTENDS DeployPage

CONSTANTS long, short, other, u1, u2, none, nowhere

ThreeNames == {long, short, other}
TwoUrls == {u1, u2}
Words == [n \in ThreeNames |-> IF n = long THEN short ELSE n]
TwoMethods == <<[name |-> long, url |-> u1, active |-> TRUE],
                [name |-> other, url |-> u2, active |-> FALSE]>>
=============================================================================
