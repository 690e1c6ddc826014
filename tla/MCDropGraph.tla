---------------------------- MODULE MCDropGraph -----------------------------
(***************************************************************************)
(* Small graphs on which TLC checks DropGraph.                             *)
(***************************************************************************)
EXTENDS DropDataflow, TLC

CONSTANTS d0, d1, d2, d3, d4, d5, a0, a1, a2, a3, a4, a5, main

NoDrops == {}
OneCaller == {main}
Root == main :> <<d0>>
AllInputs == [a \in App |-> -1]
NoTolerance == [a \in App |-> 0]
AnyOutcome == [a \in App |-> RunOutcomes]
OkOnly == [a \in App |-> {"ok"}]
OkOrException == [a \in App |-> {"ok", "exception"}]
OneTry == [a \in App |-> 1]
UnknownSize == [d \in Data |-> -1]

\* Fan: a0 skips one of d1 and d2, the inputs of a1 and a2; both produce d3,
\* which feeds a3 and a4; both produce d4, and a5 turns d4 into d5.  The first
\* half does not fail, the second half may.
FanData == {d0, d1, d2, d3, d4, d5}
FanApp == {a0, a1, a2, a3, a4, a5}
FanConsumers ==
  d0 :> <<a0>> @@ d1 :> <<a1>> @@ d2 :> <<a2>> @@ d3 :> <<a3, a4>>
    @@ d4 :> <<a5>> @@ d5 :> <<>>
FanOutputs ==
  a0 :> <<d1, d2>> @@ a1 :> <<d3>> @@ a2 :> <<d3>>
    @@ a3 :> <<d4>> @@ a4 :> <<d4>> @@ a5 :> <<d5>>
FanOutcomes ==
  [a \in App |-> IF a \in {a3, a4, a5} THEN RunOutcomes ELSE {"ok"}]
FanTries == [a \in App |-> IF a = a3 THEN 2 ELSE 1]
BranchFirst == {a0}
Merge == {d3}

\* Join: d0 feeds a1 and a2, which produce d1 and d2, the inputs of a3.
JoinData == {d0, d1, d2, d3}
JoinApp == {a1, a2, a3}
JoinConsumers == d0 :> <<a1, a2>> @@ d1 :> <<a3>> @@ d2 :> <<a3>> @@ d3 :> <<>>
JoinOutputs == a1 :> <<d1>> @@ a2 :> <<d2>> @@ a3 :> <<d3>>

\* Chain: a0 skips one of d1 and d2; d1 feeds both a1 and a2, the producers
\* of d3, and d2 feeds a3, which produces d4.
ChainData == {d0, d1, d2, d3, d4}
ChainApp == {a0, a1, a2, a3}
ChainConsumers ==
  d0 :> <<a0>> @@ d1 :> <<a1, a2>> @@ d2 :> <<a3>> @@ d3 :> <<>> @@ d4 :> <<>>
ChainOutputs == a0 :> <<d1, d2>> @@ a1 :> <<d3>> @@ a2 :> <<d3>> @@ a3 :> <<d4>>
TwoTriesFirst == [a \in App |-> IF a = a1 THEN 2 ELSE 1]
BlockingApp == {a1}

HalfTolerant == [a \in App |-> IF a = a3 THEN 50 ELSE 0]
OneOfTwo == [a \in App |-> IF a = a3 THEN 1 ELSE -1]
TooMany == [a \in App |-> IF a = a3 THEN 2 ELSE -1]
TwoFiles == {d1, d3}
OneWriteEach == [d \in Data |-> IF d \in TwoFiles THEN 1 ELSE -1]
OneWrite == [d \in Data |-> IF d = d1 THEN 1 ELSE -1]
=============================================================================
