----------------------------- MODULE MCSession ------------------------------
(***************************************************************************)
(* Small sessions on which TLC checks Session.                             *)
(***************************************************************************)
EXTENDS Session, TLC

CONSTANTS d0, d1, a1, a2, a3

NoDrops == {}
TwoCallers == {Builder, Canceller}
NoTriggers == [c \in Callers |-> <<>>]
AllInputs == [a \in App |-> -1]
NoTolerance == [a \in App |-> 0]
OkOnly == [a \in App |-> {"ok"}]
OkOrException == [a \in App |-> {"ok", "exception"}]
OneTry == [a \in App |-> 1]
UnknownSize == [d \in Data |-> -1]

\* Fork: the root d0 feeds a1, which produces d1, and a2, a leaf.
ForkData == {d0, d1}
ForkApp == {a1, a2}
ForkConsumers == d0 :> <<a1, a2>> @@ d1 :> <<>>
ForkOutputs == a1 :> <<d1>> @@ a2 :> <<>>
ForkLeaves == {d1, a2}
ForkEnds == {d1}
ForkOrder == <<d0, a1, a2, d1>>
ForkCompleted == <<d0>>
ForkParts == {{d0, a1}, {a2, d1}, {d0, a1, a2, d1}}
ForkFaults == {{d1}, {a1}, {a2, d1}}

\* Triangle: the root d0 feeds a1, which produces d1, and a3; d1 feeds a3
\* and a2.  The apps a2 and a3 are leaves, and a3 has two inputs.
TriangleData == {d0, d1}
TriangleApp == {a1, a2, a3}
TriangleConsumers == d0 :> <<a1, a3>> @@ d1 :> <<a3, a2>>
TriangleOutputs == a1 :> <<d1>> @@ a2 :> <<>> @@ a3 :> <<>>
TriangleLeaves == {a2, a3}
TriangleOrder == <<d0, a1, a3, d1, a2>>
TriangleCompleted == <<d0>>
TriangleParts == {{d0, a1, a3, d1, a2}}
=============================================================================
