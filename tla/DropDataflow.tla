---------------------------- MODULE DropDataflow ----------------------------
(***************************************************************************)
(* DropGraph, the exchange of events between drops, as an implementation   *)
(* of Dataflow.                                                            *)
(***************************************************************************)
EXTENDS DropGraph

\* The fate of a drop is what its status says once it has ended.
Fate(x) ==
  CASE status[x] = "COMPLETED" -> "ok"
    [] status[x] = "ERROR" -> "error"
    [] status[x] = "SKIPPED" -> "skipped"
    [] OTHER -> "pending"

Abstract == INSTANCE Dataflow WITH Needed <- NEff, fate <- [x \in Drop |-> Fate(x)]

\* The exchange of events implements the dataflow it is meant for: however
\* the threads interleave, a drop ends once, and only on the grounds its
\* producers or its inputs give.
ImplementsDataflow == Abstract!Spec
=============================================================================
