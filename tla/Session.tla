------------------------------ MODULE Session -------------------------------
(***************************************************************************)
(* A session of a Node Manager (manager/session.py) around the graph it    *)
(* executes: building, deploying, running, finishing, failing, ending and  *)
(* cancelling.  Two callers drive it through the REST interface: Builder   *)
(* adds graph parts and deploys, Canceller cancels.  Both, and every       *)
(* thread of the graph that reaches a leaf, run the session's methods.     *)
(***************************************************************************)
EXTENDS DropGraph

CONSTANTS
  Builder, Canceller,   \* the two callers
  Parts,                \* the graph specs the Builder has got
  Order,                \* all drops as breadFirstTraverse visits them
  Completed,            \* the completedDrops of deploy, in that order
  EndDrops,             \* the leaves that are EndDROPs
  LoadFaults,           \* sets of drops that may fail to load
  CreateFaults,         \* may the creation of the drops raise?
  MaxSpecs,             \* bound: calls of addGraphSpec
  MaxCancels            \* bound: calls of cancel

SessionStates ==
  {"PRISTINE", "BUILDING", "DEPLOYING", "RUNNING", "FINISHED", "CANCELLED", "FAILED"}

ASSUME SessionAssumption ==
  /\ Builder # Canceller /\ Callers = {Builder, Canceller}
  /\ \A c \in Callers : Triggers[c] = <<>>
  /\ Parts \subseteq SUBSET Drop
  /\ Order \in Seq(Drop) /\ {Order[i] : i \in DOMAIN Order} = Drop
  /\ Completed \in Seq(Drop)
  /\ EndDrops \subseteq Leaves \cap Data
  /\ LoadFaults \subseteq SUBSET Drop
  /\ CreateFaults \in BOOLEAN

VARIABLES
  session,     \* the status of the session
  graph,       \* the drops whose specs it has got (_graph)
  leavesDone,  \* _completed of the LeavesCompletionListener
  specs,       \* calls of addGraphSpec so far
  cancels      \* calls of cancel so far

sessionVars == <<session, graph, leavesDone, specs, cancels>>
dropVars == <<status, execStatus, dataVars, inputVars, runs>>
svars == <<vars, sessionVars>>

\* One call for every drop, in the order of the traversal.
ForEach(op) == [i \in DOMAIN Order |-> Call(op, Order[i])]

-----------------------------------------------------------------------------
(***************************************************************************)
(* Building and deploying                                                  *)
(***************************************************************************)
\* addGraphSpec: the session is BUILDING before the spec is looked at, and
\* stays so when the spec is invalid or repeats a drop.
AddGraphSpec ==
  /\ stack[Builder] = <<>>
  /\ specs < MaxSpecs
  /\ session \in {"PRISTINE", "BUILDING"}
  /\ session' = "BUILDING"
  /\ \E part \in Parts, valid \in BOOLEAN :
        graph' = IF valid /\ part \cap graph = {} THEN graph \cup part ELSE graph
  /\ specs' = specs + 1
  /\ UNCHANGED <<vars, leavesDone, cancels>>

\* deploy of a session that got no drops finishes it at once.
DeployNothing ==
  /\ stack[Builder] = <<>>
  /\ graph = {} /\ session = "PRISTINE"
  /\ session' = "FINISHED"
  /\ UNCHANGED <<vars, graph, leavesDone, specs, cancels>>

\* deploy creates the drops of the graph and subscribes its listeners.  The
\* graph modelled is the one all parts add up to.
Deploy ==
  /\ stack[Builder] = <<>>
  /\ graph = Drop /\ session = "BUILDING"
  /\ session' = "DEPLOYING"
  /\ stack' = [stack EXCEPT ![Builder] = <<Call("start", Order[1])>>]
  /\ UNCHANGED <<dropVars, graph, leavesDone, specs, cancels>>

\* ... and ends by triggering the completed drops (trigger_drops), or by
\* failing the session when drops could not be loaded.  Creating the drops
\* may also raise, which leaves the session as it is.
Start(t) ==
  /\ At(t, "start")
  /\ \/ session' = "RUNNING" /\ Return(t, [i \in DOMAIN Completed |-> Call("trigger", Completed[i])])
     \/ session' = "RUNNING" /\ LoadFaults # {} /\ Return(t, <<Call("fail", Self(t))>>)
     \/ session' = session /\ CreateFaults /\ Return(t, <<>>)
  /\ UNCHANGED <<dropVars, graph, leavesDone, specs, cancels>>

Fail(t) ==
  /\ At(t, "fail")
  /\ session' = "FAILED"
  /\ \E failures \in LoadFaults :
        Return(t, SelectSeq(ForEach("failOther"), LAMBDA f : f.drop \notin failures)
                  \o SelectSeq(ForEach("failDrop"), LAMBDA f : f.drop \in failures))
  /\ UNCHANGED <<dropVars, graph, leavesDone, specs, cancels>>

\* Mutant: the other drops are left alone.
FailOtherNone(t) ==
  /\ At(t, "failOther")
  /\ Return(t, <<>>)
  /\ UNCHANGED <<dropVars, sessionVars>>

FailOther(t) ==
  /\ At(t, "failOther")
  /\ Return(t, IF status[Self(t)] \in Pending THEN <<Call("cancel", Self(t))>> ELSE <<>>)
  /\ UNCHANGED <<dropVars, sessionVars>>

FailDrop(t) ==
  LET x == Self(t) IN
  /\ At(t, "failDrop")
  /\ \/ /\ x \in App
        /\ SetExec(x, "ERROR")
        /\ Return(t, <<Call("notify", x)>>)
        /\ UNCHANGED status
     \/ /\ x \in Data
        /\ SetStatus(x, "ERROR")
        /\ Return(t, <<Call("setError", x)>>)
        /\ UNCHANGED execStatus
  /\ UNCHANGED <<dataVars, inputVars, runs, sessionVars>>

-----------------------------------------------------------------------------
(***************************************************************************)
(* Ending: the LeavesCompletionListener counts the leaves, and the thread  *)
(* that sees the last one runs finish.  The EndListener of an EndDROP,     *)
(* which is called next, runs end.                                         *)
(***************************************************************************)
\* Mutant: the leaf is counted, and nothing else happens.
LeafForgotten(t) ==
  /\ At(t, "leaf")
  /\ leavesDone' = leavesDone + 1
  /\ Return(t, <<>>)
  /\ UNCHANGED <<dropVars, session, graph, specs, cancels>>

Leaf(t) ==
  /\ At(t, "leaf")
  /\ leavesDone' = leavesDone + 1
  /\ Return(t, <<Call("leafCheck", Self(t))>>
               \o (IF Self(t) \in EndDrops THEN <<Call("end", Self(t))>> ELSE <<>>))
  /\ UNCHANGED <<dropVars, session, graph, specs, cancels>>

\* Mutants: the first leaf is enough; one leaf too many is waited for.
LeafCheckFirst(t) ==
  /\ At(t, "leafCheck")
  /\ Return(t, <<Call("finish", Self(t))>>)
  /\ UNCHANGED <<dropVars, sessionVars>>

LeafCheckMore(t) ==
  /\ At(t, "leafCheck")
  /\ Return(t, IF leavesDone > Cardinality(Leaves) THEN <<Call("finish", Self(t))>> ELSE <<>>)
  /\ UNCHANGED <<dropVars, sessionVars>>

LeafCheck(t) ==
  /\ At(t, "leafCheck")
  /\ Return(t, IF leavesDone = Cardinality(Leaves) THEN <<Call("finish", Self(t))>> ELSE <<>>)
  /\ UNCHANGED <<dropVars, sessionVars>>

Finish(t) ==
  /\ At(t, "finish")
  /\ session' = "FINISHED"
  /\ Return(t, ForEach("finishDrop"))
  /\ UNCHANGED <<dropVars, graph, leavesDone, specs, cancels>>

FinishDrop(t) ==
  LET x == Self(t) IN
  /\ At(t, "finishDrop")
  /\ Return(t, (IF status[x] \in Pending THEN <<Call("setCompleted", x)>> ELSE <<>>)
               \o <<Call("finishError", x)>>)
  /\ UNCHANGED <<dropVars, sessionVars>>

\* Mutant: drops in ERROR do not fail the session.
FinishErrorIgnored(t) ==
  /\ At(t, "finishError")
  /\ Return(t, <<>>)
  /\ UNCHANGED <<dropVars, sessionVars>>

FinishError(t) ==
  /\ At(t, "finishError")
  /\ session' = IF status[Self(t)] = "ERROR" THEN "FAILED" ELSE session
  /\ Return(t, <<>>)
  /\ UNCHANGED <<dropVars, graph, leavesDone, specs, cancels>>

EndSession(t) ==
  /\ At(t, "end")
  /\ session' = "FINISHED"
  /\ Return(t, ForEach("endDrop"))
  /\ UNCHANGED <<dropVars, graph, leavesDone, specs, cancels>>

EndDrop(t) ==
  /\ At(t, "endDrop")
  /\ Return(t, IF status[Self(t)] \in Pending THEN <<Call("skip", Self(t))>> ELSE <<>>)
  /\ UNCHANGED <<dropVars, sessionVars>>

-----------------------------------------------------------------------------
(***************************************************************************)
(* Cancelling                                                              *)
(***************************************************************************)
CancelSession ==
  /\ stack[Canceller] = <<>>
  /\ cancels < MaxCancels
  /\ session \in {"RUNNING", "CANCELLED"}
  /\ cancels' = cancels + 1
  /\ stack' = [stack EXCEPT ![Canceller] =
                 ForEach("cancelDrop") \o <<Call("cancelled", Order[1])>>]
  /\ UNCHANGED <<dropVars, session, graph, leavesDone, specs>>

\* Mutant: only applications are cancelled.
CancelDropApps(t) ==
  /\ At(t, "cancelDrop")
  /\ Return(t, IF Self(t) \in Data
               THEN <<>> ELSE <<Call("cancel", Self(t))>>)
  /\ UNCHANGED <<dropVars, sessionVars>>

CancelDrop(t) ==
  /\ At(t, "cancelDrop")
  /\ Return(t, IF status[Self(t)] \in {"ERROR", "COMPLETED", "CANCELLED"}
               THEN <<>> ELSE <<Call("cancel", Self(t))>>)
  /\ UNCHANGED <<dropVars, sessionVars>>

Cancelled(t) ==
  /\ At(t, "cancelled")
  /\ session' = "CANCELLED"
  /\ Return(t, <<>>)
  /\ UNCHANGED <<dropVars, graph, leavesDone, specs, cancels>>

-----------------------------------------------------------------------------
SInit ==
  /\ Init
  /\ session = "PRISTINE"
  /\ graph = {}
  /\ leavesDone = 0 /\ specs = 0 /\ cancels = 0

SStep(t) ==
  \/ Step(t) /\ UNCHANGED sessionVars
  \/ CancelStep(t) /\ UNCHANGED sessionVars
  \/ Start(t) \/ Fail(t) \/ FailOther(t) \/ FailDrop(t)
  \/ Leaf(t) \/ LeafCheck(t) \/ Finish(t) \/ FinishDrop(t) \/ FinishError(t)
  \/ EndSession(t) \/ EndDrop(t) \/ CancelDrop(t) \/ Cancelled(t)

\* Nothing runs, and nobody asks for anything any more.
SDone == Quiet /\ UNCHANGED svars

SNext ==
  \/ AddGraphSpec \/ DeployNothing \/ Deploy \/ CancelSession
  \/ \E t \in Thread : SStep(t)
  \/ SDone

\* The threads are scheduled; nobody is bound to build, deploy or cancel.
SSpec == SInit /\ [][SNext]_svars /\ \A t \in Thread : WF_svars(SStep(t))

-----------------------------------------------------------------------------
(***************************************************************************)
(* Properties                                                              *)
(***************************************************************************)
Over == {"FINISHED", "CANCELLED", "FAILED"}

\* The type invariant of the session's own state and of the drops' states.
STypeOK ==
  /\ session \in SessionStates
  /\ graph \subseteq Drop
  /\ leavesDone \in Nat
  /\ status \in [Drop -> DROPStates]
  /\ execStatus \in [App -> AppDROPStates]

\* A session that runs comes to an end, by the leaves listener, by a failure
\* to load or by a cancellation, whatever these do to each other.
SessionEnds == session = "RUNNING" ~> session \in Over

\* The session is FINISHED only when all leaf drops have ended: the listener
\* counts events, and takes their number for the number of leaves.
FinishedMeansLeavesEnded ==
  session = "FINISHED" /\ graph # {} => \A x \in Leaves : status[x] \notin Pending

\* Once everything has stopped, a session that ran to its end is FAILED if,
\* and only if, one of its drops is in ERROR (finish).
FailedMeansError ==
  Quiet /\ session \in {"FINISHED", "FAILED"} /\ graph # {}
    => (session = "FAILED" <=> \E x \in Drop : status[x] = "ERROR")

\* Once a session has ended and everything has stopped, none of its drops is
\* still waiting for data.
NothingLeftPending ==
  Quiet /\ session \in Over /\ graph # {} => \A x \in Drop : status[x] \notin Pending

\* A cancelled session stays cancelled, whatever the threads of its graph still
\* do (cancel, finish).  TLC refutes this: see the README.
CancelIsFinal == [][session = "CANCELLED" => session' = "CANCELLED"]_svars

\* A drop that was cancelled stays cancelled (cancel, execute).  TLC refutes
\* this as well: see the README.
CancelledDropsStay ==
  [][\A x \in Drop : status[x] = "CANCELLED" => status'[x] = "CANCELLED"]_svars
=============================================================================
