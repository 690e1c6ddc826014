--------------------------- MODULE CompositeManager -------------------------
(***************************************************************************)
(* A composite manager (Data Island or Master Manager) and the managers of *)
(* its nodes: every operation on a session is replicated on the nodes, by  *)
(* a pool of threads, and requests of several clients overlap              *)
(* (composite_manager.py, node_manager.py, session.py).                    *)
(***************************************************************************)
EXTENDS Integers, FiniteSets

CONSTANTS
  Node, SessionId, Client,
  Parts,        \* nodes that hold a part of the graph
  Related,      \* those with relationships to other nodes (_drop_rels)
  Roots,        \* those with drops that are completed at deployment
  Ops,          \* the operations clients ask for
  MaxRequests,  \* bound: requests of the clients
  MaxOutages    \* bound: times a node manager goes away

AllOps == {"create", "append", "deploy", "cancel", "destroy"}

ASSUME IslandAssumption ==
  /\ Related \subseteq Parts /\ Roots \subseteq Parts /\ Parts \subseteq Node
  /\ Node # {} /\ SessionId # {} /\ IsFiniteSet(Client) /\ Ops \subseteq AllOps
  /\ MaxRequests \in Nat /\ MaxOutages \in Nat

VARIABLES
  listed,     \* how often a session is in _sessionIds
  known,      \* sessions with an entry in _drop_rels; their drops are in _graph
  req,        \* what a client waits for
  local,      \* the session on a node
  up,         \* node managers that answer
  requests, outages,
  clean,      \* history: no request failed, no node went away so far
  launched,   \* history: sessions some client has deployed
  touched     \* history: sessions cancelled, destroyed, hit by an outage, or
              \* deployed before anybody gave them a graph

history == <<clean, launched, touched>>
vars == <<listed, known, req, local, up, requests, outages, history>>

Absent == [status |-> "none", graph |-> FALSE, subs |-> FALSE, triggers |-> 0]
Begin(stage, s, nodes) == [stage |-> stage, s |-> s, todo |-> nodes, refused |-> FALSE]
NoRequest == Begin("none", CHOOSE s \in SessionId : TRUE, {})

Init ==
  /\ listed = [s \in SessionId |-> 0]
  /\ known = {}
  /\ req = [c \in Client |-> NoRequest]
  /\ local = [n \in Node |-> [s \in SessionId |-> Absent]]
  /\ up = Node
  /\ requests = 0 /\ outages = 0
  /\ clean = TRUE /\ launched = {} /\ touched = {}

-----------------------------------------------------------------------------
(***************************************************************************)
(* What one node does, and whether it answers or raises.                   *)
(***************************************************************************)
Done(x) == [ok |-> TRUE, local |-> x]
Raised(x) == [ok |-> FALSE, local |-> x]

CreateSession(x) ==
  {IF x.status = "none" THEN Done([Absent EXCEPT !.status = "PRISTINE"]) ELSE Raised(x)}

\* The status changes before the graph is looked at: it may be invalid, and a
\* node that has it already refuses it.
AddGraphSpec(x) ==
  IF x.status \notin {"PRISTINE", "BUILDING"} THEN {Raised(x)}
  ELSE {Raised([x EXCEPT !.status = "BUILDING"])}
         \cup (IF x.graph THEN {}
               ELSE {Done([x EXCEPT !.status = "BUILDING", !.graph = TRUE])})

\* Subscribing to other nodes may time out.
AddNodeSubscriptions(x) ==
  IF x.status = "none" THEN {Raised(x)}
  ELSE {Done([x EXCEPT !.subs = TRUE]), Raised([x EXCEPT !.subs = TRUE])}

\* Mutant: a session may be deployed again.
DeployAgain(x) ==
  IF x.graph /\ x.status \in {"BUILDING", "RUNNING"} THEN {Done([x EXCEPT !.status = "RUNNING"])}
  ELSE {Raised(x)}

\* All drops are loaded, some are not, or the loading raises half-way; a node
\* without drops is finished at once.
Deploy(x) ==
  IF x.graph /\ x.status = "BUILDING"
  THEN {Done([x EXCEPT !.status = "RUNNING"]), Done([x EXCEPT !.status = "FAILED"]),
        Raised([x EXCEPT !.status = "DEPLOYING"])}
  ELSE IF ~x.graph /\ x.status = "PRISTINE" THEN {Done([x EXCEPT !.status = "FINISHED"])}
  ELSE {Raised(x)}

\* Mutant: the test of the status is the wrong way round.
TriggerFailed(x) ==
  {IF x.status = "none" THEN Raised(x)
   ELSE Done([x EXCEPT !.triggers = IF x.status = "FAILED" THEN @ + 1 ELSE @])}

\* The thread that triggers the roots does nothing in a failed session.
TriggerDrops(x) ==
  {IF x.status = "none" THEN Raised(x)
   ELSE Done([x EXCEPT !.triggers = IF x.status = "FAILED" THEN @ ELSE @ + 1])}

CancelSession(x) ==
  {IF x.status \in {"RUNNING", "CANCELLED"} THEN Done([x EXCEPT !.status = "CANCELLED"])
   ELSE Raised(x)}

DestroySession(x) == {IF x.status = "none" THEN Raised(x) ELSE Done(Absent)}

NodeOp(stage, x) ==
  CASE stage = "create" -> CreateSession(x)
    [] stage = "append" -> AddGraphSpec(x)
    [] stage = "subscribe" -> AddNodeSubscriptions(x)
    [] stage = "deploy" -> Deploy(x)
    [] stage = "trigger" -> TriggerDrops(x)
    [] stage = "cancel" -> CancelSession(x)
    [] stage = "destroy" -> DestroySession(x)

-----------------------------------------------------------------------------
(***************************************************************************)
(* Requests.                                                               *)
(***************************************************************************)
\* A handler up to its first replicate.  addGraphSpec stores the graph and its
\* relationships before any node has seen it.
Request(c, op, s) ==
  /\ req[c].stage = "none" /\ requests < MaxRequests
  /\ requests' = requests + 1
  /\ known' = IF op = "append" THEN known \cup {s} ELSE known
  /\ req' = [req EXCEPT ![c] =
       IF op = "append" THEN Begin("append", s, Parts)
       ELSE IF op = "deploy" /\ s \in known /\ Related # {}
            THEN Begin("subscribe", s, Related)
       ELSE Begin(op, s, Node)]
  /\ touched' = IF op \in {"cancel", "destroy"} \/ (op = "deploy" /\ s \notin known)
                THEN touched \cup {s} ELSE touched
  /\ UNCHANGED <<listed, local, up, outages, clean, launched>>

\* Mutant: the exception is logged, and not noted.
DoInHostQuietly(c, n) ==
  /\ req[c].stage # "none" /\ n \in req[c].todo
  /\ LET s == req[c].s IN
     \E r \in IF n \in up THEN NodeOp(req[c].stage, local[n][s]) ELSE {Raised(local[n][s])} :
       local' = [local EXCEPT ![n][s] = r.local]
  /\ req' = [req EXCEPT ![c].todo = @ \ {n}]
  /\ UNCHANGED <<listed, known, up, requests, outages, history>>

\* Mutant: the call waits for a node that does not answer.
DoInHostPatiently(c, n) ==
  /\ req[c].stage # "none" /\ n \in req[c].todo /\ n \in up
  /\ LET s == req[c].s IN
     \E r \in NodeOp(req[c].stage, local[n][s]) :
       /\ local' = [local EXCEPT ![n][s] = r.local]
       /\ req' = [req EXCEPT ![c].todo = @ \ {n}, ![c].refused = @ \/ ~r.ok]
       /\ clean' = (clean /\ r.ok)
  /\ UNCHANGED <<listed, known, up, requests, outages, launched, touched>>

\* _do_in_host: a thread of the pool calls one of the nodes; a failure is noted.
DoInHost(c, n) ==
  /\ req[c].stage # "none" /\ n \in req[c].todo
  /\ LET s == req[c].s IN
     \E r \in IF n \in up THEN NodeOp(req[c].stage, local[n][s]) ELSE {Raised(local[n][s])} :
       /\ local' = [local EXCEPT ![n][s] = r.local]
       /\ req' = [req EXCEPT ![c].todo = @ \ {n}, ![c].refused = @ \/ ~r.ok]
       /\ clean' = (clean /\ r.ok)
  /\ UNCHANGED <<listed, known, up, requests, outages, launched, touched>>

Return(c) == req' = [req EXCEPT ![c] = NoRequest]

\* replicate raises when a node failed, after having called all of them.
Refuse(c) ==
  /\ req[c].stage # "none" /\ req[c].todo = {} /\ req[c].refused
  /\ Return(c)
  /\ UNCHANGED <<listed, known, local, up, requests, outages, history>>

Replicated(c, stage) ==
  req[c].stage = stage /\ req[c].todo = {} /\ ~req[c].refused

Created(c) ==
  /\ Replicated(c, "create")
  /\ listed' = [listed EXCEPT ![req[c].s] = @ + 1]
  /\ Return(c)
  /\ UNCHANGED <<known, local, up, requests, outages, history>>

\* remove raises when somebody else has removed the session.
Destroyed(c) ==
  /\ Replicated(c, "destroy")
  /\ listed' = [listed EXCEPT ![req[c].s] = IF @ > 0 THEN @ - 1 ELSE @]
  /\ clean' = (clean /\ listed[req[c].s] > 0)
  /\ Return(c)
  /\ UNCHANGED <<known, local, up, requests, outages, launched, touched>>

\* Mutant: the nodes that hold roots are triggered with the deployment.
SubscribedTrigger(c) ==
  /\ Replicated(c, "subscribe")
  /\ req' = [req EXCEPT ![c] = Begin("trigger", @.s, Roots)]
  /\ UNCHANGED <<listed, known, local, up, requests, outages, history>>

\* deploySession, second part: all nodes deploy.
Subscribed(c) ==
  /\ Replicated(c, "subscribe")
  /\ req' = [req EXCEPT ![c] = Begin("deploy", @.s, Node)]
  /\ UNCHANGED <<listed, known, local, up, requests, outages, history>>

\* Third part: the roots are triggered, if they are known (_graph is shared by
\* all sessions, which execute one graph here).
Deployed(c) ==
  /\ Replicated(c, "deploy")
  /\ IF known # {} /\ Roots # {}
     THEN /\ req' = [req EXCEPT ![c] = Begin("trigger", @.s, Roots)]
          /\ UNCHANGED clean
     ELSE /\ Return(c)
          /\ clean' = (clean /\ Roots = {})
  /\ UNCHANGED <<listed, known, local, up, requests, outages, launched, touched>>

Answer(c) ==
  /\ \E stage \in {"append", "trigger", "cancel"} : Replicated(c, stage)
  /\ launched' = IF req[c].stage = "trigger" THEN launched \cup {req[c].s} ELSE launched
  /\ Return(c)
  /\ UNCHANGED <<listed, known, local, up, requests, outages, clean, touched>>

\* What a node holds of a session runs to its end once the roots of all nodes
\* were triggered, or have failed with their node (DropGraph, EventExchange).
Progress(n, s) ==
  /\ n \in up /\ local[n][s].status = "RUNNING"
  /\ \A m \in Roots : local[m][s].triggers > 0 \/ local[m][s].status = "FAILED"
  /\ \E st \in {"FINISHED", "FAILED"} : local' = [local EXCEPT ![n][s].status = st]
  /\ UNCHANGED <<listed, known, req, up, requests, outages, history>>

\* A node manager goes away, with its sessions or only from the network.
GoDown(n) ==
  /\ n \in up /\ outages < MaxOutages
  /\ outages' = outages + 1
  /\ up' = up \ {n}
  /\ \E lost \in {[s \in SessionId |-> Absent], local[n]} :
       local' = [local EXCEPT ![n] = lost]
  /\ clean' = FALSE /\ touched' = SessionId
  /\ UNCHANGED <<listed, known, req, requests, launched>>

ComeBack(n) ==
  /\ n \notin up
  /\ up' = up \cup {n}
  /\ UNCHANGED <<listed, known, req, local, requests, outages, history>>

Serve(c) ==
  \/ \E n \in Node : DoInHost(c, n)
  \/ Refuse(c) \/ Created(c) \/ Destroyed(c) \/ Subscribed(c) \/ Deployed(c) \/ Answer(c)

Next ==
  \/ \E c \in Client, op \in Ops, s \in SessionId : Request(c, op, s)
  \/ \E c \in Client : Serve(c)
  \/ \E n \in Node, s \in SessionId : Progress(n, s)
  \/ \E n \in Node : GoDown(n) \/ ComeBack(n)

\* The pool works on what it was given, and sessions that run make progress.
Spec ==
  /\ Init /\ [][Next]_vars
  /\ \A c \in Client : WF_vars(Serve(c))
  /\ \A n \in Node, s \in SessionId : WF_vars(Progress(n, s))

-----------------------------------------------------------------------------
(***************************************************************************)
(* Properties                                                              *)
(***************************************************************************)
Statuses == {"none", "PRISTINE", "BUILDING", "DEPLOYING", "RUNNING", "FINISHED",
             "CANCELLED", "FAILED"}
Steps == {"none", "create", "append", "subscribe", "deploy", "trigger", "cancel", "destroy"}

\* The type invariant of the composite manager and its nodes.
TypeOK ==
  /\ listed \in [SessionId -> Nat]
  /\ known \subseteq SessionId /\ up \subseteq Node
  /\ local \in [Node -> [SessionId ->
       [status : Statuses, graph : BOOLEAN, subs : BOOLEAN, triggers : Nat]]]
  /\ req \in [Client ->
       [stage : Steps, s : SessionId, todo : SUBSET Node, refused : BOOLEAN]]

\* However many clients deploy a session, its roots are triggered once at most:
\* each node accepts one deployment only, and a trigger needs all of them.
TriggeredOnce ==
  \A n \in Node, s \in SessionId : s \notin touched => local[n][s].triggers <= 1

\* A node is triggered only when every part of the graph has been deployed, and
\* everybody who needs the events of another node has subscribed.
WiredBeforeTriggered ==
  \A s \in SessionId \ touched : (\E n \in Node : local[n][s].triggers > 0) =>
    /\ \A n \in Parts : local[n][s].status \in {"RUNNING", "FINISHED", "FAILED"}
    /\ \A n \in Related : local[n][s].subs

Quiet == \A c \in Client : req[c].stage = "none"

\* As long as no request failed, the list of sessions and the nodes agree
\* between requests, although the list is changed after the nodes.
BooksBalance ==
  clean /\ Quiet => \A s \in SessionId :
    \/ listed[s] = 1 /\ (\A n \in Node : local[n][s].status # "none")
    \/ listed[s] = 0 /\ (\A n \in Node : local[n][s].status = "none")

\* Every request comes back, whatever nodes go away meanwhile.
RequestsEnd == \A c \in Client : req[c].stage # "none" ~> req[c].stage = "none"

\* A session whose deployment was reported a success comes to an end on all
\* nodes, unless somebody interferes, also by deploying it once more.
LaunchedEnds ==
  \A s \in SessionId : s \in launched ~>
    s \in touched \/ \A n \in Node : local[n][s].status \in {"FINISHED", "FAILED"}

\* A session that no node has any more is not listed between requests.  TLC
\* refutes this: see the README.
NoGhosts ==
  Quiet => \A s \in SessionId :
    (\A n \in Node : local[n][s].status = "none") => listed[s] = 0

\* A session that runs somewhere is triggered or ends.  TLC refutes this, too.
NothingStranded ==
  \A n \in Node, s \in SessionId :
    local[n][s].status = "RUNNING" /\ s \notin touched ~>
      s \in touched \/ local[n][s].status # "RUNNING"
=============================================================================
