------------------------ MODULE CompositeManagerProofs ----------------------
(***************************************************************************)
(* Proofs about CompositeManager, for any nodes, clients, sessions and     *)
(* graphs, and any number of requests and outages.                         *)
(***************************************************************************)
EXTENDS CompositeManager, FiniteSetTheorems, TLAPS

Deployments == {"RUNNING", "FINISHED", "FAILED"}

\* Request c has deployed session s on node n, and may trigger its roots.
Holds(c, n, s) ==
  /\ req[c].s = s
  /\ \/ req[c].stage = "deploy" /\ n \notin req[c].todo /\ ~req[c].refused
     \/ req[c].stage = "trigger"

\* One request holds a node at most, and for as long as any does the session is
\* deployed there; where roots were triggered, all nodes are held by the request
\* that did it, if it is still under way.
Held(s) ==
  /\ \A c \in Client, n \in Node : Holds(c, n, s) => local[n][s].status \in Deployments
  /\ \A c, d \in Client, n \in Node : Holds(c, n, s) /\ Holds(d, n, s) => c = d

TriggeredBy(s) ==
  \A n \in Node :
    /\ local[n][s].triggers <= 1
    /\ local[n][s].triggers > 0 =>
         /\ \A m \in Node : local[m][s].status \in Deployments
         /\ \A c \in Client, m \in Node : Holds(c, m, s) =>
              req[c].stage = "trigger" /\ n \notin req[c].todo

\* Subscriptions are made before a request deploys, and are there to stay.
Wired(s) ==
  /\ \A n \in Node : local[n][s].subs => local[n][s].status # "none"
  /\ \A c \in Client : req[c].s = s =>
       /\ req[c].stage \notin {"cancel", "destroy"}
       /\ req[c].stage = "subscribe" /\ ~req[c].refused =>
            \A n \in Related \ req[c].todo : local[n][s].subs
       /\ req[c].stage \in {"deploy", "trigger"} => \A n \in Related : local[n][s].subs
  /\ (\E n \in Node : local[n][s].triggers > 0) => \A n \in Related : local[n][s].subs

Untouched(s) == Held(s) /\ TriggeredBy(s) /\ Wired(s)

IInv == TypeOK /\ \A s \in SessionId \ touched : Untouched(s)

NodeState == [status : Statuses, graph : BOOLEAN, subs : BOOLEAN, triggers : Nat]

-----------------------------------------------------------------------------
\* A node that does not know the session (node_manager.py has no entry) has a well-typed state.
LEMMA AbsentType == Absent \in NodeState
  BY DEF NodeState, Absent, Statuses

\* Assigning one field of a session's record on a node keeps it well typed.
LEMMA FieldTypes ==
  ASSUME NEW x \in NodeState, NEW st \in Statuses, NEW k \in Nat
  PROVE  /\ [x EXCEPT !.status = st] \in NodeState
         /\ [x EXCEPT !.status = st, !.graph = TRUE] \in NodeState
         /\ [x EXCEPT !.subs = TRUE] \in NodeState
         /\ [x EXCEPT !.triggers = k] \in NodeState
  BY Zenon DEF NodeState

\* What Session.deploy does to a node: refuse, raise half way, or end in one of three states.
LEMMA DeployCases ==
  ASSUME NEW x \in NodeState, NEW r \in Deploy(x)
  PROVE  \/ r = Raised(x)
         \/ r = Raised([x EXCEPT !.status = "DEPLOYING"]) /\ x.status = "BUILDING"
         \/ /\ x.status \in {"BUILDING", "PRISTINE"}
            /\ \E st \in {"RUNNING", "FAILED", "FINISHED"} : r = Done([x EXCEPT !.status = st])
  <1>1. CASE x.graph /\ x.status = "BUILDING"
    BY <1>1 DEF Deploy
  <1>2. CASE ~(x.graph /\ x.status = "BUILDING") /\ ~x.graph /\ x.status = "PRISTINE"
    BY <1>2 DEF Deploy
  <1>3. CASE ~(x.graph /\ x.status = "BUILDING") /\ ~(~x.graph /\ x.status = "PRISTINE")
    BY <1>3 DEF Deploy
  <1> QED
    BY <1>1, <1>2, <1>3

\* What a node does leaves it in a proper state.
LEMMA NodeOpType ==
  ASSUME NEW x \in NodeState, NEW stage \in Steps \ {"none"}, NEW r \in NodeOp(stage, x)
  PROVE  r.local \in NodeState
  <1> USE DEF Done, Raised
  <1>1. CASE stage = "create"
    <2>1. [Absent EXCEPT !.status = "PRISTINE"] \in NodeState
      BY AbsentType, FieldTypes, Zenon DEF Statuses
    <2> QED
      BY <1>1, <2>1 DEF NodeOp, CreateSession
  <1>2. CASE stage = "append"
    <2>1. /\ [x EXCEPT !.status = "BUILDING"] \in NodeState
          /\ [x EXCEPT !.status = "BUILDING", !.graph = TRUE] \in NodeState
      BY FieldTypes, Zenon DEF Statuses
    <2> QED
      BY <1>2, <2>1 DEF NodeOp, AddGraphSpec
  <1>3. CASE stage = "subscribe"
    <2>1. [x EXCEPT !.subs = TRUE] \in NodeState
      BY FieldTypes, Zenon DEF Statuses
    <2>2. r \in AddNodeSubscriptions(x)
      BY <1>3 DEF NodeOp
    <2> DEFINE y == [x EXCEPT !.subs = TRUE]
    <2>3. y \in NodeState
      BY <2>1
    <2>4. r \in {Raised(x), Done(y), Raised(y)}
      BY <2>2 DEF AddNodeSubscriptions
    <2> HIDE DEF y
    <2> QED
      BY <2>3, <2>4
  <1>4. CASE stage = "deploy"
    <2>1. \A st \in {"RUNNING", "FAILED", "DEPLOYING", "FINISHED"} :
            [x EXCEPT !.status = st] \in NodeState
      BY FieldTypes, Zenon DEF Statuses
    <2> QED
      <3>1. r \in Deploy(x)
        BY <1>4 DEF NodeOp
      <3> QED
        BY <3>1, <2>1, DeployCases
  <1>5. CASE stage = "trigger"
    <2>1. [x EXCEPT !.triggers = IF x.status = "FAILED" THEN @ ELSE @ + 1] \in NodeState
      BY DEF NodeState
    <2> QED
      BY <1>5, <2>1 DEF NodeOp, TriggerDrops
  <1>6. CASE stage = "cancel"
    <2>1. [x EXCEPT !.status = "CANCELLED"] \in NodeState
      BY FieldTypes, Zenon DEF Statuses
    <2> QED
      BY <1>6, <2>1 DEF NodeOp, CancelSession
  <1>7. CASE stage = "destroy"
    BY <1>7, AbsentType DEF NodeOp, DestroySession
  <1> QED
    BY <1>1, <1>2, <1>3, <1>4, <1>5, <1>6, <1>7 DEF Steps

\* What a node does to a session that is neither cancelled nor destroyed: a
\* session that is deployed stays so, a deployment succeeds on one that was not,
\* and only a trigger is counted.
LEMMA NodeOpEffect ==
  ASSUME NEW x \in NodeState, NEW stage \in Steps \ {"none", "cancel", "destroy"},
         NEW r \in NodeOp(stage, x), x.subs => x.status # "none"
  PROVE  /\ x.status \in Deployments => r.local.status \in Deployments
         /\ x.subs => r.local.subs
         /\ r.local.subs => r.local.status # "none"
         /\ stage = "subscribe" /\ r.ok => r.local.subs
         /\ stage = "deploy" /\ r.ok => x.status \notin Deployments /\ r.local.status \in Deployments
         /\ stage # "trigger" => r.local.triggers <= x.triggers
         /\ r.local.triggers <= x.triggers + 1
  <1>1. CASE stage = "create"
    <2>1. r \in CreateSession(x)
      BY <1>1 DEF NodeOp
    <2> QED
      BY <1>1, <2>1 DEF CreateSession, NodeState, Done, Raised, Absent, Statuses, Deployments
  <1>2. CASE stage = "append"
    <2>1. r \in AddGraphSpec(x)
      BY <1>2 DEF NodeOp
    <2>2. \/ r = Raised(x)
          \/ /\ x.status \in {"PRISTINE", "BUILDING"}
             /\ \/ r = Raised([x EXCEPT !.status = "BUILDING"])
                \/ r = Done([x EXCEPT !.status = "BUILDING", !.graph = TRUE])
      BY <2>1 DEF AddGraphSpec
    <2>3. CASE r = Raised(x)
      BY <1>2, <2>3 DEF Raised, NodeState
    <2>4. CASE /\ x.status \in {"PRISTINE", "BUILDING"}
               /\ r = Raised([x EXCEPT !.status = "BUILDING"])
      BY <1>2, <2>4 DEF Raised, NodeState, Deployments
    <2>5. CASE /\ x.status \in {"PRISTINE", "BUILDING"}
               /\ r = Done([x EXCEPT !.status = "BUILDING", !.graph = TRUE])
      <3>1. /\ r.local.status = "BUILDING" /\ r.local.subs = x.subs
            /\ r.local.triggers = x.triggers
        BY <2>5, Zenon DEF Done, NodeState
      <3>2. x.triggers \in Nat
        BY DEF NodeState
      <3> QED
        BY <1>2, <2>5, <3>1, <3>2 DEF Deployments
    <2> QED
      BY <2>2, <2>3, <2>4, <2>5
  <1>3. CASE stage = "subscribe"
    <2>1. r \in AddNodeSubscriptions(x)
      BY <1>3 DEF NodeOp
    <2> QED
      BY <1>3, <2>1 DEF AddNodeSubscriptions, NodeState, Done, Raised, Absent, Statuses, Deployments
  <1>4. CASE stage = "deploy"
    <2>1. r \in Deploy(x)
      BY <1>4 DEF NodeOp
    <2> QED
      BY <1>4, <2>1, DeployCases DEF NodeState, Done, Raised, Statuses, Deployments
  <1>5. CASE stage = "trigger"
    <2>1. r \in TriggerDrops(x)
      BY <1>5 DEF NodeOp
    <2> QED
      BY <1>5, <2>1 DEF TriggerDrops, NodeState, Done, Raised, Absent, Statuses, Deployments
  <1> QED
    BY <1>1, <1>2, <1>3, <1>4, <1>5 DEF Steps

-----------------------------------------------------------------------------
ReqType == [stage : Steps, s : SessionId, todo : SUBSET Node, refused : BOOLEAN]

\* A request at any stage of the composite manager, with any nodes left, is well typed.
LEMMA BeginType ==
  ASSUME NEW stage \in Steps, NEW s \in SessionId, NEW nodes \in SUBSET Node
  PROVE  /\ Begin(stage, s, nodes) \in ReqType
         /\ Begin(stage, s, nodes).stage = stage /\ Begin(stage, s, nodes).s = s
         /\ Begin(stage, s, nodes).todo = nodes /\ Begin(stage, s, nodes).refused = FALSE
  BY DEF ReqType, Begin

\* What the REST handlers start with is a well-typed request.
LEMMA RequestTypes ==
  ASSUME NEW op \in Ops, NEW s \in SessionId
  PROVE  /\ Begin("append", s, Parts) \in ReqType /\ Begin("subscribe", s, Related) \in ReqType
         /\ Begin(op, s, Node) \in ReqType
  <1>1. {"append", "subscribe", op} \subseteq Steps /\ {Parts, Related, Node} \subseteq SUBSET Node
    BY IslandAssumption DEF Steps, AllOps
  <1> QED
    BY <1>1, BeginType, Zenon

\* The two later stages of deploySession are well-typed requests.
LEMMA DeployTypes ==
  ASSUME NEW s \in SessionId
  PROVE  /\ Begin("deploy", s, Node) \in ReqType
         /\ Begin("trigger", s, Roots) \in ReqType
  <1>1. {"deploy", "trigger"} \subseteq Steps /\ {Roots, Node} \subseteq SUBSET Node
    BY IslandAssumption DEF Steps
  <1> QED
    BY <1>1, BeginType, Zenon

\* A client with no request under way has a well-typed entry.
LEMMA NoRequestType == NoRequest \in ReqType /\ NoRequest.stage = "none"
  <1>1. (CHOOSE s \in SessionId : TRUE) \in SessionId
    BY IslandAssumption
  <1>2. NoRequest = [stage |-> "none", s |-> (CHOOSE s \in SessionId : TRUE),
                     todo |-> {}, refused |-> FALSE]
    BY DEF NoRequest, Begin
  <1> QED
    BY <1>1, <1>2 DEF ReqType, Steps

\* Before any request the invariant holds: no node knows any session.
LEMMA InitIInv == Init => IInv
  <1> SUFFICES ASSUME Init PROVE IInv
    OBVIOUS
  <1>1. TypeOK
    BY NoRequestType, AbsentType DEF Init, TypeOK, NodeState, ReqType
  <1>2. \A c \in Client : req[c].stage = "none"
    BY NoRequestType DEF Init
  <1>3. \A n \in Node, s \in SessionId : local[n][s].triggers = 0 /\ local[n][s].subs = FALSE
    BY DEF Init, Absent
  <1>4. ASSUME NEW s \in SessionId PROVE Untouched(s)
    BY <1>2, <1>3 DEF Untouched, Held, TriggeredBy, Wired, Holds
  <1> QED
    BY <1>1, <1>4 DEF IInv

\* A request that ends, or that is only beginning, holds nothing.
LEMMA ReqOnly ==
  ASSUME IInv, NEW s \in SessionId \ touched, NEW c \in Client, NEW r \in ReqType,
         req' = [req EXCEPT ![c] = r], UNCHANGED local,
         r.s = s =>
           /\ r.stage \notin {"trigger", "cancel", "destroy"}
           /\ r.stage = "deploy" => r.todo = Node /\ \A n \in Related : local[n][s].subs
           /\ r.stage = "subscribe" => Related \subseteq r.todo
  PROVE  Untouched(s)'
  <1>1. Untouched(s) /\ req \in [Client -> ReqType]
    BY DEF IInv, TypeOK, ReqType
  <1>2. req'[c] = r /\ \A d \in Client \ {c} : req'[d] = req[d]
    BY <1>1
  <1>3. \A d \in Client, n \in Node : Holds(d, n, s)' => d # c /\ Holds(d, n, s)
    BY <1>2 DEF Holds
  <1>4. Held(s)'
    BY <1>1, <1>3 DEF Untouched, Held
  <1>5. TriggeredBy(s)'
    BY <1>1, <1>2, <1>3 DEF Untouched, TriggeredBy
  <1>6. Wired(s)'
    BY <1>1, <1>2 DEF Untouched, Wired
  <1> QED
    BY <1>4, <1>5, <1>6 DEF Untouched

\* The call of a node, for a session nobody has touched.
LEMMA DoInHostUntouched ==
  ASSUME IInv, NEW c \in Client, NEW n \in Node, DoInHost(c, n), NEW s \in SessionId \ touched
  PROVE  Untouched(s)'
  <1> DEFINE q == req[c]
             x == local[n][q.s]
  <1>1. /\ Untouched(s) /\ req \in [Client -> ReqType]
        /\ local \in [Node -> [SessionId -> NodeState]]
    BY DEF IInv, TypeOK, ReqType, NodeState
  <1>2. q \in ReqType /\ q.s \in SessionId /\ q.stage \in Steps \ {"none"} /\ n \in q.todo
    BY <1>1 DEF DoInHost, ReqType
  <1>3. PICK r \in IF n \in up THEN NodeOp(q.stage, x) ELSE {Raised(x)} :
          /\ local' = [local EXCEPT ![n][q.s] = r.local]
          /\ req' = [req EXCEPT ![c].todo = @ \ {n}, ![c].refused = @ \/ ~r.ok]
    BY Zenon DEF DoInHost
  <1>4. x \in NodeState
    BY <1>1, <1>2
  <1>5. /\ \A d \in Client \ {c} : req'[d] = req[d]
        /\ req'[c].stage = q.stage /\ req'[c].s = q.s /\ req'[c].todo = q.todo \ {n}
        /\ ~req'[c].refused => ~q.refused /\ r.ok
    BY <1>1, <1>3 DEF ReqType
  <1>6. /\ local'[n][q.s] = r.local
        /\ \A m \in Node, t \in SessionId : m # n \/ t # q.s => local'[m][t] = local[m][t]
    BY <1>1, <1>2, <1>3
  <1> HIDE DEF q, x
  <1>7. CASE s # q.s
    <2>1. \A m \in Node : local'[m][s] = local[m][s]
      BY <1>6, <1>7
    <2>2. \A d \in Client, m \in Node : Holds(d, m, s)' <=> Holds(d, m, s)
      BY <1>5, <1>7 DEF Holds, q
    <2>3. Held(s)'
      BY <1>1, <2>1, <2>2 DEF Untouched, Held
    <2>4. TriggeredBy(s)'
      BY <1>1, <1>5, <1>7, <2>1, <2>2 DEF Untouched, TriggeredBy, Holds
    <2>5. Wired(s)'
      <3>1. \A d \in Client : req'[d].s = s => req'[d] = req[d]
        BY <1>5, <1>7
      <3> QED
        BY <1>1, <2>1, <3>1, IslandAssumption DEF Untouched, Wired
    <2> QED
      BY <2>3, <2>4, <2>5 DEF Untouched
  <1>8. CASE s = q.s
    <2> DEFINE y == r.local
    <2>1. q.stage \notin {"cancel", "destroy"} /\ (x.subs => x.status # "none")
      BY <1>1, <1>8 DEF Untouched, Wired, q, x
    <2>2. /\ x.status \in Deployments => y.status \in Deployments
          /\ x.subs => y.subs
          /\ y.subs => y.status # "none"
          /\ q.stage = "subscribe" /\ r.ok => y.subs
          /\ q.stage = "deploy" /\ r.ok => x.status \notin Deployments /\ y.status \in Deployments
          /\ q.stage # "trigger" => y.triggers <= x.triggers
          /\ y.triggers <= x.triggers + 1
      <3>1. CASE n \in up
        BY <1>2, <1>3, <1>4, <2>1, <3>1, NodeOpEffect
      <3>2. CASE n \notin up
        <4>1. r.local = x /\ r.ok = FALSE
          BY <1>3, <3>2 DEF Raised
        <4>2. x.triggers \in Nat
          BY <1>4 DEF NodeState
        <4> QED
          BY <4>1, <4>2, <2>1
      <3> QED
        BY <3>1, <3>2
    <2>3. y \in NodeState
      BY <1>2, <1>3, <1>4, NodeOpType DEF Raised
    <2>4. /\ local'[n][s] = y /\ local[n][s] = x
          /\ \A m \in Node \ {n} : local'[m][s] = local[m][s]
      BY <1>6, <1>8 DEF x
    <2> HIDE DEF y
    <2>5. \A m \in Node : local[m][s].triggers \in Nat /\ local'[m][s].triggers \in Nat
      BY <1>1, <2>3, <2>4, Zenon DEF NodeState
    <2>6. \A d \in Client, m \in Node : Holds(d, m, s)' =>
            \/ Holds(d, m, s)
            \/ d = c /\ m = n /\ q.stage = "deploy" /\ r.ok
      BY <1>5, <1>8 DEF Holds, q
    <2>7. \A m \in Node : local[m][s].status \in Deployments => local'[m][s].status \in Deployments
      BY <2>2, <2>4
    <2>8. Held(s)'
      BY <1>1, <2>2, <2>4, <2>6, <2>7 DEF Untouched, Held
    <2>9. TriggeredBy(s)'
      <3> SUFFICES ASSUME NEW k \in Node
                   PROVE  /\ local'[k][s].triggers <= 1
                          /\ local'[k][s].triggers > 0 =>
                               /\ \A m \in Node : local'[m][s].status \in Deployments
                               /\ \A d \in Client, m \in Node : Holds(d, m, s)' =>
                                    req'[d].stage = "trigger" /\ k \notin req'[d].todo
        BY DEF TriggeredBy
      <3>1. CASE k = n /\ q.stage = "trigger"
        <4>1. \A m \in Node : Holds(c, m, s)
          BY <1>8, <3>1 DEF Holds, q
        <4>2. ~(x.triggers > 0)
          BY <1>1, <1>2, <2>4, <4>1 DEF Untouched, TriggeredBy, q
        <4>3. y.triggers <= 1
          BY <2>2, <2>4, <2>5, <4>2
        <4>4. \A m \in Node : local'[m][s].status \in Deployments
          BY <1>1, <4>1, <2>7 DEF Untouched, Held
        <4>5. \A d \in Client, m \in Node : Holds(d, m, s)' => d = c
          BY <1>1, <2>6, <3>1, <4>1 DEF Untouched, Held
        <4> QED
          BY <3>1, <4>3, <4>4, <4>5, <1>5, <2>4
      <3>2. CASE ~(k = n /\ q.stage = "trigger")
        <4>1. local'[k][s].triggers <= local[k][s].triggers
          BY <2>2, <2>4, <2>5, <3>2
        <4>2. local[k][s].triggers <= 1
          BY <1>1 DEF Untouched, TriggeredBy
        <4>3. ASSUME local'[k][s].triggers > 0
              PROVE  /\ \A m \in Node : local'[m][s].status \in Deployments
                     /\ \A d \in Client, m \in Node : Holds(d, m, s)' =>
                          req'[d].stage = "trigger" /\ k \notin req'[d].todo
          <5>1. local[k][s].triggers > 0
            BY <4>1, <4>3, <2>5
          <5>2. \A m \in Node : local[m][s].status \in Deployments
            BY <1>1, <5>1 DEF Untouched, TriggeredBy
          <5>3. \A d \in Client, m \in Node : Holds(d, m, s)' => Holds(d, m, s)
            BY <2>2, <2>4, <2>6, <5>2
          <5>4. \A d \in Client, m \in Node : Holds(d, m, s) =>
                  req[d].stage = "trigger" /\ k \notin req[d].todo
            BY <1>1, <5>1 DEF Untouched, TriggeredBy
          <5> QED
            BY <1>5, <2>7, <5>2, <5>3, <5>4 DEF q
        <4> QED
          BY <4>1, <4>2, <4>3, <2>5
      <3> QED
        BY <3>1, <3>2
    <2>10. Wired(s)'
      <3>1. \A m \in Node : local[m][s].subs => local'[m][s].subs
        BY <2>2, <2>4
      <3>2. \A m \in Node : local'[m][s].subs => local'[m][s].status # "none"
        BY <1>1, <2>2, <2>4 DEF Untouched, Wired
      <3>3. Related \subseteq Node
        BY IslandAssumption
      <3>4. ASSUME NEW d \in Client, req'[d].s = s
            PROVE  /\ req'[d].stage \notin {"cancel", "destroy"}
                   /\ req'[d].stage = "subscribe" /\ ~req'[d].refused =>
                        \A m \in Related \ req'[d].todo : local'[m][s].subs
                   /\ req'[d].stage \in {"deploy", "trigger"} => \A m \in Related : local'[m][s].subs
        <4>1. CASE d = c
          BY <1>1, <1>5, <1>8, <2>2, <2>4, <3>1, <3>3, <4>1 DEF Untouched, Wired, q
        <4>2. CASE d # c
          BY <1>1, <1>5, <3>1, <3>3, <3>4, <4>2 DEF Untouched, Wired
        <4> QED
          BY <4>1, <4>2
      <3>5. ASSUME \E m \in Node : local'[m][s].triggers > 0
            PROVE  \A m \in Related : local'[m][s].subs
        <4>1. CASE q.stage = "trigger"
          BY <1>1, <1>8, <3>1, <3>3, <4>1 DEF Untouched, Wired, q
        <4>2. CASE q.stage # "trigger"
          <5>1. \E m \in Node : local[m][s].triggers > 0
            BY <2>2, <2>4, <2>5, <3>5, <4>2
          <5> QED
            BY <1>1, <3>1, <3>3, <5>1 DEF Untouched, Wired
        <4> QED
          BY <4>1, <4>2
      <3> QED
        BY <3>2, <3>4, <3>5 DEF Wired
    <2> QED
      BY <2>8, <2>9, <2>10 DEF Untouched
  <1> QED
    BY <1>7, <1>8

\* Every step keeps the types.
LEMMA TypeStep ==
  ASSUME IInv, [Next]_vars
  PROVE  TypeOK'
  <1> USE DEF TypeOK, ReqType, NodeState
  <1>1. TypeOK /\ req \in [Client -> ReqType] /\ local \in [Node -> [SessionId -> NodeState]]
    BY DEF IInv
  <1>2. ASSUME NEW c \in Client, NEW op \in Ops, NEW s \in SessionId, Request(c, op, s)
        PROVE  TypeOK'
    <2>1. /\ Begin("append", s, Parts) \in ReqType /\ Begin("subscribe", s, Related) \in ReqType
          /\ Begin(op, s, Node) \in ReqType
      BY RequestTypes
    <2>2. req' \in [Client -> ReqType]
      BY <1>1, <1>2, <2>1 DEF Request
    <2> QED
      BY <1>1, <1>2, <2>2 DEF Request
  <1>3. ASSUME NEW c \in Client, NEW n \in Node, DoInHost(c, n)
        PROVE  TypeOK'
    <2> DEFINE q == req[c]
               x == local[n][q.s]
    <2>1. q \in ReqType /\ q.s \in SessionId /\ q.stage \in Steps \ {"none"} /\ x \in NodeState
      BY <1>1, <1>3 DEF DoInHost
    <2>2. PICK r \in IF n \in up THEN NodeOp(q.stage, x) ELSE {Raised(x)} :
            /\ local' = [local EXCEPT ![n][q.s] = r.local]
            /\ req' = [req EXCEPT ![c].todo = @ \ {n}, ![c].refused = @ \/ ~r.ok]
      BY <1>3, Zenon DEF DoInHost
    <2>3. r.local \in NodeState
      BY <2>1, <2>2, NodeOpType DEF Raised
    <2>4. local' \in [Node -> [SessionId -> NodeState]]
      BY <1>1, <2>1, <2>2, <2>3
    <2>5. req' \in [Client -> ReqType]
      BY <1>1, <2>2, Zenon
    <2> QED
      BY <1>1, <1>3, <2>4, <2>5 DEF DoInHost
  <1>4. ASSUME NEW c \in Client, Refuse(c) \/ Created(c) \/ Destroyed(c) \/ Answer(c)
        PROVE  TypeOK'
    <2>1. req' \in [Client -> ReqType]
      BY <1>1, <1>4, NoRequestType DEF Refuse, Created, Destroyed, Answer, Return
    <2>2. listed' \in [SessionId -> Nat]
      BY <1>1, <1>4 DEF Refuse, Created, Destroyed, Answer
    <2> QED
      BY <1>1, <1>4, <2>1, <2>2 DEF Refuse, Created, Destroyed, Answer
  <1>5. ASSUME NEW c \in Client, Subscribed(c) \/ Deployed(c)
        PROVE  TypeOK'
    <2>1. /\ Begin("deploy", req[c].s, Node) \in ReqType
          /\ Begin("trigger", req[c].s, Roots) \in ReqType
      <3>1. req[c].s \in SessionId
        BY <1>1
      <3> QED
        BY <3>1, DeployTypes
    <2>2. req' \in [Client -> ReqType]
      BY <1>1, <1>5, <2>1, NoRequestType DEF Subscribed, Deployed, Return
    <2> QED
      BY <1>1, <1>5, <2>2 DEF Subscribed, Deployed
  <1>6. ASSUME NEW n \in Node, NEW s \in SessionId, Progress(n, s)
        PROVE  TypeOK'
    <2>1. PICK st \in {"FINISHED", "FAILED"} : local' = [local EXCEPT ![n][s].status = st]
      BY <1>6, Zenon DEF Progress
    <2>2. [local[n][s] EXCEPT !.status = st] \in NodeState
      <3>1. local[n][s] \in NodeState /\ st \in Statuses
        BY <1>1 DEF Statuses
      <3> QED
        BY <3>1
    <2>3. local' \in [Node -> [SessionId -> NodeState]]
      BY <1>1, <2>1, <2>2
    <2> QED
      BY <1>1, <1>6, <2>3 DEF Progress
  <1>7. ASSUME NEW n \in Node, GoDown(n)
        PROVE  TypeOK'
    <2>1. local' \in [Node -> [SessionId -> NodeState]]
      BY <1>1, <1>7, AbsentType DEF GoDown
    <2> QED
      BY <1>1, <1>7, <2>1 DEF GoDown
  <1>8. ASSUME NEW n \in Node, ComeBack(n)
        PROVE  TypeOK'
    BY <1>1, <1>8 DEF ComeBack
  <1>9. CASE UNCHANGED vars
    BY <1>1, <1>9 DEF vars
  <1> QED
    BY <1>2, <1>3, <1>4, <1>5, <1>6, <1>7, <1>8, <1>9 DEF Next, Serve

\* Every step keeps what is known of the sessions nobody has touched.
LEMMA UntouchedStep ==
  ASSUME IInv, [Next]_vars, NEW s \in SessionId \ touched'
  PROVE  Untouched(s)'
  <1>1. TypeOK /\ req \in [Client -> ReqType] /\ local \in [Node -> [SessionId -> NodeState]]
    BY DEF IInv, TypeOK, ReqType, NodeState
  <1>2. s \in SessionId \ touched
    BY Zenon DEF Next, Serve, Request, DoInHost, Refuse, Created, Destroyed, Subscribed, Deployed,
       Answer, Progress, GoDown, ComeBack, vars, history
  <1>3. Untouched(s)
    BY <1>2 DEF IInv
  <1>4. ASSUME NEW c \in Client, NEW op \in Ops, NEW t \in SessionId, Request(c, op, t)
        PROVE  Untouched(s)'
    <2> DEFINE r == IF op = "append" THEN Begin("append", t, Parts)
                    ELSE IF op = "deploy" /\ t \in known /\ Related # {}
                         THEN Begin("subscribe", t, Related)
                    ELSE Begin(op, t, Node)
    <2>1. /\ Begin("append", t, Parts) \in ReqType /\ Begin("subscribe", t, Related) \in ReqType
          /\ Begin(op, t, Node) \in ReqType
      BY RequestTypes
    <2>2. r.s = s =>
            /\ r.stage \notin {"trigger", "cancel", "destroy"}
            /\ r.stage = "deploy" => r.todo = Node /\ \A n \in Related : local[n][s].subs
            /\ r.stage = "subscribe" => Related \subseteq r.todo
      BY <1>4, IslandAssumption DEF Request, Begin, AllOps
    <2>3. req' = [req EXCEPT ![c] = r] /\ UNCHANGED local
      BY <1>4 DEF Request
    <2>4. r \in ReqType
      BY <2>1
    <2> HIDE DEF r
    <2> QED
      BY <1>2, <2>2, <2>3, <2>4, ReqOnly, Zenon
  <1>5. ASSUME NEW c \in Client, NEW n \in Node, DoInHost(c, n)
        PROVE  Untouched(s)'
    BY <1>2, <1>5, DoInHostUntouched
  <1>6. ASSUME NEW c \in Client, Refuse(c) \/ Created(c) \/ Destroyed(c) \/ Answer(c)
        PROVE  Untouched(s)'
    <2>1. req' = [req EXCEPT ![c] = NoRequest] /\ UNCHANGED local
      BY <1>6 DEF Refuse, Created, Destroyed, Answer, Return
    <2> QED
      BY <1>2, <2>1, NoRequestType, ReqOnly, Zenon
  <1>7. ASSUME NEW c \in Client, Subscribed(c)
        PROVE  Untouched(s)'
    <2>1. Begin("deploy", req[c].s, Node) \in ReqType
      <3>1. req[c].s \in SessionId
        BY <1>1 DEF ReqType
      <3> QED
        BY <3>1, DeployTypes
    <2>2. req[c].s = s => \A n \in Related : local[n][s].subs
      BY <1>3, <1>7 DEF Subscribed, Replicated, Untouched, Wired
    <2>3. req' = [req EXCEPT ![c] = Begin("deploy", req[c].s, Node)] /\ UNCHANGED local
      BY <1>7 DEF Subscribed
    <2> QED
      BY <1>2, <2>1, <2>2, <2>3, ReqOnly, Zenon DEF Begin
  <1>8. ASSUME NEW c \in Client, Deployed(c)
        PROVE  Untouched(s)'
    <2>1. CASE known # {} /\ Roots # {}
      <3> DEFINE r == Begin("trigger", req[c].s, Roots)
      <3>1. req[c].stage = "deploy" /\ req[c].todo = {} /\ ~req[c].refused
        BY <1>8 DEF Deployed, Replicated
      <3>2. r.stage = "trigger" /\ r.s = req[c].s
        BY DEF Begin
      <3>3. /\ req'[c] = r /\ UNCHANGED local
            /\ \A d \in Client \ {c} : req'[d] = req[d]
        BY <1>1, <1>8, <2>1 DEF Deployed
      <3> HIDE DEF r
      <3>4. \A d \in Client, n \in Node : Holds(d, n, s)' <=> Holds(d, n, s)
        BY <3>1, <3>2, <3>3 DEF Holds
      <3>5. Held(s)'
        BY <1>3, <3>3, <3>4 DEF Untouched, Held
      <3>6. TriggeredBy(s)'
        <4>1. ASSUME NEW n \in Node, local[n][s].triggers > 0, req[c].s = s
              PROVE  FALSE
          <5>1. Holds(c, n, s)
            BY <3>1, <4>1 DEF Holds
          <5> QED
            BY <1>3, <3>1, <4>1, <5>1 DEF Untouched, TriggeredBy
        <4> QED
          BY <1>3, <3>2, <3>3, <3>4, <4>1 DEF Untouched, TriggeredBy, Holds
      <3>7. Wired(s)'
        BY <1>3, <3>1, <3>2, <3>3 DEF Untouched, Wired
      <3> QED
        BY <3>5, <3>6, <3>7 DEF Untouched
    <2>2. CASE ~(known # {} /\ Roots # {})
      <3>1. req' = [req EXCEPT ![c] = NoRequest] /\ UNCHANGED local
        BY <1>8, <2>2 DEF Deployed, Return
      <3> QED
        BY <1>2, <3>1, NoRequestType, ReqOnly, Zenon
    <2> QED
      BY <2>1, <2>2
  <1>9. ASSUME NEW n \in Node, NEW t \in SessionId, Progress(n, t)
        PROVE  Untouched(s)'
    <2>1. PICK st \in {"FINISHED", "FAILED"} : local' = [local EXCEPT ![n][t].status = st]
      BY <1>9, Zenon DEF Progress
    <2>2. UNCHANGED req /\ local[n][t].status = "RUNNING"
      BY <1>9 DEF Progress
    <2>3. \A m \in Node :
            /\ local'[m][s].triggers = local[m][s].triggers
            /\ local'[m][s].subs = local[m][s].subs
            /\ local[m][s].status \in Deployments => local'[m][s].status \in Deployments
            /\ local[m][s].status # "none" => local'[m][s].status # "none"
      BY <1>1, <2>1, <2>2 DEF Deployments, NodeState
    <2>4. \A d \in Client, m \in Node : Holds(d, m, s)' <=> Holds(d, m, s)
      BY <2>2 DEF Holds
    <2>5. Held(s)'
      BY <1>3, <2>3, <2>4 DEF Untouched, Held
    <2>6. TriggeredBy(s)'
      BY <1>3, <2>2, <2>3, <2>4 DEF Untouched, TriggeredBy
    <2>7. Wired(s)'
      BY <1>3, <2>2, <2>3, IslandAssumption DEF Untouched, Wired
    <2> QED
      BY <2>5, <2>6, <2>7 DEF Untouched
  <1>10. ASSUME NEW n \in Node, GoDown(n)
         PROVE  Untouched(s)'
    BY <1>10 DEF GoDown
  <1>11. ASSUME UNCHANGED <<req, local>>
         PROVE  Untouched(s)'
    <2>1. \A d \in Client, m \in Node : Holds(d, m, s)' <=> Holds(d, m, s)
      BY <1>11 DEF Holds
    <2> QED
      BY <1>3, <1>11, <2>1 DEF Untouched, Held, TriggeredBy, Wired
  <1>12. ASSUME NEW n \in Node, ComeBack(n)
         PROVE  Untouched(s)'
    BY <1>11, <1>12 DEF ComeBack
  <1>13. CASE UNCHANGED vars
    BY <1>11, <1>13 DEF vars
  <1> QED
    BY <1>4, <1>5, <1>6, <1>7, <1>8, <1>9, <1>10, <1>12, <1>13 DEF Next, Serve

-----------------------------------------------------------------------------
\* The invariant holds in every state of every behaviour.
LEMMA Inductive == Spec => []IInv
  <1>1. IInv /\ [Next]_vars => IInv'
    BY TypeStep, UntouchedStep DEF IInv
  <1> QED
    BY <1>1, InitIInv, PTL DEF Spec

\* Whatever the clients ask for and whatever nodes go away, the manager and its
\* nodes keep their types.
THEOREM TypeCorrect == Spec => []TypeOK
  <1>1. IInv => TypeOK
    BY DEF IInv
  <1> QED
    BY <1>1, Inductive, PTL

\* However many clients deploy a session on however many nodes at once, no node
\* has its roots triggered twice.
THEOREM RootsTriggeredOnce == Spec => []TriggeredOnce
  <1>1. IInv => TriggeredOnce
    BY DEF IInv, TriggeredOnce, Untouched, TriggeredBy
  <1> QED
    BY <1>1, Inductive, PTL

\* No root is triggered before all parts of the graph are deployed and all nodes
\* that need each other's events have subscribed.
THEOREM WiringComesFirst == Spec => []WiredBeforeTriggered
  <1>1. IInv => WiredBeforeTriggered
    <2> SUFFICES ASSUME IInv, NEW s \in SessionId \ touched,
                        NEW k \in Node, local[k][s].triggers > 0
                 PROVE  /\ \A n \in Parts : local[n][s].status \in Deployments
                        /\ \A n \in Related : local[n][s].subs
      BY DEF WiredBeforeTriggered, Deployments
    <2>1. Untouched(s)
      BY DEF IInv
    <2> QED
      BY <2>1, IslandAssumption DEF Untouched, TriggeredBy, Wired
  <1> QED
    BY <1>1, Inductive, PTL

-----------------------------------------------------------------------------
(***************************************************************************)
(* The books.  The list is changed after the nodes, so that in between a   *)
(* request has been to some nodes and not to others: on each node the      *)
(* sessions listed, and the creations that have been there, are as many as *)
(* the destructions that have been there, and the session itself if it is. *)
(***************************************************************************)
\* Requests under way that node n has already answered.
Been(rq, op, n, s) == {c \in Client : rq[c].stage = op /\ rq[c].s = s /\ n \notin rq[c].todo}
Present(x) == IF x.status = "none" THEN 0 ELSE 1

Balance(n, s) ==
  listed[s] + Cardinality(Been(req, "create", n, s))
    = Cardinality(Been(req, "destroy", n, s)) + Present(local[n][s])

Books == clean => /\ \A c \in Client : ~req[c].refused
                  /\ \A n \in Node, s \in SessionId : Balance(n, s)

\* The requests that have been to a node are counted by a natural number.
LEMMA BeenFinite ==
  ASSUME NEW rq, NEW op, NEW n, NEW s
  PROVE  IsFiniteSet(Been(rq, op, n, s)) /\ Cardinality(Been(rq, op, n, s)) \in Nat
  <1>1. Been(rq, op, n, s) \in SUBSET Client
    BY DEF Been
  <1>2. IsFiniteSet(Been(rq, op, n, s))
    BY <1>1, IslandAssumption, FS_Subset, Zenon
  <1> QED
    BY <1>2, FS_CardinalityType, Zenon

\* Only a creation brings a session to a node, and only a destruction takes it
\* away, as long as the node does not raise.
LEMMA NodeOpPresent ==
  ASSUME NEW x \in NodeState, NEW stage \in Steps \ {"none"}, NEW r \in NodeOp(stage, x), r.ok
  PROVE  Present(r.local) = IF stage = "create" THEN Present(x) + 1
                            ELSE IF stage = "destroy" THEN Present(x) - 1 ELSE Present(x)
  <1> USE DEF Present, NodeState
  <1>1. CASE stage = "create"
    <2>1. r \in CreateSession(x)
      BY <1>1 DEF NodeOp
    <2> QED
      BY <1>1, <2>1 DEF CreateSession, Done, Raised, Absent
  <1>2. CASE stage = "append"
    <2>1. r \in AddGraphSpec(x)
      BY <1>2 DEF NodeOp
    <2>2. /\ x.status \in {"PRISTINE", "BUILDING"}
          /\ r = Done([x EXCEPT !.status = "BUILDING", !.graph = TRUE])
      BY <2>1 DEF AddGraphSpec, Raised
    <2>3. r.local.status = "BUILDING"
      BY <2>2, Zenon DEF Done
    <2> QED
      BY <1>2, <2>2, <2>3
  <1>3. CASE stage = "subscribe"
    <2>1. r \in AddNodeSubscriptions(x)
      BY <1>3 DEF NodeOp
    <2> QED
      BY <1>3, <2>1 DEF AddNodeSubscriptions, Done, Raised
  <1>4. CASE stage = "deploy"
    <2>1. r \in Deploy(x)
      BY <1>4 DEF NodeOp
    <2>2. /\ x.status \in {"BUILDING", "PRISTINE"}
          /\ \E st \in {"RUNNING", "FAILED", "FINISHED"} : r = Done([x EXCEPT !.status = st])
      BY <2>1, DeployCases DEF Raised
    <2> QED
      BY <1>4, <2>2 DEF Done
  <1>5. CASE stage = "trigger"
    <2>1. r \in TriggerDrops(x)
      BY <1>5 DEF NodeOp
    <2> QED
      BY <1>5, <2>1 DEF TriggerDrops, Done, Raised
  <1>6. CASE stage = "cancel"
    <2>1. r \in CancelSession(x)
      BY <1>6 DEF NodeOp
    <2> QED
      BY <1>6, <2>1 DEF CancelSession, Done, Raised
  <1>7. CASE stage = "destroy"
    <2>1. r \in DestroySession(x)
      BY <1>7 DEF NodeOp
    <2> QED
      BY <1>7, <2>1 DEF DestroySession, Done, Raised, Absent
  <1> QED
    BY <1>1, <1>2, <1>3, <1>4, <1>5, <1>6, <1>7 DEF Steps

\* Where nothing that counts changes, the books stay balanced.
LEMMA BalanceSame ==
  ASSUME NEW n, NEW s, Balance(n, s), listed'[s] = listed[s],
         Been(req', "create", n, s) = Been(req, "create", n, s), Been(req', "destroy", n, s) = Been(req, "destroy", n, s),
         Present(local[n][s])' = Present(local[n][s])
  PROVE  Balance(n, s)'
  BY DEF Balance

\* A node answers: it has been created or destroyed there, or neither.
LEMMA DoInHostBooks ==
  ASSUME IInv, Books, clean', NEW c \in Client, NEW k \in Node, DoInHost(c, k),
         NEW n \in Node, NEW s \in SessionId
  PROVE  Balance(n, s)' /\ \A d \in Client : ~req'[d].refused
  <1> DEFINE q == req[c]
             x == local[k][q.s]
  <1>1. req \in [Client -> ReqType] /\ local \in [Node -> [SessionId -> NodeState]]
        /\ listed \in [SessionId -> Nat]
    BY DEF IInv, TypeOK, ReqType, NodeState
  <1>2. q \in ReqType /\ q.s \in SessionId /\ q.stage \in Steps \ {"none"} /\ k \in q.todo
    BY <1>1 DEF DoInHost, ReqType
  <1>3. PICK r \in IF k \in up THEN NodeOp(q.stage, x) ELSE {Raised(x)} :
          /\ local' = [local EXCEPT ![k][q.s] = r.local]
          /\ req' = [req EXCEPT ![c].todo = @ \ {k}, ![c].refused = @ \/ ~r.ok]
          /\ clean' = (clean /\ r.ok)
    BY Zenon DEF DoInHost
  <1>4. clean /\ r.ok /\ UNCHANGED listed
    BY <1>3, Zenon DEF DoInHost
  <1>5. r \in NodeOp(q.stage, x)
    BY <1>3, <1>4 DEF Raised
  <1>6. Balance(n, s) /\ \A d \in Client : ~req[d].refused
    BY <1>4 DEF Books
  <1>7. x \in NodeState
    BY <1>1, <1>2
  <1>8. Present(r.local) = IF q.stage = "create" THEN Present(x) + 1
                           ELSE IF q.stage = "destroy" THEN Present(x) - 1 ELSE Present(x)
    BY <1>2, <1>4, <1>5, <1>7, NodeOpPresent
  <1> DEFINE y == [[q EXCEPT !.todo = q.todo \ {k}] EXCEPT !.refused = q.refused \/ ~r.ok]
  <1>9. req' = [req EXCEPT ![c] = y]
    BY <1>1, <1>3, Zenon
  <1>10. y.stage = q.stage /\ y.s = q.s /\ y.todo = q.todo \ {k} /\ y.refused = (q.refused \/ ~r.ok)
    BY <1>2 DEF ReqType
  <1>11. \A d \in Client : ~req'[d].refused
    BY <1>1, <1>4, <1>6, <1>9, <1>10, Zenon
  <1>12. local'[k][q.s] = r.local /\ \A m \in Node, t \in SessionId : ~(m = k /\ t = q.s) => local'[m][t] = local[m][t]
    BY <1>1, <1>2, <1>3
  <1> HIDE DEF y, q, x
  <1>13. \A op : Been(req', op, n, s) = IF y.stage = op /\ y.s = s /\ n \notin y.todo
                                    THEN Been(req, op, n, s) \cup {c} ELSE Been(req, op, n, s) \ {c}
    BY <1>1, <1>9 DEF Been
  <1>14. \A op : c \in Been(req, op, n, s) <=> q.stage = op /\ q.s = s /\ n \notin q.todo
    BY DEF Been, q
  <1>15. CASE ~(n = k /\ s = q.s)
    <2>1. \A op : Been(req', op, n, s) = Been(req, op, n, s)
      BY <1>10, <1>13, <1>14, <1>15
    <2>2. Balance(n, s)'
      BY <1>4, <1>6, <1>12, <1>15, <2>1, BalanceSame
    <2> QED
      BY <1>11, <2>2
  <1>16. CASE n = k /\ s = q.s
    <2>1. local[n][s] = x /\ local'[n][s] = r.local
      BY <1>12, <1>16 DEF x
    <2>2. \A op : c \notin Been(req, op, n, s)
      BY <1>2, <1>14, <1>16
    <2>3. \A op : Been(req', op, n, s) = IF q.stage = op THEN Been(req, op, n, s) \cup {c} ELSE Been(req, op, n, s)
      BY <1>2, <1>10, <1>13, <1>16, <2>2
    <2>4. \A op : /\ Cardinality(Been(req, op, n, s)) \in Nat
                  /\ Cardinality(Been(req, op, n, s) \cup {c}) = Cardinality(Been(req, op, n, s)) + 1
      <3> TAKE op
      <3>1. IsFiniteSet(Been(req, op, n, s)) /\ Cardinality(Been(req, op, n, s)) \in Nat
        BY BeenFinite
      <3>2. Cardinality(Been(req, op, n, s) \cup {c}) =
              IF c \in Been(req, op, n, s) THEN Cardinality(Been(req, op, n, s)) ELSE Cardinality(Been(req, op, n, s)) + 1
        BY <3>1, FS_AddElement, Zenon
      <3> QED
        BY <2>2, <3>1, <3>2
    <2>5. listed[s] \in Nat /\ Present(x) \in {0, 1}
      BY <1>1 DEF Present
    <2>6. listed[s] + Cardinality(Been(req, "create", n, s)) = Cardinality(Been(req, "destroy", n, s)) + Present(x)
      BY <1>6, <2>1 DEF Balance
    <2>7. listed[s] + Cardinality(Been(req', "create", n, s)) = Cardinality(Been(req', "destroy", n, s)) + Present(r.local)
      <3>1. CASE q.stage = "create"
        BY <1>8, <2>3, <2>4, <2>5, <2>6, <3>1
      <3>2. CASE q.stage = "destroy"
        BY <1>8, <2>3, <2>4, <2>5, <2>6, <3>2
      <3>3. CASE q.stage \notin {"create", "destroy"}
        BY <1>8, <2>3, <2>6, <3>3
      <3> QED
        BY <3>1, <3>2, <3>3
    <2>8. Balance(n, s)'
      BY <1>4, <2>1, <2>7 DEF Balance
    <2> QED
      BY <1>11, <2>8
  <1> QED
    BY <1>15, <1>16

\* A request goes on to another stage, begins or ends, and neither creates nor
\* destroys: the books stay as they are.
LEMMA OtherBooks ==
  ASSUME IInv, Books, clean, UNCHANGED <<listed, local>>, NEW c \in Client, NEW y \in ReqType,
         req' = [req EXCEPT ![c] = y], ~y.refused, y.stage \in {"create", "destroy"} => y.todo = Node,
         req[c].stage \notin {"create", "destroy"}
  PROVE  Books'
  <1>1. req \in [Client -> ReqType]
    BY DEF IInv, TypeOK, ReqType
  <1>2. \A d \in Client : ~req'[d].refused
    BY <1>1 DEF Books
  <1>3. ASSUME NEW n \in Node, NEW s \in SessionId PROVE Balance(n, s)'
    <2>1. Balance(n, s)
      BY DEF Books
    <2>2. \A o \in {"create", "destroy"} : ~(req[c].stage = o) /\ (y.stage = o => n \in y.todo)
      OBVIOUS
    <2>3. \A o \in {"create", "destroy"} : Been(req', o, n, s) = Been(req, o, n, s)
      BY <1>1, <2>2 DEF Been
    <2> QED
      BY <2>1, <2>3, BalanceSame, Zenon
  <1> QED
    BY <1>2, <1>3 DEF Books

\* A creation or destruction that has been everywhere returns.
LEMMA LastBeen ==
  ASSUME IInv, NEW c \in Client, NEW op \in {"create", "destroy"}, Replicated(c, op), Return(c),
         NEW n \in Node, NEW s \in SessionId
  PROVE  /\ req[c].s = s => Cardinality(Been(req', op, n, s)) = Cardinality(Been(req, op, n, s)) - 1
         /\ req[c].s # s => Been(req', op, n, s) = Been(req, op, n, s)
         /\ \A o \in {"create", "destroy"} : o # op => Been(req', o, n, s) = Been(req, o, n, s)
  <1>1. req \in [Client -> ReqType] /\ req' = [req EXCEPT ![c] = NoRequest]
    BY DEF IInv, TypeOK, ReqType, Return
  <1>2. NoRequest.stage = "none"
    BY NoRequestType
  <1>3. req[c].stage = op /\ req[c].todo = {}
    BY DEF Replicated
  <1>4. \A o \in {"create", "destroy"} : Been(req', o, n, s) = Been(req, o, n, s) \ {c}
    BY <1>1, <1>2 DEF Been
  <1>5. \A o \in {"create", "destroy"} : c \in Been(req, o, n, s) <=> o = op /\ req[c].s = s
    BY <1>3 DEF Been
  <1>6. Cardinality(Been(req, op, n, s) \ {c}) =
          IF c \in Been(req, op, n, s) THEN Cardinality(Been(req, op, n, s)) - 1
                                       ELSE Cardinality(Been(req, op, n, s))
    BY BeenFinite, FS_RemoveElement, Zenon
  <1> QED
    BY <1>4, <1>5, <1>6, Zenon

\* The list is changed: what has been done on all nodes is now in the list.
LEMMA ListBooks ==
  ASSUME IInv, Books, clean', NEW c \in Client, Created(c) \/ Destroyed(c)
  PROVE  Books'
  <1> DEFINE t == req[c].s
  <1>1. /\ req \in [Client -> ReqType] /\ listed \in [SessionId -> Nat]
        /\ local \in [Node -> [SessionId -> NodeState]]
    BY DEF IInv, TypeOK, ReqType, NodeState
  <1>2. t \in SessionId
    BY <1>1 DEF ReqType
  <1>3. /\ Return(c) /\ clean /\ UNCHANGED local
        /\ \/ Replicated(c, "create") /\ listed' = [listed EXCEPT ![t] = @ + 1]
           \/ Replicated(c, "destroy") /\ listed[t] > 0 /\ listed' = [listed EXCEPT ![t] = @ - 1]
    <2>1. CASE Created(c)
      BY <2>1 DEF Created, history
    <2>2. CASE Destroyed(c)
      BY <1>1, <1>2, <2>2, Zenon DEF Destroyed
    <2> QED
      BY <2>1, <2>2
  <1>4. \A d \in Client : ~req'[d].refused
    <2>1. ~NoRequest.refused
      BY BeginType, IslandAssumption DEF NoRequest, Begin
    <2> QED
      BY <1>1, <1>3, <2>1 DEF Return, Books
  <1> HIDE DEF t
  <1>5. ASSUME NEW n \in Node, NEW s \in SessionId PROVE Balance(n, s)'
    <2>1. listed[s] + Cardinality(Been(req, "create", n, s))
            = Cardinality(Been(req, "destroy", n, s)) + Present(local[n][s])
      BY <1>3 DEF Books, Balance
    <2>2. /\ Cardinality(Been(req, "create", n, s)) \in Nat
          /\ Cardinality(Been(req, "destroy", n, s)) \in Nat
          /\ listed[s] \in Nat /\ Present(local[n][s]) \in {0, 1}
      BY <1>1, BeenFinite DEF Present
    <2>3. CASE Replicated(c, "create") /\ listed' = [listed EXCEPT ![t] = @ + 1]
      <3>1. /\ t = s => Cardinality(Been(req', "create", n, s)) = Cardinality(Been(req, "create", n, s)) - 1
            /\ t # s => Been(req', "create", n, s) = Been(req, "create", n, s)
            /\ Been(req', "destroy", n, s) = Been(req, "destroy", n, s)
        BY <1>3, <2>3, LastBeen DEF t
      <3>2. listed'[s] = IF t = s THEN listed[s] + 1 ELSE listed[s]
        BY <1>1, <2>3
      <3>3. listed'[s] + Cardinality(Been(req', "create", n, s))
              = Cardinality(Been(req', "destroy", n, s)) + Present(local[n][s])
        BY <2>1, <2>2, <3>1, <3>2
      <3> QED
        BY <1>3, <3>3 DEF Balance
    <2>4. CASE /\ Replicated(c, "destroy") /\ listed[t] > 0
               /\ listed' = [listed EXCEPT ![t] = @ - 1]
      <3>1. /\ t = s => Cardinality(Been(req', "destroy", n, s)) = Cardinality(Been(req, "destroy", n, s)) - 1
            /\ t # s => Been(req', "destroy", n, s) = Been(req, "destroy", n, s)
            /\ Been(req', "create", n, s) = Been(req, "create", n, s)
        BY <1>3, <2>4, LastBeen DEF t
      <3>2. listed'[s] = IF t = s THEN listed[s] - 1 ELSE listed[s]
        BY <1>1, <2>4
      <3>3. listed'[s] + Cardinality(Been(req', "create", n, s))
              = Cardinality(Been(req', "destroy", n, s)) + Present(local[n][s])
        BY <2>1, <2>2, <3>1, <3>2
      <3> QED
        BY <1>3, <3>3 DEF Balance
    <2> QED
      BY <1>3, <2>3, <2>4
  <1> QED
    BY <1>4, <1>5 DEF Books

\* The request a handler starts with: for a creation or a destruction, all
\* nodes are still to be called.
LEMMA RequestBegins ==
  ASSUME NEW c \in Client, NEW op \in Ops, NEW s \in SessionId, IInv, Request(c, op, s)
  PROVE  \E y \in ReqType : /\ req' = [req EXCEPT ![c] = y] /\ ~y.refused
                            /\ y.stage \in {"create", "destroy"} => y.todo = Node
  <1> DEFINE y == IF op = "append" THEN Begin("append", s, Parts)
                  ELSE IF op = "deploy" /\ s \in known /\ Related # {}
                       THEN Begin("subscribe", s, Related)
                  ELSE Begin(op, s, Node)
  <1>1. req' = [req EXCEPT ![c] = y]
    BY DEF Request
  <1>2. y \in ReqType
    BY RequestTypes
  <1>3. ~y.refused /\ (y.stage \in {"create", "destroy"} => y.todo = Node)
    BY DEF Begin
  <1> QED
    BY <1>1, <1>2, <1>3, Zenon

\* Each action keeps the books.
LEMMA BooksStep ==
  ASSUME IInv, Books, [Next]_vars
  PROVE  Books'
  <1>1. SUFFICES ASSUME clean' PROVE Books'
    BY DEF Books
  <1>2. /\ req \in [Client -> ReqType] /\ local \in [Node -> [SessionId -> NodeState]]
        /\ listed \in [SessionId -> Nat] /\ NoRequest \in ReqType
        /\ NoRequest.stage = "none" /\ ~NoRequest.refused
    <2>1. ~NoRequest.refused
      BY DEF NoRequest, Begin
    <2> QED
      BY <2>1, NoRequestType DEF IInv, TypeOK, ReqType, NodeState
  <1>3. ASSUME NEW c \in Client, NEW op \in Ops, NEW s \in SessionId, Request(c, op, s) PROVE Books'
    <2>1. PICK y \in ReqType : /\ req' = [req EXCEPT ![c] = y] /\ ~y.refused
                               /\ y.stage \in {"create", "destroy"} => y.todo = Node
      BY <1>3, RequestBegins
    <2>2. clean /\ UNCHANGED <<listed, local>> /\ req[c].stage \notin {"create", "destroy"}
      BY <1>1, <1>3 DEF Request
    <2> QED
      BY <2>1, <2>2, OtherBooks, Zenon
  <1>4. ASSUME NEW c \in Client, Refuse(c) PROVE Books'
    BY <1>1, <1>4 DEF Refuse, Books, history
  <1>5. ASSUME NEW c \in Client, Created(c) \/ Destroyed(c) PROVE Books'
    BY <1>1, <1>5, ListBooks
  <1>6. ASSUME NEW c \in Client, Subscribed(c) \/ Deployed(c) \/ Answer(c) PROVE Books'
    <2> DEFINE t == req[c].s
    <2>1. /\ clean /\ UNCHANGED <<listed, local>> /\ req[c].stage \notin {"create", "destroy"}
          /\ \/ req' = [req EXCEPT ![c] = NoRequest]
             \/ req' = [req EXCEPT ![c] = Begin("deploy", t, Node)]
             \/ req' = [req EXCEPT ![c] = Begin("trigger", t, Roots)]
      BY <1>1, <1>2, <1>6, Zenon DEF Subscribed, Deployed, Answer, Replicated, Return, history
    <2>2. t \in SessionId
      BY <1>2 DEF ReqType
    <2>3. /\ Begin("deploy", t, Node) \in ReqType /\ Begin("trigger", t, Roots) \in ReqType
          /\ \A st, ns : Begin(st, t, ns).stage = st /\ ~Begin(st, t, ns).refused
      BY <2>2, DeployTypes DEF Begin
    <2> HIDE DEF t
    <2>4. PICK y \in ReqType : /\ req' = [req EXCEPT ![c] = y] /\ ~y.refused
                               /\ y.stage \notin {"create", "destroy"}
      BY <1>2, <2>1, <2>3
    <2> QED
      BY <2>1, <2>4, OtherBooks, Zenon
  <1>7. ASSUME NEW c \in Client, NEW n \in Node, DoInHost(c, n) PROVE Books'
    <2>1. \A m \in Node, s \in SessionId : Balance(m, s)' /\ \A d \in Client : ~req'[d].refused
      BY <1>1, <1>7, DoInHostBooks
    <2>2. \A d \in Client : ~req'[d].refused
      BY <2>1, IslandAssumption
    <2> QED
      BY <2>1, <2>2 DEF Books
  <1>8. ASSUME NEW n \in Node, NEW s \in SessionId, Progress(n, s) PROVE Books'
    <2>1. PICK st \in {"FINISHED", "FAILED"} : local' = [local EXCEPT ![n][s].status = st]
      BY <1>8, Zenon DEF Progress
    <2>2. local[n][s].status = "RUNNING" /\ UNCHANGED <<listed, req, clean>>
      BY <1>8 DEF Progress, history
    <2>3. \A m \in Node, u \in SessionId : Present(local'[m][u]) = Present(local[m][u])
      BY <1>2, <2>1, <2>2 DEF Present, NodeState
    <2> QED
      BY <1>1, <2>2, <2>3 DEF Books, Balance
  <1>9. ASSUME NEW n \in Node, GoDown(n) PROVE Books'
    BY <1>1, <1>9 DEF GoDown
  <1>10. ASSUME UNCHANGED <<listed, req, local, clean>> PROVE Books'
    BY <1>10 DEF Books, Balance
  <1>11. ASSUME NEW n \in Node, ComeBack(n) PROVE Books'
    BY <1>10, <1>11 DEF ComeBack, history
  <1>12. CASE UNCHANGED vars
    BY <1>10, <1>12 DEF vars, history
  <1> QED
    BY <1>3, <1>4, <1>5, <1>6, <1>7, <1>8, <1>9, <1>11, <1>12 DEF Next, Serve

\* Before any request nothing is listed and no node has a session.
LEMMA BooksInit == Init => Books
  <1> SUFFICES ASSUME Init PROVE Books
    OBVIOUS
  <1>1. \A c \in Client : req[c].stage = "none" /\ ~req[c].refused
    BY NoRequestType DEF Init, NoRequest, Begin
  <1>2. ASSUME NEW n \in Node, NEW s \in SessionId PROVE Balance(n, s)
    <2>1. Been(req, "create", n, s) = {} /\ Been(req, "destroy", n, s) = {}
      BY <1>1 DEF Been
    <2>2. listed[s] = 0 /\ Present(local[n][s]) = 0
      BY DEF Init, Absent, Present
    <2> QED
      BY <2>1, <2>2, FS_EmptySet DEF Balance
  <1> QED
    BY <1>1, <1>2 DEF Books

\* Between requests nothing is on its way, and the books are the list.
LEMMA BooksAreList == IInv /\ Books => BooksBalance
  <1> SUFFICES ASSUME IInv, Books, clean, Quiet, NEW s \in SessionId
               PROVE  \/ listed[s] = 1 /\ (\A n \in Node : local[n][s].status # "none")
                      \/ listed[s] = 0 /\ (\A n \in Node : local[n][s].status = "none")
    BY DEF BooksBalance
  <1>1. ASSUME NEW n \in Node PROVE listed[s] = Present(local[n][s])
    <2>1. Been(req, "create", n, s) = {} /\ Been(req, "destroy", n, s) = {}
      BY DEF Quiet, Been
    <2>2. Cardinality(Been(req, "create", n, s)) = 0 /\ Cardinality(Been(req, "destroy", n, s)) = 0
      BY <2>1, FS_EmptySet
    <2>3. listed[s] \in Nat /\ Present(local[n][s]) \in Nat
      BY DEF IInv, TypeOK, Present
    <2> QED
      BY <2>2, <2>3 DEF Books, Balance
  <1>2. PICK m \in Node : TRUE
    BY IslandAssumption
  <1> QED
    BY <1>1, <1>2 DEF Present

\* As long as no request failed, the list of sessions of the composite manager
\* agrees with its nodes whenever no request is under way: createSession and
\* destroySession change the list after all nodes have answered, and requests
\* of any number of clients that create and destroy one session at the same
\* time leave no node without what is listed, and nothing unlisted on a node.
THEOREM BooksAlwaysBalance == Spec => []BooksBalance
  <1>1. IInv /\ Books /\ [Next]_vars => Books'
    BY BooksStep
  <1> QED
    BY <1>1, BooksInit, BooksAreList, Inductive, PTL DEF Spec
=============================================================================
