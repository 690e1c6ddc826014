------------------------ MODULE EventExchangeProofs -------------------------
(***************************************************************************)
(* Theorems about EventExchange, for every set of nodes, sessions and      *)
(* drops, and every number of faults.                                      *)
(***************************************************************************)
EXTENDS EventExchange, TLAPS

-----------------------------------------------------------------------------
(***************************************************************************)
(* Types.  The variables fall into four groups.                            *)
(***************************************************************************)
DeployType ==
  /\ stage \in [SessionId -> Stages] /\ todo \in [SessionId -> SUBSET Node]
  /\ refused \in [SessionId -> BOOLEAN]
  /\ status \in [Node -> [SessionId -> Statuses]]
  /\ triggered \in [Node -> SUBSET SessionId]

CallerType ==
  /\ subscribed \in [Node -> SUBSET SessionId] /\ answered \in [Node -> SUBSET SessionId]
  /\ asking \in [Node -> [SessionId -> Seq(Node)]]
  /\ subscriptions \in [Node -> Seq(Node \X SessionId)]
  /\ pending \in [Node -> SUBSET (Node \X SessionId)]
  /\ subEndpoints \in [Node -> SUBSET Node] /\ monitor \in [Node -> Seq(Node)]
  /\ link \in [Node -> [Node -> Linked \cup {"none", "connecting"}]]

EventType ==
  /\ eventsOut \in [Node -> Seq(Event)] /\ eventsIn \in [Node -> Seq(Event)]
  /\ wire \in [Node -> [Node -> Seq(Event)]]
  /\ sent \in [Node -> Seq(Event)] /\ got \in [Node -> Seq(Event)]

DropType ==
  /\ missed \in BOOLEAN /\ running \in [Node -> BOOLEAN] /\ deaf \subseteq Node
  /\ heard \in [SessionId -> SUBSET Rel] /\ ended \in [SessionId -> SUBSET Drop]
  /\ faults \in 0..MaxFaults

\* The groups make up the type invariant.
LEMMA TypeGroups ==
  /\ TypeOK <=> DeployType /\ CallerType /\ EventType /\ DropType
  /\ TypeOK' <=> DeployType' /\ CallerType' /\ EventType' /\ DropType'
  BY DEF TypeOK, DeployType, CallerType, EventType, DropType

\* All queues are empty at first.
LEMMA InitType == Init => TypeOK
  <1> SUFFICES ASSUME Init PROVE TypeOK
    OBVIOUS
  <1> USE DEF Init
  <1>1. DeployType
    BY DEF DeployType, Stages, Statuses
  <1>2. CallerType
    BY DEF CallerType
  <1>3. EventType
    BY DEF EventType
  <1>4. DropType
    <2>1. faults \in 0..MaxFaults
      BY ExchangeAssumption
    <2> QED
      BY <2>1, Zenon DEF DropType
  <1> QED
    BY <1>1, <1>2, <1>3, <1>4, TypeGroups

\* Every step is one of the steps of the actions.
LEMMA StepKinds ==
  ASSUME [Next]_vars
  PROVE  \/ UNCHANGED vars
         \/ \E s \in SessionId : DeploySession(s) \/ NextStage(s)
         \/ \E s \in SessionId : \E v \in Drop : EndDrop(s, v)
         \/ \E n \in Node : \E s \in SessionId :
              \/ Unreachable(n, s) \/ AddNodeSubscriptions(n, s) \/ Subscribed(n, s)
              \/ TimedOut(n, s) \/ Deploy(n, s) \/ Deployed(n, s) \/ TriggerDrops(n, s)
              \/ DestroySession(n, s)
         \/ \E n \in Node :
              TakeSubscription(n) \/ TakeMonitor(n) \/ Publish(n) \/ Deliver(n) \/ Shutdown(n)
         \/ \E n \in Node : \E m \in Node : Connect(n, m) \/ TakeEvent(n, m) \/ LoseLink(n, m)
  BY Zenon DEF Next, Work

\* Three actions are faults; no other stops a node.
LEMMA FaultSteps ==
  ASSUME [Next]_vars
  PROVE  \/ UNCHANGED <<running, faults>>
         \/ \E n \in Node : Shutdown(n)
         \/ \E n \in Node : \E m \in Node : LoseLink(n, m)
         \/ \E n \in Node : \E s \in SessionId : DestroySession(n, s)
  <1>1. UNCHANGED vars => UNCHANGED <<running, faults>>
    BY DEF vars
  <1>2. ASSUME NEW s \in SessionId, DeploySession(s) \/ NextStage(s) \/ \E v \in Drop : EndDrop(s, v)
        PROVE  UNCHANGED <<running, faults>>
    BY <1>2, Zenon DEF NextStage, DeploySession, EndDrop
  <1>3. ASSUME NEW n \in Node, NEW s \in SessionId,
               \/ Unreachable(n, s) \/ AddNodeSubscriptions(n, s) \/ Subscribed(n, s)
               \/ TimedOut(n, s) \/ Deploy(n, s) \/ Deployed(n, s) \/ TriggerDrops(n, s)
        PROVE  UNCHANGED <<running, faults>>
    BY <1>3, Zenon
    DEF Unreachable, AddNodeSubscriptions, Subscribed, TimedOut, Deploy, Deployed, TriggerDrops
  <1>4. ASSUME NEW n \in Node, TakeSubscription(n) \/ TakeMonitor(n) \/ Publish(n) \/ Deliver(n)
        PROVE  UNCHANGED <<running, faults>>
    BY <1>4, Zenon DEF TakeSubscription, TakeMonitor, Publish, Deliver
  <1>5. ASSUME NEW n \in Node, NEW m \in Node, Connect(n, m) \/ TakeEvent(n, m)
        PROVE  UNCHANGED <<running, faults>>
    BY <1>5, Zenon DEF Connect, TakeEvent
  <1> QED
    BY <1>1, <1>2, <1>3, <1>4, <1>5, StepKinds, Zenon

\* Entering a stage of a deployment keeps its types.
LEMMA EnterType ==
  ASSUME DeployType, NEW s \in SessionId, NEW st \in Stages, Enter(s, st)
  PROVE  stage' \in [SessionId -> Stages] /\ todo' \in [SessionId -> SUBSET Node]
  <1>1. Wired \subseteq Node /\ {Home[u] : u \in {v \in Drop : In(v) = {}}} \subseteq Node
    BY ExchangeAssumption DEF Wired
  <1> QED
    BY <1>1 DEF Enter, DeployType

\* So does the answer of a node.
LEMMA AnswerType ==
  ASSUME DeployType, NEW s \in SessionId, NEW n \in Node, NEW ok \in BOOLEAN, Answer(n, s, ok)
  PROVE  /\ stage' \in [SessionId -> Stages] /\ todo' \in [SessionId -> SUBSET Node]
         /\ refused' \in [SessionId -> BOOLEAN]
  BY DEF Answer, DeployType

\* The stages, statuses and answers of deployments keep their types.
LEMMA DeployTypeStep ==
  ASSUME TypeOK, [Next]_vars
  PROVE  DeployType'
  <1>0. DeployType
    BY TypeGroups
  <1>1. ASSUME NEW s \in SessionId, DeploySession(s) \/ NextStage(s)
        PROVE  DeployType'
    <2>1. PICK st \in Stages : Enter(s, st)
      BY <1>1 DEF DeploySession, NextStage, After, Stages
    <2>2. UNCHANGED <<refused, status, triggered>>
      BY <1>1 DEF DeploySession, NextStage
    <2> QED
      BY <1>0, <2>1, <2>2, EnterType DEF DeployType
  <1>2. ASSUME NEW n \in Node, NEW s \in SessionId,
               Unreachable(n, s) \/ Subscribed(n, s) \/ TimedOut(n, s)
        PROVE  DeployType'
    <2>1. UNCHANGED <<status, triggered>>
      BY <1>2, Zenon DEF Unreachable, Subscribed, TimedOut
    <2>2. UNCHANGED <<stage, todo, refused>> \/ \E ok \in BOOLEAN : Answer(n, s, ok)
      BY <1>2, Zenon DEF Unreachable, Subscribed, TimedOut
    <2> QED
      BY <1>0, <2>1, <2>2, AnswerType DEF DeployType
  <1>3. ASSUME NEW n \in Node, NEW s \in SessionId,
               Deploy(n, s) \/ Deployed(n, s) \/ TriggerDrops(n, s) \/ DestroySession(n, s)
        PROVE  DeployType'
    <2>1. UNCHANGED <<stage, todo, refused>> \/ \E ok \in BOOLEAN : Answer(n, s, ok)
      BY <1>3, Zenon DEF Deploy, Deployed, TriggerDrops, DestroySession
    <2>2. /\ UNCHANGED status \/ \E st \in Statuses : status' = [status EXCEPT ![n][s] = st]
          /\ UNCHANGED triggered \/ triggered' = [triggered EXCEPT ![n] = @ \cup {s}]
      <3>1. CASE Deploy(n, s) \/ Deployed(n, s) \/ DestroySession(n, s)
        BY <3>1, Zenon DEF Statuses, Deploy, Deployed, DestroySession
      <3>2. CASE TriggerDrops(n, s)
        <4>1. triggered[n] \in SUBSET SessionId /\ triggered = [triggered EXCEPT ![n] = triggered[n]]
          BY <1>0 DEF DeployType
        <4> QED
          BY <3>2, <4>1, Zenon DEF TriggerDrops
      <3> QED
        BY <1>3, <3>1, <3>2
    <2>3. status' \in [Node -> [SessionId -> Statuses]]
      <3>1. CASE UNCHANGED status
        BY <1>0, <3>1 DEF DeployType
      <3>2. ASSUME NEW st \in Statuses, status' = [status EXCEPT ![n][s] = st]
            PROVE  status' \in [Node -> [SessionId -> Statuses]]
        BY <1>0, <3>2 DEF DeployType
      <3> QED
        BY <2>2, <3>1, <3>2
    <2>4. triggered' \in [Node -> SUBSET SessionId]
      BY <1>0, <2>2 DEF DeployType
    <2> QED
      BY <1>0, <2>1, <2>3, <2>4, AnswerType DEF DeployType
  <1>4. CASE UNCHANGED deployVars
    BY <1>0, <1>4 DEF DeployType, deployVars
  <1> QED
    BY <1>1, <1>2, <1>3, <1>4, Zenon
    DEF Next, Work, vars, AddNodeSubscriptions, EndDrop, TakeSubscription, TakeMonitor,
        Publish, Deliver, Connect, TakeEvent, Shutdown, LoseLink

\* Queueing the next subscription keeps the types of the queues.
LEMMA SubscribeType ==
  ASSUME CallerType, NEW n \in Node, NEW s \in SessionId, NEW peers \in Seq(Node),
         Subscribe(n, s, peers)
  PROVE  /\ asking' \in [Node -> [SessionId -> Seq(Node)]]
         /\ subscriptions' \in [Node -> Seq(Node \X SessionId)]
  <1>1. asking' \in [Node -> [SessionId -> Seq(Node)]]
    BY DEF Subscribe, CallerType
  <1>2. peers # <<>> => Head(peers) \in Node
    OBVIOUS
  <1>3. peers # <<>> => Append(subscriptions[n], <<Head(peers), s>>) \in Seq(Node \X SessionId)
    BY <1>2 DEF CallerType
  <1> QED
    BY <1>1, <1>3, Zenon DEF Subscribe, CallerType

\* An order of a set lists each of its elements once.
LEMMA OrdersProperties ==
  ASSUME NEW S, Cardinality(S) \in Nat, NEW s \in Orders(S)
  PROVE  /\ s \in Seq(S) /\ Range(s) = S
         /\ \A i, j \in 1..Len(s) : i # j => s[i] # s[j]
  <1> DEFINE k == Cardinality(S)
  <1>1. /\ s \in [1..k -> S]
        /\ \A i, j \in 1..k : i # j => s[i] # s[j]
        /\ \A x \in S : \E i \in 1..k : s[i] = x
    BY DEF Orders, Bijection, Injection, IsInjective, Surjection
  <1> HIDE DEF k
  <1>2. k \in Nat
    BY DEF k
  <1>3. s \in Seq(S) /\ Len(s) = k
    BY <1>1, <1>2
  <1>4. Range(s) = S
    BY <1>1 DEF Range
  <1> QED
    BY <1>1, <1>3, <1>4

\* What a caller subscribes to are its peers, in some order.
LEMMA PeersOrder ==
  ASSUME NEW n \in Node, NEW peers \in Orders(Peers[n])
  PROVE  /\ peers \in Seq(Node) /\ Range(peers) = Peers[n]
         /\ \A i, j \in 1..Len(peers) : i # j => peers[i] # peers[j]
  <1>1. Peers[n] \subseteq Node
    BY DEF Peers
  <1>2. Cardinality(Peers[n]) \in Nat
    BY <1>1, ExchangeAssumption
  <1>3. peers \in Seq(Peers[n]) /\ Range(peers) = Peers[n]
        /\ \A i, j \in 1..Len(peers) : i # j => peers[i] # peers[j]
    BY <1>2, OrdersProperties
  <1>4. peers \in Seq(Node)
    BY <1>1, <1>3
  <1> QED
    BY <1>3, <1>4

\* The steps of subscriptions: all others leave callers, requests and sockets as
\* they are.
LEMMA CallerCases ==
  ASSUME [Next]_vars
  PROVE  \/ UNCHANGED <<callerVars, recvVars, link>>
         \/ \E n \in Node : \E s \in SessionId :
              AddNodeSubscriptions(n, s) \/ Subscribed(n, s) \/ TimedOut(n, s)
         \/ \E n \in Node : TakeSubscription(n) \/ TakeMonitor(n) \/ Publish(n)
         \/ \E n \in Node : \E m \in Node : Connect(n, m) \/ LoseLink(n, m)
  <1>1. UNCHANGED vars => UNCHANGED <<callerVars, recvVars, link>>
    BY DEF vars
  <1>2. ASSUME NEW s \in SessionId, DeploySession(s) \/ NextStage(s)
         PROVE  UNCHANGED <<callerVars, recvVars, link>>
    BY <1>2, Zenon DEF NextStage, DeploySession
  <1>3. ASSUME NEW s \in SessionId, NEW v \in Drop, EndDrop(s, v)
         PROVE  UNCHANGED <<callerVars, recvVars, link>>
    BY <1>3, Zenon DEF EndDrop
  <1>4. ASSUME NEW n \in Node, NEW s \in SessionId,
                \/ Unreachable(n, s) \/ Deploy(n, s) \/ Deployed(n, s) \/ TriggerDrops(n, s)
                \/ DestroySession(n, s)
         PROVE  UNCHANGED <<callerVars, recvVars, link>>
    BY <1>4, Zenon DEF Unreachable, Deploy, Deployed, TriggerDrops, DestroySession
  <1>5. ASSUME NEW n \in Node, Deliver(n) \/ Shutdown(n)
         PROVE  UNCHANGED <<callerVars, recvVars, link>>
    BY <1>5, Zenon DEF Deliver, Shutdown
  <1>6. ASSUME NEW n \in Node, NEW m \in Node, TakeEvent(n, m)
         PROVE  UNCHANGED <<callerVars, recvVars, link>>
    BY <1>6, Zenon DEF TakeEvent
  <1> QED
    BY <1>1, <1>2, <1>3, <1>4, <1>5, <1>6, StepKinds, Zenon

\* The subscriptions, their callers and the sockets keep their types.
LEMMA CallerTypeStep ==
  ASSUME TypeOK, [Next]_vars
  PROVE  CallerType'
  <1>0. CallerType
    BY TypeGroups
  <1>1. ASSUME NEW n \in Node, NEW s \in SessionId, AddNodeSubscriptions(n, s)
        PROVE  CallerType'
    <2>1. PICK peers \in Orders(Peers[n]) : Subscribe(n, s, peers)
      BY <1>1 DEF AddNodeSubscriptions
    <2>2. peers \in Seq(Node)
      BY PeersOrder
    <2>3. subscribed' \in [Node -> SUBSET SessionId]
      BY <1>0, <1>1 DEF AddNodeSubscriptions, CallerType
    <2>4. UNCHANGED <<answered, pending, subEndpoints, monitor, link>>
      BY <1>1 DEF AddNodeSubscriptions
    <2>5. /\ asking' \in [Node -> [SessionId -> Seq(Node)]]
          /\ subscriptions' \in [Node -> Seq(Node \X SessionId)]
      BY <1>0, <2>1, <2>2, SubscribeType
    <2> QED
      BY <1>0, <2>3, <2>4, <2>5 DEF CallerType
  <1>2. ASSUME NEW n \in Node, NEW s \in SessionId, Subscribed(n, s)
        PROVE  CallerType'
    <2>1. Subscribe(n, s, Tail(asking[n][s])) /\ asking[n][s] # <<>>
      BY <1>2 DEF Subscribed
    <2>2. Tail(asking[n][s]) \in Seq(Node)
      BY <1>0, <2>1 DEF CallerType
    <2>3. answered' \in [Node -> SUBSET SessionId]
      BY <1>0, <1>2 DEF Subscribed, CallerType
    <2>4. UNCHANGED <<subscribed, pending, subEndpoints, monitor, link>>
      BY <1>2 DEF Subscribed
    <2>5. /\ asking' \in [Node -> [SessionId -> Seq(Node)]]
          /\ subscriptions' \in [Node -> Seq(Node \X SessionId)]
      BY <1>0, <2>1, <2>2, SubscribeType, Zenon
    <2> QED
      BY <1>0, <2>3, <2>4, <2>5 DEF CallerType
  <1>3. ASSUME NEW n \in Node, NEW s \in SessionId, TimedOut(n, s)
        PROVE  CallerType'
    <2>1. asking' \in [Node -> [SessionId -> Seq(Node)]]
      BY <1>0, <1>3 DEF TimedOut, CallerType
    <2> QED
      BY <1>0, <1>3, <2>1, Zenon DEF TimedOut, CallerType, recvVars
  <1>4. ASSUME NEW n \in Node, TakeSubscription(n)
        PROVE  CallerType'
    <2> DEFINE m == Head(subscriptions[n])[1]
               s == Head(subscriptions[n])[2]
    <2>1. subscriptions[n] \in Seq(Node \X SessionId) /\ subscriptions[n] # <<>>
      BY <1>0, <1>4 DEF TakeSubscription, CallerType
    <2>2. Head(subscriptions[n]) \in Node \X SessionId
      BY <2>1
    <2>3. m \in Node /\ s \in SessionId
      BY <2>2
    <2>4. subscriptions' \in [Node -> Seq(Node \X SessionId)]
      BY <1>0, <1>4, <2>1 DEF TakeSubscription, CallerType
    <2>5. /\ UNCHANGED <<subscribed, asking, subEndpoints, monitor>>
          /\ \/ /\ answered' = [answered EXCEPT ![n] = @ \cup {s}]
                /\ UNCHANGED <<pending, link>>
             \/ /\ pending' = [pending EXCEPT ![n] = {p \in @ : p[1] # m} \cup {<<m, s>>}]
                /\ link' = [link EXCEPT ![n][m] = IF @ = "none" THEN "connecting" ELSE @]
                /\ UNCHANGED answered
      BY <1>4 DEF TakeSubscription
    <2> HIDE DEF m, s
    <2>6. CASE answered' = [answered EXCEPT ![n] = @ \cup {s}] /\ UNCHANGED <<pending, link>>
      <3>1. answered' \in [Node -> SUBSET SessionId]
        BY <1>0, <2>3, <2>6 DEF CallerType
      <3> QED
        BY <1>0, <2>4, <2>5, <2>6, <3>1 DEF CallerType
    <2>7. CASE /\ pending' = [pending EXCEPT ![n] = {p \in @ : p[1] # m} \cup {<<m, s>>}]
               /\ link' = [link EXCEPT ![n][m] = IF @ = "none" THEN "connecting" ELSE @]
               /\ UNCHANGED answered
      <3>1. {p \in pending[n] : p[1] # m} \cup {<<m, s>>} \in SUBSET (Node \X SessionId)
        BY <1>0, <2>3 DEF CallerType
      <3>2. pending' \in [Node -> SUBSET (Node \X SessionId)]
        BY <1>0, <2>7, <3>1 DEF CallerType
      <3>3. link' \in [Node -> [Node -> Linked \cup {"none", "connecting"}]]
        BY <1>0, <2>3, <2>7 DEF CallerType
      <3> QED
        BY <1>0, <2>4, <2>5, <2>7, <3>2, <3>3, Zenon DEF CallerType
    <2> QED
      BY <2>5, <2>6, <2>7
  <1>5. ASSUME NEW n \in Node, TakeMonitor(n)
        PROVE  CallerType'
    <2> DEFINE m == Head(monitor[n])
    <2>1. monitor[n] \in Seq(Node) /\ monitor[n] # <<>>
      BY <1>0, <1>5 DEF TakeMonitor, CallerType
    <2>2. m \in Node /\ Tail(monitor[n]) \in Seq(Node)
      BY <2>1
    <2>3. subEndpoints' \in [Node -> SUBSET Node]
      BY <1>0, <1>5, <2>2 DEF TakeMonitor, CallerType
    <2>4. monitor' \in [Node -> Seq(Node)]
      BY <1>0, <1>5, <2>2 DEF TakeMonitor, CallerType
    <2>5. pending' \in [Node -> SUBSET (Node \X SessionId)]
      BY <1>0, <1>5 DEF TakeMonitor, CallerType
    <2>6. {p[2] : p \in {q \in pending[n] : q[1] = m}} \subseteq SessionId
      BY <1>0 DEF CallerType
    <2>7. answered' \in [Node -> SUBSET SessionId]
      BY <1>0, <1>5, <2>6 DEF TakeMonitor, CallerType
    <2> QED
      BY <1>0, <1>5, <2>3, <2>4, <2>5, <2>7, Zenon DEF TakeMonitor, CallerType
  <1>6. ASSUME NEW n \in Node, NEW m \in Node, Connect(n, m)
        PROVE  CallerType'
    <2>1. link' \in [Node -> [Node -> Linked \cup {"none", "connecting"}]]
      BY <1>0, <1>6 DEF Connect, CallerType, Linked
    <2>2. monitor' \in [Node -> Seq(Node)]
      BY <1>0, <1>6 DEF Connect, CallerType
    <2> QED
      BY <1>0, <1>6, <2>1, <2>2 DEF Connect, CallerType, callerVars
  <1>7. ASSUME NEW n \in Node, Publish(n)
        PROVE  CallerType'
    <2>1. PICK late : link' = [m \in Node |-> [link[m] EXCEPT ![n] =
                                 IF @ = "connected" /\ m \notin late THEN "live" ELSE @]]
      BY <1>7, Zenon DEF Publish
    <2>2. link' \in [Node -> [Node -> Linked \cup {"none", "connecting"}]]
      BY <1>0, <2>1 DEF CallerType, Linked
    <2> QED
      BY <1>0, <1>7, <2>2 DEF Publish, CallerType, callerVars, recvVars
  <1>8. ASSUME NEW n \in Node, NEW m \in Node, LoseLink(n, m)
        PROVE  CallerType'
    <2>1. link' \in [Node -> [Node -> Linked \cup {"none", "connecting"}]]
      BY <1>0, <1>8 DEF LoseLink, CallerType
    <2> QED
      BY <1>0, <1>8, <2>1 DEF LoseLink, CallerType, callerVars, recvVars
  <1>9. CASE UNCHANGED <<callerVars, recvVars, link>>
    BY <1>0, <1>9 DEF CallerType, callerVars, recvVars
  <1> QED
    BY <1>1, <1>2, <1>3, <1>4, <1>5, <1>6, <1>7, <1>8, <1>9, CallerCases, Zenon

-----------------------------------------------------------------------------
(***************************************************************************)
(* Events.                                                                 *)
(***************************************************************************)
\* Drops of n end in the order us: one that runs, or all of a part that could
\* not be loaded.
Ends(n, s, us) ==
  /\ us \in Seq(Local(n)) /\ \A i, j \in 1..Len(us) : i # j => us[i] # us[j]
  /\ End(n, s, us)
  /\ UNCHANGED <<wire, eventsIn, got, missed, deaf>>
  /\ \/ \E v \in Local(n) : us = <<v>> /\ v \notin ended[s] /\ EndDrop(s, v)
     \/ status[n][s] = "DEPLOYING" /\ Range(us) = Local(n) /\ Deployed(n, s)
        /\ <<n, s>> \in LoadFaults /\ status' = [status EXCEPT ![n][s] = "FAILED"]

\* The steps of events: all other steps leave the queues and the ends of drops
\* as they are.
LEMMA EventCases ==
  ASSUME [Next]_vars
  PROVE  \/ \E n \in Node : \E s \in SessionId : \E us : Ends(n, s, us)
         \/ \E n \in Node : Publish(n) \/ Deliver(n)
         \/ \E n \in Node : \E m \in Node : TakeEvent(n, m) \/ LoseLink(n, m)
         \/ UNCHANGED <<eventVars, dropVars>>
  <1>1. UNCHANGED vars => UNCHANGED <<eventVars, dropVars>>
    BY DEF vars
  <1>2. ASSUME NEW s \in SessionId, DeploySession(s) \/ NextStage(s)
        PROVE  UNCHANGED <<eventVars, dropVars>>
    BY <1>2, Zenon DEF NextStage, DeploySession
  <1>3. ASSUME NEW s \in SessionId, NEW v \in Drop, EndDrop(s, v)
        PROVE  \E n \in Node : \E us : Ends(n, s, us)
    <2> DEFINE n == Home[v]
    <2>1. n \in Node /\ v \in Local(n)
      BY ExchangeAssumption DEF Local
    <2>2. <<v>> \in Seq(Local(n)) /\ \A i, j \in 1..Len(<<v>>) : i # j => <<v>>[i] # <<v>>[j]
      BY <2>1
    <2>3. /\ End(n, s, <<v>>) /\ v \notin ended[s]
          /\ UNCHANGED <<wire, eventsIn, got, missed, deaf>>
      BY <1>3 DEF EndDrop
    <2>4. Ends(n, s, <<v>>)
      BY <1>3, <2>1, <2>2, <2>3 DEF Ends
    <2> QED
      BY <2>1, <2>4
  <1>4. ASSUME NEW n \in Node, NEW s \in SessionId, Deployed(n, s)
        PROVE  UNCHANGED <<eventVars, dropVars>> \/ \E us : Ends(n, s, us)
    <2>1. CASE UNCHANGED <<ended, heard, eventsOut, sent>>
      BY <1>4, <2>1 DEF Deployed, eventVars, dropVars
    <2>2. CASE /\ <<n, s>> \in LoadFaults /\ status' = [status EXCEPT ![n][s] = "FAILED"]
               /\ \E us \in Orders(Local(n)) : End(n, s, us)
      <3>1. PICK us \in Orders(Local(n)) : End(n, s, us)
        BY <2>2
      <3>2. Cardinality(Local(n)) \in Nat
        <4>1. Local(n) \subseteq Drop
          BY DEF Local
        <4> QED
          BY <4>1, ExchangeAssumption, Zenon
      <3>3. /\ us \in Seq(Local(n)) /\ Range(us) = Local(n)
            /\ \A i, j \in 1..Len(us) : i # j => us[i] # us[j]
        BY <3>2, OrdersProperties
      <3>4. status[n][s] = "DEPLOYING" /\ UNCHANGED <<wire, eventsIn, got, missed, deaf>>
        BY <1>4 DEF Deployed
      <3>5. Ends(n, s, us)
        BY <1>4, <2>2, <3>1, <3>3, <3>4 DEF Ends
      <3> QED
        BY <3>5
    <2> QED
      BY <1>4, <2>1, <2>2 DEF Deployed
  <1>5. ASSUME NEW n \in Node, NEW s \in SessionId,
               \/ Unreachable(n, s) \/ AddNodeSubscriptions(n, s) \/ Subscribed(n, s)
               \/ TimedOut(n, s) \/ Deploy(n, s) \/ TriggerDrops(n, s) \/ DestroySession(n, s)
        PROVE  UNCHANGED <<eventVars, dropVars>>
    BY <1>5, Zenon
    DEF Unreachable, AddNodeSubscriptions, Subscribed, TimedOut, Deploy, TriggerDrops,
        DestroySession
  <1>6. ASSUME NEW n \in Node, TakeSubscription(n) \/ TakeMonitor(n) \/ Shutdown(n)
        PROVE  UNCHANGED <<eventVars, dropVars>>
    BY <1>6, Zenon DEF TakeSubscription, TakeMonitor, Shutdown
  <1>7. ASSUME NEW n \in Node, NEW m \in Node, Connect(n, m)
        PROVE  UNCHANGED <<eventVars, dropVars>>
    BY <1>7, Zenon DEF Connect
  <1> QED
    BY <1>1, <1>2, <1>3, <1>4, <1>5, <1>6, <1>7, StepKinds, Zenon

\* The events that the end of drops adds to the queue of a node.
Told(s, us) == [i \in 1..Len(us) |-> <<s, us[i]>>]

\* Ends puts its events at the end of eventsOut and of what was sent.
LEMMA EndsEffect ==
  ASSUME NEW n \in Node, NEW s \in SessionId, NEW us, Ends(n, s, us)
  PROVE  /\ Told(s, us) \in Seq(Event) /\ Len(Told(s, us)) = Len(us)
         /\ \A i \in 1..Len(us) : Told(s, us)[i] = <<s, us[i]>> /\ us[i] \in Local(n)
         /\ eventsOut' = [eventsOut EXCEPT ![n] = @ \o Told(s, us)]
         /\ sent' = [sent EXCEPT ![n] = @ \o Told(s, us)]
         /\ ended' = [ended EXCEPT ![s] = @ \cup Range(us)]
  <1>1. us \in Seq(Local(n)) /\ Local(n) \subseteq Drop
    BY DEF Ends, Local
  <1>2. DOMAIN us = 1..Len(us) /\ Len(us) \in Nat /\ \A i \in 1..Len(us) : us[i] \in Local(n)
    BY <1>1
  <1>3. \A i \in 1..Len(us) : <<s, us[i]>> \in Event
    BY <1>1, <1>2 DEF Event
  <1>4. Told(s, us) \in [1..Len(us) -> Event]
    BY <1>3 DEF Told
  <1>5. Told(s, us) \in Seq(Event) /\ Len(Told(s, us)) = Len(us)
    BY <1>2, <1>4
  <1>6. Told(s, us) = [i \in DOMAIN us |-> <<s, us[i]>>]
    BY <1>2 DEF Told
  <1>7. End(n, s, us)
    BY DEF Ends
  <1>8. /\ eventsOut' = [eventsOut EXCEPT ![n] = @ \o Told(s, us)]
        /\ sent' = [sent EXCEPT ![n] = @ \o Told(s, us)]
        /\ ended' = [ended EXCEPT ![s] = @ \cup Range(us)]
    BY <1>6, <1>7 DEF End
  <1> QED
    BY <1>2, <1>5, <1>8 DEF Told

\* It leaves the drops of the other sessions alone.
LEMMA EndsOther ==
  ASSUME TypeOK, NEW n \in Node, NEW s \in SessionId, NEW us, Ends(n, s, us),
         NEW t \in SessionId, t # s
  PROVE  ended'[t] = ended[t]
  <1>1. End(n, s, us) /\ ended \in [SessionId -> SUBSET Drop]
    BY DEF Ends, TypeOK
  <1> QED
    BY <1>1 DEF End

\* What Publish does to the sockets: each gets the first event, or none.
LEMMA PublishEffect ==
  ASSUME TypeOK, NEW n \in Node, Publish(n)
  PROVE  /\ eventsOut[n] \in Seq(Event) /\ eventsOut[n] # <<>>
         /\ Head(eventsOut[n]) \in Event /\ Tail(eventsOut[n]) \in Seq(Event)
         /\ eventsOut' = [eventsOut EXCEPT ![n] = Tail(@)]
         /\ wire' \in [Node -> [Node -> Seq(Event)]]
         /\ \A k, m \in Node : \/ wire'[k][m] = wire[k][m]
                               \/ k = n /\ wire'[n][m] = Append(wire[n][m], Head(eventsOut[n]))
         /\ missed' \in BOOLEAN
         /\ UNCHANGED <<eventsIn, sent, got, dropVars>>
  <1>1. eventsOut[n] \in Seq(Event) /\ eventsOut[n] # <<>>
    BY DEF Publish, TypeOK
  <1>2. Head(eventsOut[n]) \in Event /\ Tail(eventsOut[n]) \in Seq(Event)
    BY <1>1
  <1>3. PICK late \in SUBSET {m \in Node : link[m][n] = "connected"} :
          /\ wire' = [wire EXCEPT ![n] = [m \in Node |->
               IF link[m][n] \in Linked /\ m \notin late
               THEN Append(@[m], Head(eventsOut[n])) ELSE @[m]]]
          /\ missed' = (missed \/ \E m \in late : Targets(m, Head(eventsOut[n])[2]) # {})
    BY Zenon DEF Publish
  <1> DEFINE e == Head(eventsOut[n])
             w == [m \in Node |-> IF link[m][n] \in Linked /\ m \notin late
                                  THEN Append(wire[n][m], e) ELSE wire[n][m]]
  <1>4. wire \in [Node -> [Node -> Seq(Event)]]
    BY DEF TypeOK
  <1>5. w \in [Node -> Seq(Event)]
    BY <1>2, <1>4
  <1>6. wire' = [wire EXCEPT ![n] = w]
    BY <1>3
  <1>7. \A m \in Node : w[m] = wire[n][m] \/ w[m] = Append(wire[n][m], e)
    OBVIOUS
  <1> HIDE DEF w, e
  <1>8. wire' \in [Node -> [Node -> Seq(Event)]]
    BY <1>4, <1>5, <1>6
  <1>9. \A k, m \in Node : \/ wire'[k][m] = wire[k][m]
                           \/ k = n /\ wire'[n][m] = Append(wire[n][m], e)
    BY <1>4, <1>6, <1>7
  <1>10. missed' \in BOOLEAN
    BY <1>3
  <1>11. UNCHANGED <<eventsIn, sent, got, dropVars>> /\ eventsOut' = [eventsOut EXCEPT ![n] = Tail(@)]
    BY DEF Publish
  <1> QED
    BY <1>1, <1>2, <1>8, <1>9, <1>10, <1>11, Zenon DEF e

\* What Deliver does to the queues, and to the drops it tells.
LEMMA DeliverEffect ==
  ASSUME TypeOK, NEW n \in Node, Deliver(n)
  PROVE  /\ eventsIn[n] \in Seq(Event) /\ eventsIn[n] # <<>>
         /\ Head(eventsIn[n]) \in Event /\ Tail(eventsIn[n]) \in Seq(Event)
         /\ eventsIn' = [eventsIn EXCEPT ![n] = Tail(@)]
         /\ got' = [got EXCEPT ![n] = Append(@, Head(eventsIn[n]))]
         /\ UNCHANGED <<eventsOut, wire, sent, missed, ended>>
         /\ deaf' \subseteq Node
         /\ \E told \in SUBSET Targets(n, Head(eventsIn[n])[2]) :
              heard' = [heard EXCEPT ![Head(eventsIn[n])[1]] = @ \cup ({Head(eventsIn[n])[2]} \X told)]
  <1>1. eventsIn[n] \in Seq(Event) /\ eventsIn[n] # <<>> /\ deaf \subseteq Node
    BY Zenon DEF Deliver, TypeOK
  <1>2. Head(eventsIn[n]) \in Event /\ Tail(eventsIn[n]) \in Seq(Event)
    BY <1>1
  <1> DEFINE s == Head(eventsIn[n])[1]
             u == Head(eventsIn[n])[2]
             targets == IF status[n][s] # "none" /\ s \in subscribed[n] THEN Targets(n, u) ELSE {}
             bad == IF status[n][s] = "BUILDING" THEN targets
                    ELSE {v \in targets : Raises(n, s, v)}
  <1>3. PICK told \in {T \in SUBSET (targets \ bad) : bad = {} => T = targets} :
          /\ heard' = [heard EXCEPT ![s] = @ \cup ({u} \X told)]
          /\ deaf' = IF bad = {} THEN deaf ELSE deaf \cup {n}
    BY Zenon DEF Deliver
  <1>4. deaf' \subseteq Node
    BY <1>1, <1>3, Zenon
  <1>5. told \subseteq targets /\ targets \subseteq Targets(n, u)
    BY <1>3, Zenon
  <1>6. \E t \in SUBSET Targets(n, u) : heard' = [heard EXCEPT ![s] = @ \cup ({u} \X t)]
    BY <1>3, <1>5, Zenon
  <1>7. /\ eventsIn' = [eventsIn EXCEPT ![n] = Tail(@)]
        /\ got' = [got EXCEPT ![n] = Append(@, Head(eventsIn[n]))]
        /\ UNCHANGED <<eventsOut, wire, sent, missed, ended>>
    BY Zenon DEF Deliver
  <1> QED
    BY <1>1, <1>2, <1>4, <1>6, <1>7, Zenon

\* What TakeEvent does to the queues.
LEMMA TakeEventEffect ==
  ASSUME TypeOK, NEW n \in Node, NEW m \in Node, TakeEvent(n, m)
  PROVE  /\ wire[m][n] \in Seq(Event) /\ wire[m][n] # <<>>
         /\ Head(wire[m][n]) \in Event /\ Tail(wire[m][n]) \in Seq(Event)
         /\ eventsIn' = [eventsIn EXCEPT ![n] = Append(@, Head(wire[m][n]))]
         /\ wire' = [wire EXCEPT ![m][n] = Tail(@)]
         /\ UNCHANGED <<eventsOut, sent, got, missed, dropVars>>
  <1>1. wire[m][n] \in Seq(Event) /\ wire[m][n] # <<>>
    BY DEF TakeEvent, TypeOK
  <1>2. Head(wire[m][n]) \in Event /\ Tail(wire[m][n]) \in Seq(Event)
    BY <1>1
  <1> QED
    BY <1>1, <1>2 DEF TakeEvent

\* The queues of events keep their types.
LEMMA EventTypeStep ==
  ASSUME TypeOK, [Next]_vars
  PROVE  EventType' /\ missed' \in BOOLEAN
  <1>0. EventType /\ missed \in BOOLEAN
    BY TypeGroups DEF DropType
  <1>1. ASSUME NEW n \in Node, NEW s \in SessionId, NEW us, Ends(n, s, us)
        PROVE  EventType' /\ missed' \in BOOLEAN
    <2>1. /\ Told(s, us) \in Seq(Event)
          /\ eventsOut' = [eventsOut EXCEPT ![n] = @ \o Told(s, us)]
          /\ sent' = [sent EXCEPT ![n] = @ \o Told(s, us)]
      BY <1>1, EndsEffect
    <2>2. eventsOut' \in [Node -> Seq(Event)]
      BY <1>0, <2>1 DEF EventType
    <2>3. sent' \in [Node -> Seq(Event)]
      BY <1>0, <2>1 DEF EventType
    <2> QED
      BY <1>0, <1>1, <2>2, <2>3, Zenon DEF EventType, Ends
  <1>2. ASSUME NEW n \in Node, Publish(n)
        PROVE  EventType' /\ missed' \in BOOLEAN
    <2>0. /\ eventsOut' = [eventsOut EXCEPT ![n] = Tail(@)]
          /\ Tail(eventsOut[n]) \in Seq(Event)
      BY <1>2, PublishEffect
    <2>1. eventsOut' \in [Node -> Seq(Event)]
      BY <1>0, <2>0 DEF EventType
    <2> QED
      BY <1>0, <1>2, <2>1, PublishEffect DEF EventType
  <1>3. ASSUME NEW n \in Node, Deliver(n)
        PROVE  EventType' /\ missed' \in BOOLEAN
    <2>0. /\ Head(eventsIn[n]) \in Event /\ Tail(eventsIn[n]) \in Seq(Event)
          /\ eventsIn' = [eventsIn EXCEPT ![n] = Tail(@)]
          /\ got' = [got EXCEPT ![n] = Append(@, Head(eventsIn[n]))]
      BY <1>3, DeliverEffect
    <2>1. eventsIn' \in [Node -> Seq(Event)]
      BY <1>0, <2>0 DEF EventType
    <2>2. got' \in [Node -> Seq(Event)]
      BY <1>0, <2>0 DEF EventType
    <2> QED
      BY <1>0, <1>3, <2>1, <2>2, DeliverEffect DEF EventType
  <1>4. ASSUME NEW n \in Node, NEW m \in Node, TakeEvent(n, m)
        PROVE  EventType' /\ missed' \in BOOLEAN
    <2>0. /\ Head(wire[m][n]) \in Event /\ Tail(wire[m][n]) \in Seq(Event)
          /\ eventsIn' = [eventsIn EXCEPT ![n] = Append(@, Head(wire[m][n]))]
          /\ wire' = [wire EXCEPT ![m][n] = Tail(@)]
      BY <1>4, TakeEventEffect
    <2>1. eventsIn' \in [Node -> Seq(Event)]
      BY <1>0, <2>0 DEF EventType
    <2>2. wire' \in [Node -> [Node -> Seq(Event)]]
      BY <1>0, <2>0 DEF EventType
    <2> QED
      BY <1>0, <1>4, <2>1, <2>2, TakeEventEffect, Zenon DEF EventType
  <1>5. ASSUME NEW n \in Node, NEW m \in Node, LoseLink(n, m)
        PROVE  EventType' /\ missed' \in BOOLEAN
    <2>1. wire' \in [Node -> [Node -> Seq(Event)]]
      BY <1>0, <1>5 DEF LoseLink, EventType
    <2> QED
      BY <1>0, <1>5, <2>1 DEF LoseLink, EventType
  <1>6. CASE UNCHANGED <<eventVars, dropVars>>
    BY <1>0, <1>6 DEF EventType, eventVars
  <1> QED
    BY <1>1, <1>2, <1>3, <1>4, <1>5, <1>6, EventCases

\* The faults, the drops and the threads keep their types.
LEMMA DropTypeStep ==
  ASSUME TypeOK, [Next]_vars
  PROVE  DropType'
  <1>0. DropType /\ missed' \in BOOLEAN
    BY TypeGroups, EventTypeStep
  <1>1. running' \in [Node -> BOOLEAN]
    <2>1. UNCHANGED running \/ \E n \in Node : running' = [running EXCEPT ![n] = FALSE]
      BY FaultSteps DEF Shutdown, LoseLink, DestroySession
    <2> QED
      BY <1>0, <2>1, Zenon DEF DropType
  <1>2. faults' \in 0..MaxFaults
    <2>1. UNCHANGED faults \/ (faults < MaxFaults /\ faults' = faults + 1)
      BY FaultSteps DEF Shutdown, LoseLink, DestroySession, Fault
    <2> QED
      BY <1>0, <2>1, ExchangeAssumption DEF DropType
  <1>3. deaf' \subseteq Node /\ heard' \in [SessionId -> SUBSET Rel]
        /\ ended' \in [SessionId -> SUBSET Drop]
    <2>1. ASSUME NEW n \in Node, NEW s \in SessionId, NEW us, Ends(n, s, us)
          PROVE  deaf' \subseteq Node /\ heard' \in [SessionId -> SUBSET Rel]
                 /\ ended' \in [SessionId -> SUBSET Drop]
      <3>1. us \in Seq(Local(n)) /\ End(n, s, us) /\ UNCHANGED deaf
        BY <2>1 DEF Ends
      <3>2. Range(us) \subseteq Drop
        BY <3>1 DEF Range, Local
      <3>3. ended' \in [SessionId -> SUBSET Drop]
        BY <1>0, <3>1, <3>2 DEF End, DropType
      <3>4. heard' \in [SessionId -> SUBSET Rel]
        BY <1>0, <3>1 DEF End, DropType
      <3> QED
        BY <1>0, <3>1, <3>3, <3>4 DEF DropType
    <2>2. ASSUME NEW n \in Node, Deliver(n)
          PROVE  deaf' \subseteq Node /\ heard' \in [SessionId -> SUBSET Rel]
                 /\ ended' \in [SessionId -> SUBSET Drop]
      <3> DEFINE s == Head(eventsIn[n])[1]
                 u == Head(eventsIn[n])[2]
      <3>1. deaf' \subseteq Node /\ UNCHANGED ended /\ Head(eventsIn[n]) \in Event
        BY <2>2, DeliverEffect
      <3>2. PICK told \in SUBSET Targets(n, u) :
              heard' = [heard EXCEPT ![s] = @ \cup ({u} \X told)]
        BY <2>2, DeliverEffect, Zenon
      <3>3. s \in SessionId /\ u \in Drop
        BY <3>1 DEF Event
      <3>4. {u} \X told \subseteq Rel
        BY <3>2 DEF Targets
      <3> HIDE DEF s, u
      <3>5. heard' \in [SessionId -> SUBSET Rel]
        BY <1>0, <3>2, <3>3, <3>4 DEF DropType
      <3> QED
        BY <1>0, <3>1, <3>5 DEF DropType
    <2>3. ASSUME UNCHANGED dropVars
          PROVE  deaf' \subseteq Node /\ heard' \in [SessionId -> SUBSET Rel]
                 /\ ended' \in [SessionId -> SUBSET Drop]
      BY <1>0, <2>3 DEF DropType, dropVars
    <2>4. \A n, m \in Node : Publish(n) \/ TakeEvent(n, m) \/ LoseLink(n, m) => UNCHANGED dropVars
      BY Zenon DEF Publish, TakeEvent, LoseLink
    <2> QED
      BY <2>1, <2>2, <2>3, <2>4, EventCases
  <1> QED
    BY <1>0, <1>1, <1>2, <1>3 DEF DropType

\* All steps keep the type invariant.
LEMMA TypeStep ==
  ASSUME TypeOK, [Next]_vars
  PROVE  TypeOK'
  BY TypeGroups, DeployTypeStep, CallerTypeStep, EventTypeStep, DropTypeStep

\* Callers, sockets, queues and statuses stay within their types, through every
\* interleaving of the event threads and every fault.
THEOREM TypeCorrect == Spec => []TypeOK
  BY InitType, TypeStep, PTL DEF Spec

-----------------------------------------------------------------------------
(***************************************************************************)
(* The order of events.  What a node has sent is a list without            *)
(* repetition, of which eventsOut is the rest; all that has left, on the   *)
(* wire or arrived, is in the part before it, and in its order.            *)
(***************************************************************************)
\* e is among the first k of sq; e stands before f in sq.
Within(sq, k, e) == \E p \in 1..k : sq[p] = e
Earlier(sq, e, f) == \E p, q \in 1..Len(sq) : p < q /\ sq[p] = e /\ sq[q] = f

\* Of the events of n, first those in A and then those in w are among the first
\* k of sq, and in its order.
Ordered(n, sq, k, A, w) ==
  /\ \A i \in 1..Len(w) : Within(sq, k, w[i])
  /\ \A i, j \in 1..Len(w) : i < j => Earlier(sq, w[i], w[j])
  /\ \A i \in 1..Len(A) : Home[A[i][2]] = n => Within(sq, k, A[i])
  /\ \A i, j \in 1..Len(A) :
       i < j /\ Home[A[i][2]] = n /\ Home[A[j][2]] = n => Earlier(sq, A[i], A[j])
  /\ \A i \in 1..Len(A), j \in 1..Len(w) : Home[A[i][2]] = n => Earlier(sq, A[i], w[j])

SentOnce ==
  \A n \in Node : \A i, j \in 1..Len(sent[n]) : i # j => sent[n][i] # sent[n][j]

SentEnded ==
  \A n \in Node : \A i \in 1..Len(sent[n]) :
    Home[sent[n][i][2]] = n /\ sent[n][i][2] \in ended[sent[n][i][1]]

\* The drops of a part that is not deployed have not ended.
Unloaded ==
  \A n \in Node, s \in SessionId : status[n][s] \in {"PRISTINE", "BUILDING", "DEPLOYING"} =>
    \A u \in Local(n) : u \notin ended[s]

QueueIsRest ==
  \A n \in Node :
    /\ Len(eventsOut[n]) <= Len(sent[n])
    /\ \A i \in 1..Len(eventsOut[n]) :
         eventsOut[n][i] = sent[n][(Len(sent[n]) - Len(eventsOut[n])) + i]

AllOrdered ==
  \A n, m \in Node :
    Ordered(n, sent[n], Len(sent[n]) - Len(eventsOut[n]), Arrived(m), wire[n][m])

OrderInv == SentOnce /\ SentEnded /\ Unloaded /\ QueueIsRest /\ AllOrdered

\* What has arrived is a sequence of events.
LEMMA ArrivedType ==
  ASSUME NEW m \in Node
  PROVE  /\ TypeOK => Arrived(m) \in Seq(Event)
         /\ TypeOK' => Arrived(m)' \in Seq(Event)
  BY DEF TypeOK, Arrived

\* A longer list of what was sent, or more of it out, keeps the order.
LEMMA OrderGrows ==
  ASSUME NEW n, NEW sq, NEW k \in Nat, NEW A, NEW w, Ordered(n, sq, k, A, w),
         NEW sr, NEW l \in Nat, Len(sq) \in Nat, Len(sr) \in Nat,
         k <= l, k <= Len(sq), Len(sq) <= Len(sr), \A p \in 1..Len(sq) : sr[p] = sq[p]
  PROVE  Ordered(n, sr, l, A, w)
  <1>1. ASSUME NEW e, Within(sq, k, e) PROVE Within(sr, l, e)
    <2>1. PICK p \in 1..k : sq[p] = e
      BY <1>1 DEF Within
    <2>2. p \in 1..l /\ p \in 1..Len(sq)
      BY <2>1
    <2> QED
      BY <2>1, <2>2 DEF Within
  <1>2. ASSUME NEW e, NEW f, Earlier(sq, e, f) PROVE Earlier(sr, e, f)
    <2>1. PICK p, q \in 1..Len(sq) : p < q /\ sq[p] = e /\ sq[q] = f
      BY <1>2 DEF Earlier
    <2>2. p \in 1..Len(sr) /\ q \in 1..Len(sr)
      BY <2>1
    <2> QED
      BY <2>1, <2>2 DEF Earlier
  <1> QED
    BY <1>1, <1>2 DEF Ordered

\* The next event goes on the wire: it comes after all that is out.
LEMMA OrderPublished ==
  ASSUME NEW n, NEW sq, NEW k \in Nat, NEW A, NEW w \in Seq(Event), Ordered(n, sq, k, A, w),
         Len(sq) \in Nat, k + 1 <= Len(sq), sq[k + 1] \in Event
  PROVE  Ordered(n, sq, k + 1, A, Append(w, sq[k + 1]))
  <1> DEFINE e == sq[k + 1]
             v == Append(w, e)
  <1>1. Ordered(n, sq, k + 1, A, w)
    BY OrderGrows
  <1>2. Within(sq, k + 1, e)
    BY DEF Within
  <1>3. ASSUME NEW x, Within(sq, k, x) PROVE Earlier(sq, x, e)
    <2>1. PICK p \in 1..k : sq[p] = x
      BY <1>3 DEF Within
    <2>2. p \in 1..Len(sq) /\ k + 1 \in 1..Len(sq) /\ p < k + 1
      BY <2>1
    <2> QED
      BY <2>1, <2>2 DEF Earlier
  <1>4. /\ Len(w) \in Nat /\ Len(v) = Len(w) + 1 /\ v[Len(w) + 1] = e
        /\ \A i \in 1..Len(w) : v[i] = w[i]
    OBVIOUS
  <1> HIDE DEF v, e
  <1>5. \A i \in 1..Len(v) : i \in 1..Len(w) \/ i = Len(w) + 1
    BY <1>4
  <1>6. \A i \in 1..Len(v) : Within(sq, k + 1, v[i])
    BY <1>1, <1>2, <1>4, <1>5 DEF Ordered
  <1>7. \A i, j \in 1..Len(v) : i < j => Earlier(sq, v[i], v[j])
    <2> SUFFICES ASSUME NEW i \in 1..Len(v), NEW j \in 1..Len(v), i < j
                 PROVE  Earlier(sq, v[i], v[j])
      OBVIOUS
    <2>1. i \in 1..Len(w)
      BY <1>4
    <2>2. CASE j \in 1..Len(w)
      BY <1>1, <1>4, <2>1, <2>2, Zenon DEF Ordered
    <2>3. CASE j = Len(w) + 1
      BY <1>3, <1>4, <2>1, <2>3 DEF Ordered
    <2> QED
      BY <1>5, <2>2, <2>3
  <1>8. \A i \in 1..Len(A), j \in 1..Len(v) : Home[A[i][2]] = n => Earlier(sq, A[i], v[j])
    BY <1>1, <1>3, <1>4, <1>5, Zenon DEF Ordered
  <1> QED
    BY <1>1, <1>6, <1>7, <1>8, Zenon DEF Ordered, v, e

\* The first event on the wire arrives: it comes after all that has arrived and
\* before all else on the wire.
LEMMA OrderTaken ==
  ASSUME NEW n, NEW sq, NEW k, NEW A \in Seq(Event), NEW w \in Seq(Event),
         Ordered(n, sq, k, A, w), w # <<>>
  PROVE  Ordered(n, sq, k, Append(A, Head(w)), Tail(w))
  <1> DEFINE e == Head(w)
             B == Append(A, e)
             v == Tail(w)
  <1>1. e = w[1] /\ e \in Event /\ Len(w) \in Nat \ {0}
    OBVIOUS
  <1>2. Len(v) = Len(w) - 1 /\ \A i \in 1..Len(v) : v[i] = w[i + 1]
    OBVIOUS
  <1>3. /\ Len(A) \in Nat /\ Len(B) = Len(A) + 1 /\ B[Len(A) + 1] = e
        /\ \A i \in 1..Len(A) : B[i] = A[i]
    BY <1>1
  <1> HIDE DEF e, B, v
  <1>4. \A i \in 1..Len(v) : i + 1 \in 1..Len(w) /\ 1 \in 1..Len(w) /\ 1 < i + 1
    BY <1>1, <1>2
  <1>5. \A i \in 1..Len(B) : i \in 1..Len(A) \/ i = Len(A) + 1
    BY <1>3
  <1>6. \A i \in 1..Len(v) : Within(sq, k, v[i])
    BY <1>2, <1>4 DEF Ordered
  <1>7. \A i, j \in 1..Len(v) : i < j => Earlier(sq, v[i], v[j])
    <2> SUFFICES ASSUME NEW i \in 1..Len(v), NEW j \in 1..Len(v), i < j
                 PROVE  Earlier(sq, v[i], v[j])
      OBVIOUS
    <2>1. i + 1 \in 1..Len(w) /\ j + 1 \in 1..Len(w) /\ i + 1 < j + 1
      BY <1>4
    <2> QED
      BY <1>2, <2>1 DEF Ordered
  <1>8. \A i \in 1..Len(B) : Home[B[i][2]] = n => Within(sq, k, B[i])
    <2>1. Within(sq, k, e)
      BY <1>1 DEF Ordered
    <2> QED
      BY <1>3, <1>5, <2>1 DEF Ordered
  <1>9. \A i, j \in 1..Len(B) :
          i < j /\ Home[B[i][2]] = n /\ Home[B[j][2]] = n => Earlier(sq, B[i], B[j])
    <2> SUFFICES ASSUME NEW i \in 1..Len(B), NEW j \in 1..Len(B), i < j,
                        Home[B[i][2]] = n, Home[B[j][2]] = n
                 PROVE  Earlier(sq, B[i], B[j])
      OBVIOUS
    <2>1. i \in 1..Len(A) /\ 1 \in 1..Len(w)
      BY <1>1, <1>3
    <2>2. CASE j \in 1..Len(A)
      BY <1>3, <2>1, <2>2 DEF Ordered
    <2>3. CASE j = Len(A) + 1
      BY <1>1, <1>3, <2>1, <2>3 DEF Ordered
    <2> QED
      BY <1>5, <2>2, <2>3
  <1>10. \A i \in 1..Len(B), j \in 1..Len(v) : Home[B[i][2]] = n => Earlier(sq, B[i], v[j])
    <2> SUFFICES ASSUME NEW i \in 1..Len(B), NEW j \in 1..Len(v), Home[B[i][2]] = n
                 PROVE  Earlier(sq, B[i], v[j])
      OBVIOUS
    <2>1. j + 1 \in 1..Len(w) /\ 1 \in 1..Len(w) /\ 1 < j + 1 /\ v[j] = w[j + 1]
      BY <1>2, <1>4
    <2>2. CASE i \in 1..Len(A)
      BY <1>3, <2>1, <2>2 DEF Ordered
    <2>3. CASE i = Len(A) + 1
      BY <1>1, <1>3, <2>1, <2>3, SMTT(30) DEF Ordered
    <2> QED
      BY <1>5, <2>2, <2>3
  <1> QED
    BY <1>6, <1>7, <1>8, <1>9, <1>10, Zenon DEF Ordered, e, B, v

\* An event of another node arrives.
LEMMA OrderOther ==
  ASSUME NEW n, NEW sq, NEW k, NEW A \in Seq(Event), NEW w, Ordered(n, sq, k, A, w),
         NEW e \in Event, Home[e[2]] # n
  PROVE  Ordered(n, sq, k, Append(A, e), w)
  <1> DEFINE B == Append(A, e)
  <1>1. /\ Len(A) \in Nat /\ Len(B) = Len(A) + 1 /\ B[Len(A) + 1] = e
        /\ \A i \in 1..Len(A) : B[i] = A[i]
    OBVIOUS
  <1> HIDE DEF B
  <1>2. \A i \in 1..Len(B) : Home[B[i][2]] = n => i \in 1..Len(A) /\ B[i] = A[i]
    <2>1. \A i \in 1..Len(B) : i \in 1..Len(A) \/ i = Len(A) + 1
      BY <1>1
    <2> QED
      BY <1>1, <2>1
  <1>3. /\ \A i \in 1..Len(B) : Home[B[i][2]] = n => Within(sq, k, B[i])
        /\ \A i \in 1..Len(B), j \in 1..Len(w) : Home[B[i][2]] = n => Earlier(sq, B[i], w[j])
    BY <1>2, Zenon DEF Ordered
  <1>4. \A i, j \in 1..Len(B) :
          i < j /\ Home[B[i][2]] = n /\ Home[B[j][2]] = n => Earlier(sq, B[i], B[j])
    BY <1>2 DEF Ordered
  <1> QED
    BY <1>3, <1>4 DEF Ordered, B

\* What is on the wire is lost.
LEMMA OrderLost ==
  ASSUME NEW n, NEW sq, NEW k, NEW A, NEW w, Ordered(n, sq, k, A, w)
  PROVE  Ordered(n, sq, k, A, <<>>)
  BY DEF Ordered

\* The drops that end have not ended before.
LEMMA EndsFresh ==
  ASSUME OrderInv, NEW n \in Node, NEW s \in SessionId, NEW us, Ends(n, s, us)
  PROVE  \A i \in 1..Len(us) : us[i] \notin ended[s] /\ Home[us[i]] = n /\ us[i] \in Range(us)
  <1>1. \A i \in 1..Len(us) : us[i] \in Local(n) /\ us[i] \in Range(us)
    BY SMTT(30) DEF Ends, Range
  <1>2. CASE \E v \in Local(n) : us = <<v>> /\ v \notin ended[s]
    BY <1>1, <1>2 DEF Local
  <1>3. CASE status[n][s] = "DEPLOYING"
    BY <1>1, <1>3 DEF OrderInv, Unloaded, Local
  <1> QED
    BY <1>2, <1>3 DEF Ends

\* The end of drops keeps the order: their events are new, and come last.
LEMMA OrderEnds ==
  ASSUME TypeOK, TypeOK', OrderInv, NEW n \in Node, NEW s \in SessionId, NEW us, Ends(n, s, us)
  PROVE  OrderInv'
  <1> DEFINE T == Told(s, us)
             L == Len(sent[n])
  <1>1. /\ T \in Seq(Event) /\ Len(T) = Len(us)
        /\ \A i \in 1..Len(us) : T[i] = <<s, us[i]>> /\ us[i] \in Local(n)
        /\ eventsOut' = [eventsOut EXCEPT ![n] = @ \o T]
        /\ sent' = [sent EXCEPT ![n] = @ \o T]
        /\ ended' = [ended EXCEPT ![s] = @ \cup Range(us)]
    BY EndsEffect
  <1>2. /\ sent \in [Node -> Seq(Event)] /\ eventsOut \in [Node -> Seq(Event)]
        /\ ended \in [SessionId -> SUBSET Drop]
    BY ZenonT(30) DEF TypeOK
  <1>3. /\ sent'[n] = sent[n] \o T /\ eventsOut'[n] = eventsOut[n] \o T
        /\ \A k \in Node : k # n => sent'[k] = sent[k] /\ eventsOut'[k] = eventsOut[k]
    BY <1>1, <1>2
  <1>4. \A t \in SessionId : ended[t] \subseteq ended'[t]
    BY <1>1, <1>2, Zenon
  <1>5. \A i \in 1..Len(us) : us[i] \notin ended[s] /\ Home[us[i]] = n /\ us[i] \in ended'[s]
    BY <1>1, <1>2, EndsFresh, SMTT(30)
  <1>6. /\ L \in Nat /\ Len(us) \in Nat /\ Len(sent'[n]) = L + Len(us)
        /\ \A i \in 1..L : sent'[n][i] = sent[n][i]
        /\ \A i \in 1..Len(us) : sent'[n][L + i] = <<s, us[i]>>
    <2> HIDE DEF T
    <2>1. sent[n] \in Seq(Event) /\ T \in Seq(Event)
      BY <1>1, <1>2
    <2>2. /\ L \in Nat /\ Len(T) \in Nat /\ Len(sent[n] \o T) = L + Len(T)
          /\ \A i \in 1..L : (sent[n] \o T)[i] = sent[n][i]
          /\ \A i \in 1..Len(T) : (sent[n] \o T)[L + i] = T[i]
      BY <2>1, SMTT(30)
    <2> QED
      BY <1>1, <1>3, <2>2
  <1>7. /\ Len(eventsOut[n]) \in Nat /\ Len(eventsOut'[n]) = Len(eventsOut[n]) + Len(us)
        /\ \A i \in 1..Len(eventsOut[n]) : eventsOut'[n][i] = eventsOut[n][i]
        /\ \A i \in 1..Len(us) : eventsOut'[n][Len(eventsOut[n]) + i] = <<s, us[i]>>
    <2> HIDE DEF T
    <2>1. eventsOut[n] \in Seq(Event) /\ T \in Seq(Event)
      BY <1>1, <1>2
    <2> DEFINE M == Len(eventsOut[n])
    <2>2. /\ M \in Nat /\ Len(T) \in Nat /\ Len(eventsOut[n] \o T) = M + Len(T)
          /\ \A i \in 1..M : (eventsOut[n] \o T)[i] = eventsOut[n][i]
          /\ \A i \in 1..Len(T) : (eventsOut[n] \o T)[M + i] = T[i]
      BY <2>1
    <2> QED
      BY <1>1, <1>3, <2>2
  <1> HIDE DEF T, L
  <1>8. /\ L \in Nat /\ Len(eventsOut[n]) \in Nat /\ Len(us) \in Nat
         /\ Len(sent'[n]) = L + Len(us) /\ Len(eventsOut'[n]) = Len(eventsOut[n]) + Len(us)
    BY <1>6, <1>7, Zenon
  <1>9. ASSUME NEW i \in 1..Len(sent'[n]), i \notin 1..L
        PROVE  \E j \in 1..Len(us) : i = L + j /\ sent'[n][i] = <<s, us[j]>>
    <2>1. i - L \in 1..Len(us) /\ i = L + (i - L)
      BY <1>6, <1>9
    <2> QED
      BY <1>6, <2>1, Zenon
  <1>10. SentOnce'
    <2> SUFFICES ASSUME NEW k \in Node, NEW i \in 1..Len(sent'[k]), NEW j \in 1..Len(sent'[k]), i < j
                 PROVE  sent'[k][i] # sent'[k][j]
      <3>1. \A k \in Node : Len(sent'[k]) \in Nat
        BY DEF TypeOK
      <3> QED
        BY <3>1 DEF SentOnce
    <2>0. i # j /\ SentOnce
      BY DEF OrderInv
    <2>1. CASE k # n
      <3>1. sent'[k] = sent[k]
        BY <1>3, <2>1, Zenon
      <3>2. i \in 1..Len(sent[k]) /\ j \in 1..Len(sent[k])
        BY <3>1, Zenon
      <3> QED
        BY <2>0, <3>1, <3>2, ZenonT(30) DEF SentOnce
    <2>2. CASE k = n /\ j \in 1..L
      <3>1. i \in 1..L
        BY <1>6, <2>2
      <3> QED
        <4>1. sent'[n][i] = sent[n][i] /\ sent'[n][j] = sent[n][j]
          BY <1>6, <2>2, <3>1
        <4>2. sent[n][i] # sent[n][j]
          BY <2>0, <2>2, <3>1 DEF SentOnce, L
        <4> QED
          BY <2>2, <4>1, <4>2
    <2>3. CASE k = n /\ j \notin 1..L /\ i \in 1..L
      <3>1. PICK b \in 1..Len(us) : sent'[n][j] = <<s, us[b]>>
        BY <1>9, <2>3
      <3>2. sent'[n][i] = sent[n][i] /\ sent[n][i][2] \in ended[sent[n][i][1]]
        BY <1>6, <2>3 DEF OrderInv, SentEnded, L
      <3> QED
        BY <1>5, <2>3, <3>1, <3>2
    <2>4. CASE k = n /\ j \notin 1..L /\ i \notin 1..L
      <3>1. PICK a \in 1..Len(us) : i = L + a /\ sent'[n][i] = <<s, us[a]>>
        BY <1>9, <2>4
      <3>2. PICK b \in 1..Len(us) : j = L + b /\ sent'[n][j] = <<s, us[b]>>
        BY <1>9, <2>4
      <3>3. us[a] # us[b]
        BY <3>1, <3>2 DEF Ends
      <3> QED
        BY <2>4, <3>1, <3>2, <3>3
    <2> QED
      BY <2>1, <2>2, <2>3, <2>4
  <1>11. SentEnded'
    <2> SUFFICES ASSUME NEW k \in Node, NEW i \in 1..Len(sent'[k])
                 PROVE  /\ Home[sent'[k][i][2]] = k
                        /\ sent'[k][i][2] \in ended'[sent'[k][i][1]]
      BY DEF SentEnded
    <2>1. CASE k # n
      <3>1. sent'[k] = sent[k] /\ sent[k] \in Seq(Event) /\ i \in 1..Len(sent[k])
        BY <1>2, <1>3, <2>1
      <3>2. sent[k][i][1] \in SessionId
        BY <3>1 DEF Event
      <3>3. Home[sent[k][i][2]] = k /\ sent[k][i][2] \in ended[sent[k][i][1]]
        BY <3>1, Zenon DEF OrderInv, SentEnded
      <3> QED
        BY <1>4, <3>1, <3>2, <3>3, Zenon
    <2>2. CASE k = n /\ i \in 1..L
      <3>1. sent[n][i] \in Event
        BY <1>2, <2>2 DEF L
      <3> QED
        BY <1>4, <1>6, <2>2, <3>1, Zenon DEF OrderInv, SentEnded, Event, L
    <2>3. CASE k = n /\ i \notin 1..L
      BY <1>5, <1>9, <2>3
    <2> QED
      BY <2>1, <2>2, <2>3, Zenon
  <1>12. Unloaded'
    <2> SUFFICES ASSUME NEW k \in Node, NEW t \in SessionId,
                        status'[k][t] \in {"PRISTINE", "BUILDING", "DEPLOYING"},
                        NEW u \in Local(k)
                 PROVE  u \notin ended'[t]
      BY DEF Unloaded
    <2>1. status' = status \/ status' = [status EXCEPT ![n][s] = "FAILED"]
      BY Zenon DEF Ends, EndDrop, deployVars
    <2>2. status \in [Node -> [SessionId -> Statuses]]
      BY DEF TypeOK
    <2>3. status[n][s] \in {"RUNNING", "DEPLOYING"} /\ (status' = status => status[n][s] = "RUNNING")
      <3>1. CASE \E v \in Local(n) : EndDrop(s, v)
        BY <3>1 DEF EndDrop, Local, deployVars
      <3>2. CASE status[n][s] = "DEPLOYING" /\ status' = [status EXCEPT ![n][s] = "FAILED"]
        BY <2>2, <3>2
      <3> QED
        BY <3>1, <3>2, Zenon DEF Ends
    <2>4. status[k][t] = status'[k][t] /\ ~(k = n /\ t = s)
      BY <2>1, <2>2, <2>3
    <2>5. u \notin ended[t]
      BY <2>4, Zenon DEF OrderInv, Unloaded
    <2>6. CASE t # s
      BY <1>1, <1>2, <2>5, <2>6, Zenon
    <2>7. CASE t = s
      <3>1. u \notin Local(n)
        BY <2>4, <2>7 DEF Local
      <3>2. Range(us) \subseteq Local(n)
        BY DEF Ends, Range
      <3> QED
        BY <1>1, <1>2, <2>5, <2>7, <3>1, <3>2, Zenon
    <2> QED
      BY <2>6, <2>7
  <1>13. QueueIsRest'
    <2> DEFINE P == L - Len(eventsOut[n])
    <2>0. Len(eventsOut[n]) <= L
      BY Zenon DEF OrderInv, QueueIsRest, L
    <2>1. Len(sent'[n]) - Len(eventsOut'[n]) = P
      BY <1>8
    <2>2. ASSUME NEW i \in 1..Len(eventsOut'[n])
          PROVE  eventsOut'[n][i] = sent'[n][P + i]
      <3>1. CASE i \in 1..Len(eventsOut[n])
        <4>1. P + i \in 1..L
          BY <1>6, <1>7, <2>0, <3>1
        <4>2. eventsOut[n][i] = sent[n][P + i]
          BY <3>1, Zenon DEF OrderInv, QueueIsRest, L
        <4> HIDE DEF P
        <4> QED
          BY <1>6, <1>7, <3>1, <4>1, <4>2
      <3>2. CASE i \notin 1..Len(eventsOut[n])
        <4> DEFINE j == i - Len(eventsOut[n])
        <4>1. j \in 1..Len(us) /\ i = Len(eventsOut[n]) + j /\ P + i = L + j
          BY <1>6, <1>7, <2>0, <2>2, <3>2
        <4> HIDE DEF j, P
        <4> QED
          BY <1>6, <1>7, <4>1, Zenon
      <3> QED
        BY <3>1, <3>2
    <2> HIDE DEF P
    <2>3. Len(eventsOut'[n]) <= Len(sent'[n])
      BY <1>6, <1>7, <2>0
    <2>4. ASSUME NEW k \in Node
          PROVE  /\ Len(eventsOut'[k]) <= Len(sent'[k])
                 /\ \A i \in 1..Len(eventsOut'[k]) :
                      eventsOut'[k][i] = sent'[k][(Len(sent'[k]) - Len(eventsOut'[k])) + i]
      <3>1. CASE k = n
        BY <2>1, <2>2, <2>3, <3>1, Zenon
      <3>2. CASE k # n
        <4>1. eventsOut'[k] = eventsOut[k] /\ sent'[k] = sent[k] /\ QueueIsRest
          BY <1>3, <3>2, Zenon DEF OrderInv
        <4> QED
          BY <4>1, Zenon DEF QueueIsRest
      <3> QED
        BY <3>1, <3>2, Zenon
    <2> QED
      BY <2>4, Zenon DEF QueueIsRest
  <1>14. AllOrdered'
    <2>1. wire' = wire /\ \A m \in Node : Arrived(m)' = Arrived(m)
      BY DEF Ends, Arrived
    <2>2. ASSUME NEW k \in Node, NEW m \in Node
          PROVE  Ordered(k, sent'[k], Len(sent'[k]) - Len(eventsOut'[k]), Arrived(m), wire[k][m])
      <3>1. Ordered(k, sent[k], Len(sent[k]) - Len(eventsOut[k]), Arrived(m), wire[k][m])
        BY Zenon DEF OrderInv, AllOrdered
      <3>2. CASE k # n
        BY <1>3, <3>1, <3>2, Zenon
      <3>3. CASE k = n
        <4> DEFINE P == L - Len(eventsOut[n])
        <4>0. Len(eventsOut[n]) <= L
          BY Zenon DEF OrderInv, QueueIsRest, L
        <4>1. P \in Nat /\ P <= L /\ Len(sent'[n]) - Len(eventsOut'[n]) = P
          BY <1>8, <4>0
        <4>2. L <= Len(sent'[n]) /\ Len(sent'[n]) \in Nat /\ P <= P
          BY <1>8, <4>1
        <4>3. Ordered(n, sent[n], P, Arrived(m), wire[n][m])
          BY <3>1, <3>3, Zenon DEF L
        <4> HIDE DEF P
        <4>4. Ordered(n, sent'[n], P, Arrived(m), wire[n][m])
          BY <1>6, <4>1, <4>2, <4>3, OrderGrows, Zenon DEF L
        <4> QED
          BY <3>3, <4>1, <4>4, Zenon
      <3> QED
        BY <3>2, <3>3, Zenon
    <2> QED
      BY <2>1, <2>2, Zenon DEF AllOrdered
  <1> QED
    BY <1>10, <1>11, <1>12, <1>13, <1>14, ZenonT(30) DEF OrderInv

\* Three actions change the status of a session on a node.
LEMMA StatusCases ==
  ASSUME [Next]_vars
  PROVE  \/ UNCHANGED status
         \/ \E n \in Node : \E s \in SessionId :
              Deploy(n, s) \/ Deployed(n, s) \/ DestroySession(n, s)
  <1>1. UNCHANGED vars => UNCHANGED status
    BY DEF vars, deployVars
  <1>2. ASSUME NEW s \in SessionId, DeploySession(s) \/ NextStage(s) \/ \E v \in Drop : EndDrop(s, v)
        PROVE  UNCHANGED status
    BY <1>2, Zenon DEF NextStage, DeploySession, EndDrop, deployVars
  <1>3. ASSUME NEW n \in Node, NEW s \in SessionId,
               \/ Unreachable(n, s) \/ AddNodeSubscriptions(n, s) \/ Subscribed(n, s)
               \/ TimedOut(n, s) \/ TriggerDrops(n, s)
        PROVE  UNCHANGED status
    BY <1>3, Zenon
    DEF Unreachable, AddNodeSubscriptions, Subscribed, TimedOut, TriggerDrops, deployVars
  <1>4. ASSUME NEW n \in Node, \/ TakeSubscription(n) \/ TakeMonitor(n) \/ Publish(n) \/ Deliver(n)
                               \/ Shutdown(n)
        PROVE  UNCHANGED status
    BY <1>4, Zenon DEF TakeSubscription, TakeMonitor, Publish, Deliver, Shutdown, deployVars
  <1>5. ASSUME NEW n \in Node, NEW m \in Node, Connect(n, m) \/ TakeEvent(n, m) \/ LoseLink(n, m)
        PROVE  UNCHANGED status
    BY <1>5, Zenon DEF Connect, TakeEvent, LoseLink, deployVars
  <1> QED
    BY <1>1, <1>2, <1>3, <1>4, <1>5, StepKinds, Zenon

\* No part goes back to a status before its deployment.
LEMMA StatusForward ==
  ASSUME TypeOK, [Next]_vars, NEW n \in Node, NEW s \in SessionId,
         status'[n][s] \in {"PRISTINE", "BUILDING", "DEPLOYING"}
  PROVE  status[n][s] \in {"PRISTINE", "BUILDING", "DEPLOYING"}
  <1>1. status \in [Node -> [SessionId -> Statuses]]
    BY Zenon DEF TypeOK
  <1>2. ASSUME NEW k \in Node, NEW t \in SessionId,
               Deploy(k, t) \/ Deployed(k, t) \/ DestroySession(k, t)
        PROVE  \/ \E st \in {"RUNNING", "FAILED", "none", "FINISHED"} :
                    status' = [status EXCEPT ![k][t] = st]
               \/ status[k][t] = "BUILDING" /\ status' = [status EXCEPT ![k][t] = "DEPLOYING"]
    BY <1>2, Zenon DEF Deploy, Deployed, DestroySession
  <1>3. ASSUME NEW k \in Node, NEW t \in SessionId,
               NEW st \in {"RUNNING", "FAILED", "none", "FINISHED"},
               status' = [status EXCEPT ![k][t] = st]
        PROVE  status[n][s] \in {"PRISTINE", "BUILDING", "DEPLOYING"}
    BY <1>1, <1>3
  <1>4. ASSUME NEW k \in Node, NEW t \in SessionId,
               status[k][t] = "BUILDING", status' = [status EXCEPT ![k][t] = "DEPLOYING"]
        PROVE  status[n][s] \in {"PRISTINE", "BUILDING", "DEPLOYING"}
    BY <1>1, <1>4
  <1> QED
    BY <1>2, <1>3, <1>4, StatusCases

\* So a step that ends no drop leaves Unloaded as it is.
LEMMA UnloadedStep ==
  ASSUME TypeOK, OrderInv, [Next]_vars, UNCHANGED ended
  PROVE  Unloaded'
  BY StatusForward DEF OrderInv, Unloaded


\* An event is published: it is the next of what was sent.
LEMMA OrderPublish ==
  ASSUME TypeOK, TypeOK', OrderInv, [Next]_vars, NEW n \in Node, Publish(n)
  PROVE  OrderInv'
  <1> DEFINE e == Head(eventsOut[n])
             P == Len(sent[n]) - Len(eventsOut[n])
  <1>1. /\ eventsOut[n] \in Seq(Event) /\ eventsOut[n] # <<>>
        /\ eventsOut' = [eventsOut EXCEPT ![n] = Tail(@)]
        /\ \A k, m \in Node : \/ wire'[k][m] = wire[k][m]
                              \/ k = n /\ wire'[n][m] = Append(wire[n][m], e)
        /\ UNCHANGED <<eventsIn, sent, got, dropVars>>
    BY PublishEffect
  <1>2. /\ sent \in [Node -> Seq(Event)] /\ eventsOut \in [Node -> Seq(Event)]
        /\ wire \in [Node -> [Node -> Seq(Event)]]
    BY Zenon DEF TypeOK
  <1>3. /\ Len(eventsOut[n]) \in Nat \ {0} /\ Len(eventsOut'[n]) = Len(eventsOut[n]) - 1
        /\ e = eventsOut[n][1] /\ e \in Event
        /\ \A i \in 1..Len(eventsOut'[n]) : eventsOut'[n][i] = eventsOut[n][i + 1]
        /\ \A k \in Node : k # n => eventsOut'[k] = eventsOut[k]
    BY <1>1, <1>2
  <1>4. Len(sent[n]) \in Nat /\ Len(eventsOut[n]) <= Len(sent[n])
    BY <1>2 DEF OrderInv, QueueIsRest
  <1>5. \A i \in 1..Len(eventsOut[n]) : eventsOut[n][i] = sent[n][P + i]
    BY Zenon DEF OrderInv, QueueIsRest
  <1>6. P \in Nat /\ P + 1 <= Len(sent[n]) /\ Len(sent'[n]) - Len(eventsOut'[n]) = P + 1
    <2>1. \A a \in Nat \ {0}, b \in Nat : a <= b =>
            b - a \in Nat /\ (b - a) + 1 <= b /\ b - (a - 1) = (b - a) + 1
      OBVIOUS
    <2>2. P \in Nat /\ P + 1 <= Len(sent[n]) /\ Len(sent[n]) - (Len(eventsOut[n]) - 1) = P + 1
      BY <1>3, <1>4, <2>1, Zenon
    <2> QED
      BY <1>1, <1>3, <2>2, Zenon
  <1> HIDE DEF P
  <1>7. e = sent[n][P + 1]
    <2>1. 1 \in 1..Len(eventsOut[n])
      BY <1>3
    <2> QED
      BY <1>3, <1>5, <2>1, Zenon
  <1> HIDE DEF e
  <1>8. SentOnce' /\ SentEnded' /\ Unloaded'
    <2>1. UNCHANGED <<sent, ended>>
      BY <1>1 DEF dropVars
    <2> QED
      BY <2>1, UnloadedStep DEF OrderInv, SentOnce, SentEnded
  <1>9. QueueIsRest'
    <2>1. Len(eventsOut'[n]) <= Len(sent'[n])
      <3>1. \A a, b \in Nat : a <= b => a - 1 <= b
        OBVIOUS
      <3>2. Len(eventsOut[n]) \in Nat
        BY <1>3
      <3> QED
        BY <1>1, <1>3, <1>4, <3>1, <3>2, Zenon
    <2>2. ASSUME NEW i \in 1..Len(eventsOut'[n])
          PROVE  eventsOut'[n][i] = sent'[n][(P + 1) + i]
      <3>1. i + 1 \in 1..Len(eventsOut[n]) /\ (P + 1) + i = P + (i + 1)
        BY <1>3, <1>6, <2>2, SMTT(30)
      <3> QED
        BY <1>1, <1>3, <1>5, <3>1, Zenon
    <2>3. ASSUME NEW k \in Node
          PROVE  /\ Len(eventsOut'[k]) <= Len(sent'[k])
                 /\ \A i \in 1..Len(eventsOut'[k]) :
                      eventsOut'[k][i] = sent'[k][(Len(sent'[k]) - Len(eventsOut'[k])) + i]
      <3>1. CASE k = n
        BY <1>6, <2>1, <2>2, <3>1, Zenon
      <3>2. CASE k # n
        <4>1. eventsOut'[k] = eventsOut[k] /\ sent'[k] = sent[k]
          BY <1>1, <1>3, <3>2, Zenon
        <4>2. /\ Len(eventsOut[k]) <= Len(sent[k])
              /\ \A i \in 1..Len(eventsOut[k]) :
                   eventsOut[k][i] = sent[k][(Len(sent[k]) - Len(eventsOut[k])) + i]
          BY Zenon DEF OrderInv, QueueIsRest
        <4> QED
          BY <4>1, <4>2, Zenon
      <3> QED
        BY <3>1, <3>2, Zenon
    <2> QED
      BY <2>3, Zenon DEF QueueIsRest
  <1>10. AllOrdered'
    <2>1. \A m \in Node : Arrived(m)' = Arrived(m)
      BY <1>1 DEF Arrived
    <2>2. ASSUME NEW k \in Node, NEW m \in Node
          PROVE  Ordered(k, sent'[k], Len(sent'[k]) - Len(eventsOut'[k]), Arrived(m), wire'[k][m])
      <3>1. Ordered(k, sent[k], Len(sent[k]) - Len(eventsOut[k]), Arrived(m), wire[k][m])
        BY Zenon DEF OrderInv, AllOrdered
      <3>2. CASE k # n
        BY <1>1, <1>3, <3>1, <3>2, Zenon
      <3>3. CASE k = n
        <4>1. Ordered(n, sent[n], P, Arrived(m), wire[n][m])
          BY <3>1, <3>3, Zenon DEF P
        <4>2. P <= P + 1 /\ P + 1 \in Nat /\ P <= Len(sent[n]) /\ Len(sent[n]) <= Len(sent[n])
          BY <1>4, <1>6
        <4>3. Ordered(n, sent[n], P + 1, Arrived(m), wire[n][m])
          BY <1>4, <1>6, <4>1, <4>2, OrderGrows, ZenonT(30)
        <4>4. Ordered(n, sent[n], P + 1, Arrived(m), Append(wire[n][m], e))
          <5>1. wire[n][m] \in Seq(Event) /\ sent[n][P + 1] \in Event
            BY <1>2, <1>3, <1>7, Zenon
          <5> QED
            BY <1>4, <1>6, <1>7, <4>1, <5>1, OrderPublished, Zenon
        <4> QED
          BY <1>1, <1>6, <3>3, <4>3, <4>4, Zenon
      <3> QED
        BY <3>2, <3>3, Zenon
    <2> QED
      BY <2>1, <2>2, ZenonT(30) DEF AllOrdered
  <1> QED
    BY <1>8, <1>9, <1>10, Zenon DEF OrderInv

\* A step that leaves what was sent alone keeps all but AllOrdered.
LEMMA OrderRest ==
  ASSUME TypeOK, OrderInv, [Next]_vars, UNCHANGED <<eventsOut, sent, ended>>
  PROVE  SentOnce' /\ SentEnded' /\ Unloaded' /\ QueueIsRest'
  <1>1. Unloaded'
    BY UnloadedStep
  <1>2. SentOnce /\ SentEnded /\ QueueIsRest /\ sent' = sent /\ eventsOut' = eventsOut /\ ended' = ended
    BY DEF OrderInv
  <1>3. SentOnce' /\ SentEnded'
    BY <1>2 DEF SentOnce, SentEnded
  <1>4. QueueIsRest'
    BY <1>2, Zenon DEF QueueIsRest
  <1> QED
    BY <1>1, <1>3, <1>4

\* Sequences with the same entries are the same.
LEMMA SameSequence ==
  ASSUME NEW S, NEW a \in Seq(S), NEW b \in Seq(S), Len(a) = Len(b),
         \A i \in 1..Len(a) : a[i] = b[i]
  PROVE  a = b
  <1>1. /\ a \in [1..Len(a) -> S] /\ b \in [1..Len(a) -> S]
    OBVIOUS
  <1> DEFINE D == 1..Len(a)
  <1>2. a = [i \in D |-> a[i]] /\ b = [i \in D |-> b[i]]
    BY <1>1
  <1> QED
    BY <1>2, Zenon

\* Adding at the end of the second part is adding at the end of both.
LEMMA ConcatAppend ==
  ASSUME NEW S, NEW a \in Seq(S), NEW b \in Seq(S), NEW e \in S
  PROVE  a \o Append(b, e) = Append(a \o b, e)
  <1>1. Append(b, e) \in Seq(S) /\ Len(Append(b, e)) = Len(b) + 1 /\ a \o b \in Seq(S)
    OBVIOUS
  <1>2. a \o Append(b, e) \in Seq(S) /\ Append(a \o b, e) \in Seq(S)
    BY <1>1
  <1>3. Len(a \o Append(b, e)) = Len(Append(a \o b, e))
    BY <1>1
  <1>4. ASSUME NEW i \in 1..Len(a \o Append(b, e))
        PROVE  (a \o Append(b, e))[i] = Append(a \o b, e)[i]
    BY <1>1, <1>4
  <1> QED
    BY <1>2, <1>3, <1>4, SameSequence

\* The first of a sequence may be the last of what precedes it.
LEMMA ShiftHead ==
  ASSUME NEW S, NEW a \in Seq(S), NEW b \in Seq(S), b # <<>>
  PROVE  Append(a, Head(b)) \o Tail(b) = a \o b
  <1>1. Head(b) \in S /\ Tail(b) \in Seq(S) /\ Len(Tail(b)) = Len(b) - 1 /\ Len(b) >= 1
    OBVIOUS
  <1>2. Append(a, Head(b)) \in Seq(S) /\ Len(Append(a, Head(b))) = Len(a) + 1
    BY <1>1
  <1>3. Append(a, Head(b)) \o Tail(b) \in Seq(S) /\ a \o b \in Seq(S)
    BY <1>1, <1>2
  <1>4. Len(Append(a, Head(b)) \o Tail(b)) = Len(a \o b)
    BY <1>1, <1>2
  <1>5. ASSUME NEW i \in 1..Len(a \o b)
        PROVE  (Append(a, Head(b)) \o Tail(b))[i] = (a \o b)[i]
    BY <1>1, <1>2, <1>5
  <1> QED
    BY <1>3, <1>4, <1>5, SameSequence

\* An event is taken from the wire.
LEMMA OrderTake ==
  ASSUME TypeOK, TypeOK', OrderInv, [Next]_vars, NEW n \in Node, NEW m \in Node, TakeEvent(n, m)
  PROVE  OrderInv'
  <1> DEFINE w == wire[m][n]
             e == Head(w)
             P(k) == Len(sent[k]) - Len(eventsOut[k])
  <1>1. /\ w \in Seq(Event) /\ w # <<>> /\ e \in Event /\ Tail(w) \in Seq(Event)
        /\ eventsIn' = [eventsIn EXCEPT ![n] = Append(@, e)]
        /\ wire' = [wire EXCEPT ![m][n] = Tail(w)]
        /\ UNCHANGED <<eventsOut, sent, got, missed, dropVars>>
    BY TakeEventEffect
  <1>2. /\ wire \in [Node -> [Node -> Seq(Event)]] /\ eventsIn \in [Node -> Seq(Event)]
        /\ got \in [Node -> Seq(Event)]
    BY Zenon DEF TypeOK
  <1>3. \A k, l \in Node : Ordered(k, sent[k], P(k), Arrived(l), wire[k][l])
    BY Zenon DEF OrderInv, AllOrdered
  <1>4. Home[e[2]] = m
    <2>1. 1 \in 1..Len(w) /\ e = w[1]
      BY <1>1
    <2>2. Within(sent[m], P(m), e)
      BY <1>3, <2>1, Zenon DEF Ordered
    <2>3. PICK p \in 1..P(m) : sent[m][p] = e
      BY <2>2 DEF Within
    <2>4. Len(sent[m]) \in Nat /\ Len(eventsOut[m]) \in Nat
      <3>1. sent \in [Node -> Seq(Event)] /\ eventsOut \in [Node -> Seq(Event)]
        BY Zenon DEF TypeOK
      <3> QED
        BY <3>1
    <2>5. p \in 1..Len(sent[m])
      <3>1. \A a, b \in Nat : \A i \in 1..(a - b) : i \in 1..a
        OBVIOUS
      <3> QED
        BY <2>3, <2>4, <3>1, Zenon
    <2> QED
      BY <2>3, <2>5 DEF OrderInv, SentEnded
  <1> HIDE DEF w, e
  <1>5. /\ Arrived(n)' = Append(Arrived(n), e) /\ Arrived(n) \in Seq(Event)
        /\ \A l \in Node : l # n => Arrived(l)' = Arrived(l)
    <2>1. /\ eventsIn'[n] = Append(eventsIn[n], e) /\ \A l \in Node : l # n => eventsIn'[l] = eventsIn[l]
      BY <1>1, <1>2
    <2>2. got[n] \o Append(eventsIn[n], e) = Append(got[n] \o eventsIn[n], e)
      <3> DEFINE a == got[n]
                 b == eventsIn[n]
      <3>1. a \in Seq(Event) /\ b \in Seq(Event) /\ e \in Event
        BY <1>1, <1>2, Zenon
      <3> HIDE DEF a, b
      <3>2. a \o Append(b, e) = Append(a \o b, e)
        BY <3>1, ConcatAppend
      <3> QED
        BY <3>2 DEF a, b
    <2>3. \A l \in Node : Arrived(l) = got[l] \o eventsIn[l] /\ Arrived(l)' = got[l] \o eventsIn'[l]
      BY <1>1 DEF Arrived
    <2>4. Arrived(n) \in Seq(Event)
      BY ArrivedType
    <2> QED
      BY <2>1, <2>2, <2>3, <2>4, Zenon
  <1>6. /\ wire'[m][n] = Tail(w)
        /\ \A k, l \in Node : k # m \/ l # n => wire'[k][l] = wire[k][l]
    BY <1>1, <1>2
  <1>7. ASSUME NEW k \in Node, NEW l \in Node
        PROVE  Ordered(k, sent[k], P(k), Arrived(l)', wire'[k][l])
    <2> HIDE DEF P
    <2>1. CASE l # n
      BY <1>3, <1>5, <1>6, <2>1, Zenon
    <2>2. CASE l = n /\ k # m
      <3>1. Ordered(k, sent[k], P(k), Append(Arrived(n), e), wire[k][n])
        BY <1>1, <1>3, <1>4, <1>5, <2>2, OrderOther, Zenon
      <3> QED
        BY <1>5, <1>6, <2>2, <3>1, Zenon
    <2>3. CASE l = n /\ k = m
      <3>1. Ordered(m, sent[m], P(m), Append(Arrived(n), Head(w)), Tail(w))
        <4>1. Ordered(m, sent[m], P(m), Arrived(n), w)
          BY <1>3 DEF w
        <4> QED
          BY <1>1, <1>5, <4>1, OrderTaken, Zenon
      <3> QED
        BY <1>5, <1>6, <2>3, <3>1, Zenon DEF e
    <2> QED
      BY <2>1, <2>2, <2>3, Zenon
  <1>8. AllOrdered'
    BY <1>1, <1>7, Zenon DEF AllOrdered
  <1>9. UNCHANGED <<eventsOut, sent, ended>>
    BY <1>1 DEF dropVars
  <1> QED
    BY <1>8, <1>9, OrderRest DEF OrderInv

\* An event is delivered: what has arrived is the same.
LEMMA OrderDeliver ==
  ASSUME TypeOK, TypeOK', OrderInv, [Next]_vars, NEW n \in Node, Deliver(n)
  PROVE  OrderInv'
  <1>1. /\ eventsIn[n] \in Seq(Event) /\ eventsIn[n] # <<>>
        /\ eventsIn' = [eventsIn EXCEPT ![n] = Tail(@)]
        /\ got' = [got EXCEPT ![n] = Append(@, Head(eventsIn[n]))]
        /\ UNCHANGED <<eventsOut, wire, sent, ended>>
    BY DeliverEffect
  <1>2. eventsIn \in [Node -> Seq(Event)] /\ got \in [Node -> Seq(Event)]
    BY DEF TypeOK
  <1>3. /\ eventsIn'[n] = Tail(eventsIn[n]) /\ got'[n] = Append(got[n], Head(eventsIn[n]))
        /\ \A l \in Node : l # n => eventsIn'[l] = eventsIn[l] /\ got'[l] = got[l]
    BY <1>1, <1>2
  <1>4. got'[n] \o eventsIn'[n] = got[n] \o eventsIn[n]
    BY <1>1, <1>2, <1>3, ShiftHead
  <1>5. \A l \in Node : Arrived(l)' = Arrived(l)
    BY <1>3, <1>4, Zenon DEF Arrived
  <1>6. AllOrdered'
    BY <1>1, <1>5, Zenon DEF OrderInv, AllOrdered
  <1> QED
    BY <1>1, <1>6, OrderRest, Zenon DEF OrderInv

\* A link breaks.
LEMMA OrderLose ==
  ASSUME TypeOK, TypeOK', OrderInv, [Next]_vars, NEW n \in Node, NEW m \in Node, LoseLink(n, m)
  PROVE  OrderInv'
  <1>1. /\ wire' = [wire EXCEPT ![m][n] = <<>>]
        /\ UNCHANGED <<eventsOut, eventsIn, got, sent, ended>>
    BY DEF LoseLink, dropVars
  <1>2. wire \in [Node -> [Node -> Seq(Event)]]
    BY DEF TypeOK
  <1>3. \A k, l \in Node : wire'[k][l] = wire[k][l] \/ wire'[k][l] = <<>>
    BY <1>1, <1>2
  <1>4. \A l \in Node : Arrived(l)' = Arrived(l)
    BY <1>1 DEF Arrived
  <1>5. ASSUME NEW k \in Node, NEW l \in Node
        PROVE  Ordered(k, sent[k], Len(sent[k]) - Len(eventsOut[k]), Arrived(l), wire'[k][l])
    <2>1. Ordered(k, sent[k], Len(sent[k]) - Len(eventsOut[k]), Arrived(l), wire[k][l])
      BY Zenon DEF OrderInv, AllOrdered
    <2>2. Ordered(k, sent[k], Len(sent[k]) - Len(eventsOut[k]), Arrived(l), <<>>)
      BY <2>1, OrderLost, Zenon
    <2> QED
      BY <1>3, <2>1, <2>2, Zenon
  <1>6. AllOrdered'
    BY <1>1, <1>4, <1>5, Zenon DEF AllOrdered
  <1> QED
    BY <1>1, <1>6, OrderRest DEF OrderInv

\* All steps keep the order.
LEMMA OrderStep ==
  ASSUME TypeOK, TypeOK', OrderInv, [Next]_vars
  PROVE  OrderInv'
  <1>1. CASE UNCHANGED <<eventVars, dropVars>>
    <2>1. UNCHANGED <<eventsOut, wire, eventsIn, sent, got, ended>>
      BY <1>1 DEF eventVars, dropVars
    <2>2. AllOrdered'
      BY <2>1, Zenon DEF OrderInv, AllOrdered, Arrived
    <2> QED
      BY <2>1, <2>2, OrderRest DEF OrderInv
  <1> QED
    BY <1>1, EventCases, OrderEnds, OrderPublish, OrderTake, OrderDeliver, OrderLose, Zenon

\* At first nothing was sent.
LEMMA OrderInit == Init => OrderInv
  <1> SUFFICES ASSUME Init PROVE OrderInv
    OBVIOUS
  <1>1. /\ \A n \in Node : sent[n] = <<>> /\ eventsOut[n] = <<>> /\ Arrived(n) = <<>>
        /\ \A n, m \in Node : wire[n][m] = <<>>
        /\ \A s \in SessionId : ended[s] = {}
    BY DEF Init, Arrived
  <1>2. \A n \in Node : Ordered(n, <<>>, 0, <<>>, <<>>)
    BY DEF Ordered
  <1>3. AllOrdered
    <2>1. Len(<<>>) - Len(<<>>) = 0
      OBVIOUS
    <2> SUFFICES ASSUME NEW n \in Node, NEW m \in Node
                 PROVE  Ordered(n, sent[n], Len(sent[n]) - Len(eventsOut[n]), Arrived(m), wire[n][m])
      BY Zenon DEF AllOrdered
    <2>2. sent[n] = <<>> /\ eventsOut[n] = <<>> /\ Arrived(m) = <<>> /\ wire[n][m] = <<>>
      BY <1>1
    <2>3. Ordered(n, sent[n], 0, Arrived(m), wire[n][m])
      BY <1>2, <2>2
    <2>4. Len(sent[n]) - Len(eventsOut[n]) = 0
      BY <2>1, <2>2
    <2> QED
      BY <2>3, <2>4, Zenon
  <1>4. \A n \in Node : 1..Len(sent[n]) = {} /\ 1..Len(eventsOut[n]) = {}
                        /\ Len(eventsOut[n]) <= Len(sent[n])
    BY <1>1
  <1>5. SentOnce /\ SentEnded /\ QueueIsRest
    BY <1>4, Zenon DEF SentOnce, SentEnded, QueueIsRest
  <1>6. Unloaded
    BY <1>1 DEF Unloaded
  <1> QED
    BY <1>3, <1>5, <1>6 DEF OrderInv

\* In a list without repetition, earlier means at a smaller position.
LEMMA EarlierPosition ==
  ASSUME NEW sq \in Seq(Event), \A i, j \in 1..Len(sq) : i # j => sq[i] # sq[j],
         NEW e, NEW f, Earlier(sq, e, f)
  PROVE  Position(sq, e) < Position(sq, f)
  <1>1. PICK p, q \in 1..Len(sq) : p < q /\ sq[p] = e /\ sq[q] = f
    BY DEF Earlier
  <1>2. DOMAIN sq = 1..Len(sq)
    OBVIOUS
  <1>3. Position(sq, e) \in 1..Len(sq) /\ sq[Position(sq, e)] = e
    BY <1>1, <1>2, Zenon DEF Position
  <1>4. Position(sq, f) \in 1..Len(sq) /\ sq[Position(sq, f)] = f
    BY <1>1, <1>2, Zenon DEF Position
  <1>5. Position(sq, e) = p /\ Position(sq, f) = q
    BY <1>1, <1>3, <1>4, Zenon
  <1> QED
    BY <1>1, <1>5, Zenon

\* The invariant says that events come in order.
LEMMA OrderImplies ==
  ASSUME TypeOK, OrderInv
  PROVE  InOrder
  <1> SUFFICES ASSUME NEW n \in Node, NEW m \in Node
               PROVE  LET come == Arrived(m) \o wire[n][m] IN
                      \A i, j \in DOMAIN come :
                        i < j /\ Home[come[i][2]] = n /\ Home[come[j][2]] = n =>
                          Position(sent[n], come[i]) < Position(sent[n], come[j])
    BY Zenon DEF InOrder
  <1> DEFINE A == Arrived(m)
             w == wire[n][m]
             come == A \o w
  <1>1. A \in Seq(Event) /\ w \in Seq(Event) /\ sent[n] \in Seq(Event)
    <2>1. wire \in [Node -> [Node -> Seq(Event)]] /\ sent \in [Node -> Seq(Event)]
      BY Zenon DEF TypeOK
    <2> QED
      BY <2>1, ArrivedType
  <1>2. Ordered(n, sent[n], Len(sent[n]) - Len(eventsOut[n]), A, w)
    BY Zenon DEF OrderInv, AllOrdered
  <1> HIDE DEF A, w
  <1>3. /\ DOMAIN come = 1..(Len(A) + Len(w)) /\ Len(A) \in Nat /\ Len(w) \in Nat
        /\ \A i \in 1..Len(A) : come[i] = A[i]
        /\ \A i \in 1..Len(w) : come[Len(A) + i] = w[i]
    BY <1>1
  <1> HIDE DEF come
  <1>4. ASSUME NEW i \in DOMAIN come, NEW j \in DOMAIN come, i < j,
               Home[come[i][2]] = n, Home[come[j][2]] = n
        PROVE  Earlier(sent[n], come[i], come[j])
    <2>1. \A k \in DOMAIN come : k \in 1..Len(A) \/ \E l \in 1..Len(w) : k = Len(A) + l
      <3>1. ASSUME NEW k \in DOMAIN come, k \notin 1..Len(A)
            PROVE  k - Len(A) \in 1..Len(w) /\ k = Len(A) + (k - Len(A))
        BY <1>3, <3>1, SMTT(30)
      <3> QED
        BY <3>1
    <2>2. CASE j \in 1..Len(A)
      <3>1. i \in 1..Len(A)
        BY <1>3, <1>4, <2>2
      <3> QED
        BY <1>2, <1>3, <1>4, <2>2, <3>1, Zenon DEF Ordered
    <2>3. ASSUME NEW l \in 1..Len(w), j = Len(A) + l
          PROVE  Earlier(sent[n], come[i], come[j])
      <3>1. CASE i \in 1..Len(A)
        BY <1>2, <1>3, <1>4, <2>3, <3>1, ZenonT(30) DEF Ordered
      <3>2. ASSUME NEW k \in 1..Len(w), i = Len(A) + k
            PROVE  Earlier(sent[n], come[i], come[j])
        <4>1. k < l
          BY <1>3, <1>4, <2>3, <3>2
        <4> QED
          BY <1>2, <1>3, <2>3, <3>2, <4>1, Zenon DEF Ordered
      <3> QED
        BY <2>1, <3>1, <3>2
    <2> QED
      BY <2>1, <2>2, <2>3
  <1>5. \A i, j \in 1..Len(sent[n]) : i # j => sent[n][i] # sent[n][j]
    BY DEF OrderInv, SentOnce
  <1>6. ASSUME NEW i \in DOMAIN come, NEW j \in DOMAIN come, i < j,
               Home[come[i][2]] = n, Home[come[j][2]] = n
        PROVE  Position(sent[n], come[i]) < Position(sent[n], come[j])
    BY <1>1, <1>4, <1>5, <1>6, EarlierPosition, Zenon
  <1> QED
    BY <1>6, Zenon DEF come, A, w

\* Events of a node arrive in the order in which it published them, and none
\* arrives twice, through _events_out, the sockets, _events_in and the delivery
\* thread, whatever link breaks and whichever node stops.
THEOREM EventsInOrder == Spec => []InOrder
  <1>1. Init => TypeOK /\ OrderInv
    BY InitType, OrderInit
  <1>2. TypeOK /\ OrderInv /\ [Next]_vars => (TypeOK /\ OrderInv)'
    BY TypeStep, OrderStep
  <1>3. TypeOK /\ OrderInv => InOrder
    BY OrderImplies
  <1> QED
    BY <1>1, <1>2, <1>3, PTL DEF Spec
=============================================================================
