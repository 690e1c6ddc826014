---------------------------- MODULE EventExchange ---------------------------
(***************************************************************************)
(* Events between node managers: subscriptions, the threads that publish,  *)
(* receive and deliver, and the deployment of sessions that spread over    *)
(* several nodes (node_manager.py, session.py, composite_manager.py).  A   *)
(* drop is abstracted to what other nodes see of it: whether it has ended, *)
(* and whom it has heard.                                                  *)
(***************************************************************************)
EXTENDS Integers, Sequences, FiniteSets, Functions

CONSTANTS
  Node, SessionId,
  Drop,         \* the drops of the graph that every session executes
  Data,         \* those that are DataDROPs
  Home,         \* Drop -> the node it lives on
  Rel,          \* <<u, v>>: v waits for the end of u
  LoadFaults,   \* <<n, s>>: the part of s on n may fail to load
  FaultyNodes,  \* where something may go wrong besides
  MaxFaults     \* bound: nodes shut down, links lost, sessions destroyed

ASSUME ExchangeAssumption ==
  /\ \A S \in (SUBSET Node) \cup (SUBSET Drop) : Cardinality(S) \in Nat    \* both are finite
  /\ Data \subseteq Drop /\ Home \in [Drop -> Node] /\ Rel \subseteq Drop \X Drop
  /\ LoadFaults \subseteq Node \X SessionId
  /\ FaultyNodes \subseteq Node /\ MaxFaults \in Nat

VARIABLES
  stage,          \* deploySession of the composite manager, per session
  todo,           \* nodes that have not answered in this stage
  refused,        \* did a node fail in this stage?
  status,         \* the session on a node ("none": destroyed)
  triggered,      \* sessions of a node whose roots were triggered
  subscribed,     \* sessions of a node that stored their _dropsubs
  asking,         \* peers add_node_subscriptions still has to subscribe to
  answered,       \* finished_evt of the subscription it waits for
  subscriptions,  \* _subscriptions: <<peer, session of the waiting caller>>
  pending,        \* pending_connections: peer -> caller, as a set of pairs
  subEndpoints,   \* sub_endpoints
  link,           \* link[n][m]: the SUB socket of n towards the PUB socket of m
  monitor,        \* messages of the monitor socket
  eventsOut, wire, eventsIn,
  running,        \* _pubsub_running
  deaf,           \* nodes whose delivery thread died of an exception
  ended, heard,   \* per session: drops that ended, pairs of Rel handled
  sent, got,      \* history: all a node published, all it took to deliver
  missed,         \* history: was an event sent before a subscription was known?
  faults

deployVars == <<stage, todo, refused, status, triggered>>
callerVars == <<subscribed, asking, answered>>
recvVars == <<subscriptions, pending, subEndpoints, monitor>>
eventVars == <<eventsOut, wire, eventsIn, sent, got, missed>>
dropVars == <<ended, heard, deaf>>
vars == <<deployVars, callerVars, recvVars, link, eventVars, running, dropVars, faults>>

Linked == {"connected", "live"}
Event == SessionId \X Drop
In(v) == {u \in Drop : <<u, v>> \in Rel}
Local(n) == {u \in Drop : Home[u] = n}
\* The orders in which a loop may go through a set.
Orders(S) == Bijection(1..Cardinality(S), S)
Related(n, m) == n # m /\ \E r \in Rel : {Home[r[1]], Home[r[2]]} = {n, m}
Peers == [n \in Node |-> {m \in Node : Related(n, m)}]
Wired == {n \in Node : Peers[n] # {}}
\* The local drops of n that wait for the remote drop u (_dropsubs).
Targets(n, u) == {v \in Local(n) : <<u, v>> \in Rel /\ Home[u] # n}

Init ==
  /\ stage = [s \in SessionId |-> "idle"]
  /\ todo = [s \in SessionId |-> {}]
  /\ refused = [s \in SessionId |-> FALSE]
  /\ status = [n \in Node |-> [s \in SessionId |->
                 IF Local(n) = {} THEN "PRISTINE" ELSE "BUILDING"]]
  /\ triggered = [n \in Node |-> {}]
  /\ subscribed = [n \in Node |-> {}]
  /\ asking = [n \in Node |-> [s \in SessionId |-> <<>>]]
  /\ answered = [n \in Node |-> {}]
  /\ subscriptions = [n \in Node |-> <<>>]
  /\ pending = [n \in Node |-> {}]
  /\ subEndpoints = [n \in Node |-> {}]
  /\ monitor = [n \in Node |-> <<>>]
  /\ link = [n \in Node |-> [m \in Node |-> "none"]]
  /\ eventsOut = [n \in Node |-> <<>>]
  /\ wire = [n \in Node |-> [m \in Node |-> <<>>]]
  /\ eventsIn = [n \in Node |-> <<>>]
  /\ sent = [n \in Node |-> <<>>] /\ got = [n \in Node |-> <<>>]
  /\ missed = FALSE
  /\ running = [n \in Node |-> TRUE]
  /\ deaf = {}
  /\ ended = [s \in SessionId |-> {}] /\ heard = [s \in SessionId |-> {}]
  /\ faults = 0

-----------------------------------------------------------------------------
(***************************************************************************)
(* deploySession of the composite manager: subscribe on the nodes that     *)
(* have relationships, deploy on all nodes, trigger the roots.             *)
(***************************************************************************)
Enter(s, st) ==
  /\ stage' = [stage EXCEPT ![s] = st]
  /\ todo' = [todo EXCEPT ![s] =
       CASE st = "subscribing" -> Wired
         [] st = "deploying" -> Node
         [] st = "triggering" -> {Home[u] : u \in {v \in Drop : In(v) = {}}}
         [] OTHER -> {}]

DeploySession(s) ==
  /\ stage[s] = "idle"
  /\ Enter(s, IF Rel = {} \/ Wired = {} THEN "deploying" ELSE "subscribing")
  /\ UNCHANGED <<refused, status, triggered, callerVars, recvVars, link, eventVars, running,
                 dropVars, faults>>

After(st) == CASE st = "subscribing" -> "deploying"
               [] st = "deploying" -> "triggering"
               [] OTHER -> "done"

\* replicate waits for all nodes, and raises if one of them failed.
NextStage(s) ==
  /\ stage[s] \in {"subscribing", "deploying", "triggering"}
  /\ todo[s] = {}
  /\ Enter(s, IF refused[s] THEN "failed" ELSE After(stage[s]))
  /\ UNCHANGED <<refused, status, triggered, callerVars, recvVars, link, eventVars, running,
                 dropVars, faults>>

\* Node n has not yet been called in this stage of s.
Called(n, s, st) == stage[s] = st /\ n \in todo[s] /\ asking[n][s] = <<>>

Answer(n, s, ok) ==
  /\ todo' = [todo EXCEPT ![s] = @ \ {n}]
  /\ refused' = [refused EXCEPT ![s] = @ \/ ~ok]
  /\ UNCHANGED stage

\* The manager of n is gone.
Unreachable(n, s) ==
  /\ \E st \in {"subscribing", "deploying", "triggering"} : Called(n, s, st)
  /\ ~running[n]
  /\ Answer(n, s, FALSE)
  /\ UNCHANGED <<status, triggered, callerVars, recvVars, link, eventVars, running,
                 dropVars, faults>>

\* subscribe: the request is queued, and the caller waits for its event.
Subscribe(n, s, peers) ==
  /\ asking' = [asking EXCEPT ![n][s] = peers]
  /\ subscriptions' = IF peers = <<>> THEN subscriptions
       ELSE [subscriptions EXCEPT ![n] = Append(@, <<Head(peers), s>>)]

AddNodeSubscriptions(n, s) ==
  /\ Called(n, s, "subscribing") /\ running[n]
  /\ subscribed' = [subscribed EXCEPT ![n] = @ \cup {s}]
  /\ \E peers \in Orders(Peers[n]) : Subscribe(n, s, peers)
  /\ UNCHANGED <<deployVars, answered, pending, subEndpoints, monitor, link, eventVars,
                 running, dropVars, faults>>

\* The wait is over: the next peer, or the answer.
Subscribed(n, s) ==
  /\ asking[n][s] # <<>> /\ s \in answered[n]
  /\ answered' = [answered EXCEPT ![n] = @ \ {s}]
  /\ Subscribe(n, s, Tail(asking[n][s]))
  /\ IF Len(asking[n][s]) = 1 THEN Answer(n, s, TRUE) ELSE UNCHANGED <<stage, todo, refused>>
  /\ UNCHANGED <<status, triggered, subscribed, pending, subEndpoints, monitor, link,
                 eventVars, running, dropVars, faults>>

\* Mutant: wait() has no timeout.
WaitForever(n, s) == FALSE /\ UNCHANGED vars

\* Five seconds have passed: subscribe raises.
TimedOut(n, s) ==
  /\ asking[n][s] # <<>> /\ s \notin answered[n]
  /\ asking' = [asking EXCEPT ![n][s] = <<>>]
  /\ Answer(n, s, FALSE)
  /\ UNCHANGED <<status, triggered, subscribed, answered, recvVars, link, eventVars,
                 running, dropVars, faults>>

\* The drops of U end on n: their listeners publish, local drops hear directly.
End(n, s, us) ==
  LET U == Range(us) IN
  /\ ended' = [ended EXCEPT ![s] = @ \cup U]
  /\ heard' = [heard EXCEPT ![s] = @ \cup {r \in Rel : r[1] \in U /\ Home[r[2]] = n}]
  /\ eventsOut' = [eventsOut EXCEPT ![n] = @ \o [i \in DOMAIN us |-> <<s, us[i]>>]]
  /\ sent' = [sent EXCEPT ![n] = @ \o [i \in DOMAIN us |-> <<s, us[i]>>]]

\* Mutant: the drops asked for are moved to COMPLETED by each node at once.
DeployAndTrigger(n, s) ==
  /\ Called(n, s, "deploying") /\ running[n]
  /\ status[n][s] = "BUILDING"
  /\ status' = [status EXCEPT ![n][s] = "RUNNING"]
  /\ triggered' = [triggered EXCEPT ![n] = @ \cup {s}]
  /\ Answer(n, s, TRUE)
  /\ UNCHANGED <<callerVars, recvVars, link, eventVars, running, dropVars, faults>>

\* deploy creates and registers the drops; nothing to create: it is over.
Deploy(n, s) ==
  /\ Called(n, s, "deploying") /\ running[n]
  /\ \/ /\ status[n][s] = "BUILDING"
        /\ status' = [status EXCEPT ![n][s] = "DEPLOYING"]
        /\ UNCHANGED <<stage, todo, refused>>
     \/ /\ status[n][s] = "PRISTINE"
        /\ status' = [status EXCEPT ![n][s] = "FINISHED"]
        /\ Answer(n, s, TRUE)
  /\ UNCHANGED <<triggered, callerVars, recvVars, link, eventVars, running, dropVars, faults>>

\* Then it attaches the proxies, and runs the session, or fails all drops if
\* some of them could not be loaded.
Deployed(n, s) ==
  /\ stage[s] = "deploying" /\ running[n] /\ status[n][s] = "DEPLOYING"
  /\ \/ /\ status' = [status EXCEPT ![n][s] = "RUNNING"]
        /\ UNCHANGED <<ended, heard, eventsOut, sent>>
     \/ /\ <<n, s>> \in LoadFaults
        /\ status' = [status EXCEPT ![n][s] = "FAILED"]
        /\ \E us \in Orders(Local(n)) : End(n, s, us)
  /\ Answer(n, s, TRUE)
  /\ UNCHANGED <<triggered, callerVars, recvVars, link, wire, eventsIn, got, missed, running,
                 deaf, faults>>

\* trigger_drops starts a thread, which ends the roots one by one (below).
TriggerDrops(n, s) ==
  /\ Called(n, s, "triggering") /\ running[n]
  /\ triggered' = [triggered EXCEPT ![n] = IF status[n][s] = "FAILED" THEN @ ELSE @ \cup {s}]
  /\ Answer(n, s, TRUE)
  /\ UNCHANGED <<status, callerVars, recvVars, link, eventVars, running, dropVars, faults>>

\* A root that was triggered, or a drop that has heard from all it waits for.
EndDrop(s, v) ==
  LET n == Home[v] IN
  /\ running[n] /\ status[n][s] = "RUNNING" /\ v \notin ended[s]
  /\ IF In(v) = {} THEN s \in triggered[n]
     ELSE \A u \in In(v) : <<u, v>> \in heard[s]
  /\ End(n, s, <<v>>)
  /\ UNCHANGED <<deployVars, callerVars, recvVars, link, wire, eventsIn, got, missed, running,
                 deaf, faults>>

-----------------------------------------------------------------------------
(***************************************************************************)
(* The event threads of a node, and the sockets they use.                  *)
(***************************************************************************)
\* _receive_events, first part: a subscription was requested.  A second connect
\* of a SUB socket to one endpoint does nothing, and the later caller replaces
\* the earlier one in pending_connections.
TakeSubscription(n) ==
  /\ running[n] /\ subscriptions[n] # <<>>
  /\ LET m == Head(subscriptions[n])[1]
         s == Head(subscriptions[n])[2]
     IN IF m \in subEndpoints[n]
        THEN /\ answered' = [answered EXCEPT ![n] = @ \cup {s}]
             /\ UNCHANGED <<pending, link>>
        ELSE /\ pending' = [pending EXCEPT ![n] = {p \in @ : p[1] # m} \cup {<<m, s>>}]
             /\ link' = [link EXCEPT ![n][m] = IF @ = "none" THEN "connecting" ELSE @]
             /\ UNCHANGED answered
  /\ subscriptions' = [subscriptions EXCEPT ![n] = Tail(@)]
  /\ UNCHANGED <<deployVars, subscribed, asking, subEndpoints, monitor, eventVars,
                 running, dropVars, faults>>

\* Second part: the monitor tells of a connection (all else it tells is dropped).
TakeMonitor(n) ==
  /\ running[n] /\ monitor[n] # <<>>
  /\ LET m == Head(monitor[n]) IN
     /\ subEndpoints' = [subEndpoints EXCEPT ![n] = @ \cup {m}]
     /\ answered' = [answered EXCEPT ![n] = @ \cup {p[2] : p \in {q \in pending[n] : q[1] = m}}]
     /\ pending' = [pending EXCEPT ![n] = {p \in @ : p[1] # m}]
  /\ monitor' = [monitor EXCEPT ![n] = Tail(@)]
  /\ UNCHANGED <<deployVars, subscribed, asking, subscriptions, link, eventVars, running,
                 dropVars, faults>>

\* Mutant: the events waiting to be delivered are a stack.
TakeEventLast(n, m) ==
  /\ running[n] /\ wire[m][n] # <<>>
  /\ eventsIn' = [eventsIn EXCEPT ![n] = <<Head(wire[m][n])>> \o @]
  /\ wire' = [wire EXCEPT ![m][n] = Tail(@)]
  /\ UNCHANGED <<deployVars, callerVars, recvVars, link, eventsOut, sent, got, missed, running,
                 dropVars, faults>>

\* Third part: an event came in from m.
TakeEvent(n, m) ==
  /\ running[n] /\ wire[m][n] # <<>>
  /\ eventsIn' = [eventsIn EXCEPT ![n] = Append(@, Head(wire[m][n]))]
  /\ wire' = [wire EXCEPT ![m][n] = Tail(@)]
  /\ UNCHANGED <<deployVars, callerVars, recvVars, link, eventsOut, sent, got, missed, running,
                 dropVars, faults>>

\* External: the SUB socket of n reaches m, and its monitor hears of it.
Connect(n, m) ==
  /\ link[n][m] = "connecting" /\ running[n] /\ running[m]
  /\ link' = [link EXCEPT ![n][m] = "connected"]
  /\ monitor' = [monitor EXCEPT ![n] = Append(@, m)]
  /\ UNCHANGED <<deployVars, callerVars, subscriptions, pending, subEndpoints, eventVars,
                 running, dropVars, faults>>

\* Mutant: a high-water mark of one event.
PublishOrDrop(n) ==
  /\ running[n] /\ eventsOut[n] # <<>>
  /\ wire' = [wire EXCEPT ![n] = [m \in Node |->
       IF link[m][n] \in Linked /\ @[m] = <<>> THEN <<Head(eventsOut[n])>> ELSE @[m]]]
  /\ link' = [m \in Node |-> [link[m] EXCEPT ![n] = IF @ = "connected" THEN "live" ELSE @]]
  /\ eventsOut' = [eventsOut EXCEPT ![n] = Tail(@)]
  /\ UNCHANGED <<deployVars, callerVars, recvVars, eventsIn, sent, got, missed, running,
                 dropVars, faults>>

\* _publish_events: the PUB socket sends to the subscribers it knows.  A SUB
\* socket is connected a little before the PUB socket knows its subscription:
\* a subscriber that has only just connected may miss the event.
Publish(n) ==
  /\ running[n] /\ eventsOut[n] # <<>>
  /\ \E late \in SUBSET {m \in Node : link[m][n] = "connected"} :
       /\ wire' = [wire EXCEPT ![n] = [m \in Node |->
            IF link[m][n] \in Linked /\ m \notin late
            THEN Append(@[m], Head(eventsOut[n])) ELSE @[m]]]
       /\ link' = [m \in Node |-> [link[m] EXCEPT ![n] =
            IF @ = "connected" /\ m \notin late THEN "live" ELSE @]]
       /\ missed' = (missed \/ \E m \in late : Targets(m, Head(eventsOut[n])[2]) # {})
  /\ eventsOut' = [eventsOut EXCEPT ![n] = Tail(@)]
  /\ UNCHANGED <<deployVars, callerVars, recvVars, eventsIn, sent, got, running,
                 dropVars, faults>>

\* handleEvent of a data drop raises when more producers finished than it has;
\* remote producers are attached at the end of deploy.
Raises(n, s, v) ==
  /\ v \in Data
  /\ Cardinality({u \in In(v) : <<u, v>> \in heard[s]}) + 1
       > Cardinality({u \in In(v) : Home[u] = n \/ status[n][s] # "DEPLOYING"})

\* _deliver_events: unknown sessions and drops nobody waits for are ignored; an
\* exception (a target that is not registered yet, or that raises) ends the
\* thread.
Deliver(n) ==
  /\ running[n] /\ n \notin deaf /\ eventsIn[n] # <<>>
  /\ LET s == Head(eventsIn[n])[1]
         u == Head(eventsIn[n])[2]
         known == status[n][s] # "none" /\ s \in subscribed[n]
         targets == IF known THEN Targets(n, u) ELSE {}
         bad == IF status[n][s] = "BUILDING" THEN targets
                ELSE {v \in targets : Raises(n, s, v)}
     IN \E told \in {T \in SUBSET (targets \ bad) : bad = {} => T = targets} :
          /\ heard' = [heard EXCEPT ![s] = @ \cup ({u} \X told)]
          /\ deaf' = IF bad = {} THEN deaf ELSE deaf \cup {n}
  /\ eventsIn' = [eventsIn EXCEPT ![n] = Tail(@)]
  /\ got' = [got EXCEPT ![n] = Append(@, Head(eventsIn[n]))]
  /\ UNCHANGED <<deployVars, callerVars, recvVars, link, eventsOut, wire, sent, missed, running,
                 ended, faults>>

-----------------------------------------------------------------------------
(***************************************************************************)
(* What can go wrong, and the whole.                                       *)
(***************************************************************************)
Fault(n) == n \in FaultyNodes /\ faults < MaxFaults /\ faults' = faults + 1

\* shutdown: the threads stop, and what is queued stays where it is.  Flushing
\* pending_connections raises (its keys are strings), so nobody is answered.
Shutdown(n) ==
  /\ Fault(n) /\ running[n]
  /\ running' = [running EXCEPT ![n] = FALSE]
  /\ UNCHANGED <<deployVars, callerVars, recvVars, link, eventVars, dropVars>>

\* External: the connection breaks, what was under way is lost, and the SUB
\* socket connects again by itself.
LoseLink(n, m) ==
  /\ Fault(n) /\ link[n][m] \in Linked
  /\ link' = [link EXCEPT ![n][m] = "connecting"]
  /\ wire' = [wire EXCEPT ![m][n] = <<>>]
  /\ UNCHANGED <<deployVars, callerVars, recvVars, eventsOut, eventsIn, sent, got, missed, running,
                 dropVars>>

DestroySession(n, s) ==
  /\ Fault(n) /\ running[n] /\ stage[s] \in {"done", "failed"} /\ status[n][s] # "none"
  /\ status' = [status EXCEPT ![n][s] = "none"]
  /\ UNCHANGED <<stage, todo, refused, triggered, callerVars, recvVars, link, eventVars,
                 running, dropVars>>

Work ==
  \/ \E s \in SessionId : NextStage(s) \/ \E v \in Drop : EndDrop(s, v)
  \/ \E n \in Node, s \in SessionId :
       \/ Unreachable(n, s) \/ AddNodeSubscriptions(n, s) \/ Subscribed(n, s)
       \/ TimedOut(n, s) \/ Deploy(n, s) \/ Deployed(n, s) \/ TriggerDrops(n, s)
  \/ \E n \in Node :
       TakeSubscription(n) \/ TakeMonitor(n) \/ Publish(n) \/ Deliver(n)
  \/ \E n, m \in Node : Connect(n, m) \/ TakeEvent(n, m)

Next ==
  \/ Work
  \/ \E s \in SessionId : DeploySession(s)
  \/ \E n \in Node : Shutdown(n)
  \/ \E n, m \in Node : LoseLink(n, m)
  \/ \E n \in Node, s \in SessionId : DestroySession(n, s)

\* Threads are scheduled and sockets connect; nobody is bound to deploy.  All
\* that is set off ends, so fairness of the whole is fairness of each part.
Spec == Init /\ [][Next]_vars /\ WF_vars(Work)

-----------------------------------------------------------------------------
(***************************************************************************)
(* Properties                                                              *)
(***************************************************************************)
Stages == {"idle", "subscribing", "deploying", "triggering", "done", "failed"}
Statuses == {"none", "PRISTINE", "BUILDING", "DEPLOYING", "RUNNING", "FAILED", "FINISHED"}

\* The type invariant of the exchange.
TypeOK ==
  /\ stage \in [SessionId -> Stages] /\ todo \in [SessionId -> SUBSET Node]
  /\ refused \in [SessionId -> BOOLEAN]
  /\ status \in [Node -> [SessionId -> Statuses]]
  /\ triggered \in [Node -> SUBSET SessionId]
  /\ subscribed \in [Node -> SUBSET SessionId] /\ answered \in [Node -> SUBSET SessionId]
  /\ asking \in [Node -> [SessionId -> Seq(Node)]]
  /\ subscriptions \in [Node -> Seq(Node \X SessionId)]
  /\ pending \in [Node -> SUBSET (Node \X SessionId)]
  /\ subEndpoints \in [Node -> SUBSET Node] /\ monitor \in [Node -> Seq(Node)]
  /\ link \in [Node -> [Node -> Linked \cup {"none", "connecting"}]]
  /\ eventsOut \in [Node -> Seq(Event)] /\ eventsIn \in [Node -> Seq(Event)]
  /\ wire \in [Node -> [Node -> Seq(Event)]]
  /\ sent \in [Node -> Seq(Event)] /\ got \in [Node -> Seq(Event)]
  /\ missed \in BOOLEAN /\ running \in [Node -> BOOLEAN] /\ deaf \subseteq Node
  /\ heard \in [SessionId -> SUBSET Rel] /\ ended \in [SessionId -> SUBSET Drop]
  /\ faults \in 0..MaxFaults

\* An event that waits to be published finds the nodes that need it connected,
\* subscribed, and deployed (unless a node has failed to load): the order of the
\* stages of deploySession is what makes "everything wired up".
WiredUp ==
  faults = 0 => \A n, m \in Node : \A i \in DOMAIN eventsOut[n] :
    LET s == eventsOut[n][i][1] IN
    Targets(m, eventsOut[n][i][2]) # {} =>
      /\ link[m][n] \in Linked /\ s \in subscribed[m]
      /\ \/ \E k \in Node : status[k][s] = "FAILED"
         \/ status[m][s] \in {"RUNNING", "FAILED"}

Arrived(m) == got[m] \o eventsIn[m]
Position(seq, e) == CHOOSE i \in DOMAIN seq : seq[i] = e

\* What a node takes from another one comes in the order of publication and
\* never twice, through three queues and a socket, whatever is lost between.
InOrder ==
  \A n, m \in Node :
    LET come == Arrived(m) \o wire[n][m] IN
    \A i, j \in DOMAIN come : i < j /\ Home[come[i][2]] = n /\ Home[come[j][2]] = n =>
      Position(sent[n], come[i]) < Position(sent[n], come[j])

\* A deployment comes to an end, whichever peers are gone, and even if another
\* caller took its place in pending_connections (subscribe's timeout).
DeploymentsEnd == \A s \in SessionId : stage[s] # "idle" ~> stage[s] \in {"done", "failed"}

\* A session that was deployed runs to its end over all its nodes, unless a
\* fault occurred, a delivery thread has died, or an event was too early for a
\* fresh subscription (publish_event to handleEvent).
Completes ==
  \A s \in SessionId :
    stage[s] = "done" ~> ended[s] = Drop \/ faults > 0 \/ deaf # {} \/ missed

\* No event is too early for a subscription.  TLC refutes this: CONNECTED is
\* all the receiver waits for.  See the README.
NoneMissed == faults = 0 => ~missed

\* A caller that waits is known to the receiver thread.  TLC refutes this with
\* two sessions: see the README.
NoForgottenCaller ==
  \A n \in Node, s \in SessionId : asking[n][s] # <<>> /\ s \notin answered[n] =>
    LET waiter == <<Head(asking[n][s]), s>> IN
    waiter \in pending[n] \/ waiter \in Range(subscriptions[n])

\* Sessions are independent: one whose drops could all be loaded runs to its
\* end, whatever happens to the others.  TLC refutes this when MaxFaults = 0:
\* see the README.
SessionsIndependent ==
  \A s \in SessionId :
    stage[s] = "done" /\ (\A n \in Node : status[n][s] # "FAILED")
      ~> ended[s] = Drop \/ faults > 0 \/ missed
=============================================================================
