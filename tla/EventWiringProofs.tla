------------------------- MODULE EventWiringProofs --------------------------
(***************************************************************************)
(* What EventExchange has wired and deployed before an event goes out, for *)
(* every set of nodes, sessions and drops, as long as no fault occurs.     *)
(***************************************************************************)
EXTENDS EventExchangeProofs

-----------------------------------------------------------------------------
(***************************************************************************)
(* The sequences that stand for the code's lists and queues.               *)
(***************************************************************************)
\* What is first in a queue or in a list of peers is a member of it.
LEMMA FirstIn ==
  ASSUME NEW T, NEW q \in Seq(T), q # <<>>
  PROVE  Head(q) \in T
  OBVIOUS

\* What is first in a queue comes next after what was taken out of it.
LEMMA FirstAfter ==
  ASSUME NEW T, NEW a \in Seq(T), NEW b \in Seq(T), b # <<>>
  PROVE  Len(a) + 1 \in 1..Len(a \o b) /\ (a \o b)[Len(a) + 1] = Head(b)
  OBVIOUS

\* A position among what has left a queue of a, b of which are left, and one
\* among those left, are positions of what was put in.
LEMMA Positions ==
  ASSUME NEW a \in Nat, NEW b \in Nat, b <= a
  PROVE  1..(a - b) \subseteq 1..a /\ \A x \in 1..b : (a - b) + x \in 1..a
  OBVIOUS

\* The length of a queue is a number.
LEMMA LengthNat ==
  ASSUME NEW T, NEW q \in Seq(T)
  PROVE  Len(q) \in Nat /\ DOMAIN q = 1..Len(q) /\ \A i \in 1..Len(q) : q[i] \in T
  OBVIOUS

\* The parts of a request.
LEMMA PairParts ==
  ASSUME NEW a, NEW b
  PROVE  <<a, b>>[1] = a /\ <<a, b>>[2] = b
  OBVIOUS

\* An empty queue has no positions.
LEMMA EmptyQueue == Len(<<>>) = 0 /\ 1..0 = {} /\ DOMAIN <<>> = {}
  OBVIOUS

\* A fault is counted.
LEMMA FaultCounts ==
  ASSUME TypeOK, NEW n, Fault(n)
  PROVE  faults' = faults + 1 /\ faults' # faults /\ faults' # 0
  BY DEF Fault, TypeOK

\* What a caller asks for is a node.
LEMMA AskedNode ==
  ASSUME TypeOK, NEW k \in Node, NEW t \in SessionId, asking[k][t] # <<>>
  PROVE  Head(asking[k][t]) \in Node
  <1>1. asking[k][t] \in Seq(Node)
    BY DEF TypeOK
  <1> QED
    BY <1>1, FirstIn, Zenon

\* An event that waits to be delivered, or to be published, tells of a drop that
\* has ended.
LEMMA ArrivedEnded ==
  ASSUME TypeOK, OrderInv, NEW n \in Node, eventsIn[n] # <<>>
  PROVE  Head(eventsIn[n])[2] \in ended[Head(eventsIn[n])[1]]
  <1> DEFINE e == Head(eventsIn[n])
             i == Len(got[n]) + 1
             h == Home[e[2]]
  <1>1. got[n] \in Seq(Event) /\ eventsIn[n] \in Seq(Event)
    BY DEF TypeOK
  <1>2. e \in Event /\ i \in 1..Len(Arrived(n)) /\ Arrived(n)[i] = e
    <2>1. e \in Event
      BY <1>1, FirstIn, Zenon
    <2> QED
      BY <1>1, <2>1, FirstAfter, Zenon DEF Arrived
  <1>3. h \in Node
    BY <1>2, ExchangeAssumption, Zenon DEF Event
  <1>4. sent[h] \in Seq(Event) /\ eventsOut[h] \in Seq(Event)
    BY <1>3, Zenon DEF TypeOK
  <1> DEFINE k == Len(sent[h]) - Len(eventsOut[h])
  <1>5. Ordered(h, sent[h], k, Arrived(n), wire[h][n])
    BY <1>3, Zenon DEF OrderInv, AllOrdered
  <1>6. 1..k \subseteq 1..Len(sent[h])
    <2>1. Len(sent[h]) \in Nat /\ Len(eventsOut[h]) \in Nat
      BY <1>4, LengthNat, Zenon
    <2>2. Len(eventsOut[h]) <= Len(sent[h])
      BY <1>3, Zenon DEF OrderInv, QueueIsRest
    <2> QED
      BY <2>1, <2>2, Positions, Zenon
  <1> HIDE DEF e, i, h, k
  <1>7. Within(sent[h], k, e)
    BY <1>2, <1>5, Zenon DEF Ordered, h
  <1>8. PICK p \in 1..Len(sent[h]) : sent[h][p] = e
    BY <1>6, <1>7 DEF Within
  <1>9. sent[h][p][2] \in ended[sent[h][p][1]]
    BY <1>3 DEF OrderInv, SentEnded
  <1>10. e[2] \in ended[e[1]]
    BY <1>8, <1>9
  <1> QED
    BY <1>10 DEF e

LEMMA QueuedEnded ==
  ASSUME TypeOK, OrderInv, NEW n \in Node, NEW i \in DOMAIN eventsOut[n]
  PROVE  /\ eventsOut[n][i] \in Event
         /\ Home[eventsOut[n][i][2]] = n /\ eventsOut[n][i][2] \in ended[eventsOut[n][i][1]]
  <1>1. sent[n] \in Seq(Event) /\ eventsOut[n] \in Seq(Event)
    BY DEF TypeOK
  <1>2. i \in 1..Len(eventsOut[n]) /\ eventsOut[n][i] \in Event
    BY <1>1, LengthNat, Zenon
  <1> DEFINE j == (Len(sent[n]) - Len(eventsOut[n])) + i
  <1>3. Len(eventsOut[n]) <= Len(sent[n]) /\ eventsOut[n][i] = sent[n][j]
    BY <1>2, Zenon DEF OrderInv, QueueIsRest
  <1>4. j \in 1..Len(sent[n])
    <2>1. Len(sent[n]) \in Nat /\ Len(eventsOut[n]) \in Nat
      BY <1>1, LengthNat, Zenon
    <2> QED
      BY <1>2, <1>3, <2>1, Positions, Zenon
  <1> HIDE DEF j
  <1>5. Home[sent[n][j][2]] = n /\ sent[n][j][2] \in ended[sent[n][j][1]]
    BY <1>4 DEF OrderInv, SentEnded
  <1> QED
    BY <1>2, <1>3, <1>5, Zenon

-----------------------------------------------------------------------------
(***************************************************************************)
(* The stages of a deployment, as long as there was no fault.              *)
(***************************************************************************)
\* The callers of a node that are queued in q.
Queued(q) == {q[i][2] : i \in 1..Len(q)}

\* A caller has at most one request, queued, pending or answered.
OneAt(q, pend, ans) ==
  /\ \A i, j \in 1..Len(q) : i # j => q[i][2] # q[j][2]
  /\ \A c \in Queued(q) : c \notin ans /\ \A p \in pend : p[2] # c
  /\ \A p \in pend : p[2] \notin ans
  /\ \A p, r \in pend : p[2] = r[2] => p = r

OneRequest == \A n \in Node : OneAt(subscriptions[n], pending[n], answered[n])

\* It is for the peer the caller waits for, and answered means connected.
RightAt(q, pend, ans, s, m, linked) ==
  /\ \A i \in 1..Len(q) : q[i][2] = s => q[i][1] = m
  /\ \A p \in pend : p[2] = s => p[1] = m
  /\ s \in ans => linked

RightRequest ==
  \A n \in Node, s \in SessionId : asking[n][s] # <<>> =>
    RightAt(subscriptions[n], pending[n], answered[n], s, Head(asking[n][s]),
            link[n][Head(asking[n][s])] \in Linked)

\* No request, queue or answer is there before its session subscribed, and a
\* node subscribes once.
NoRequestOf(n, s) ==
  /\ s \notin subscribed[n] =>
       /\ asking[n][s] = <<>> /\ s \notin answered[n]
       /\ s \notin Queued(subscriptions[n]) /\ \A p \in pending[n] : p[2] # s
  /\ stage[s] = "idle" => s \notin subscribed[n]
  /\ Called(n, s, "subscribing") => s \notin subscribed[n]
  /\ asking[n][s] # <<>> => stage[s] = "subscribing" /\ n \in todo[s]

NoRequest == \A n \in Node, s \in SessionId : NoRequestOf(n, s)

\* What the receiver thread knows or will hear to be connected, is.
EndpointsLinked ==
  \A n, m \in Node : m \in subEndpoints[n] \/ m \in Range(monitor[n]) => link[n][m] \in Linked

\* A node that subscribed is linked to its peers, but for those it still asks.
PeersLinkedOf(s) ==
  stage[s] = "subscribing" =>
    /\ todo[s] \subseteq Wired
    /\ ~refused[s] => \A n \in Node :
         /\ s \in subscribed[n] => \A m \in Peers[n] :
              link[n][m] \in Linked \/ m \in Range(asking[n][s])
         /\ n \in Wired \ todo[s] => s \in subscribed[n]

PeersLinked == \A s \in SessionId : PeersLinkedOf(s)

SubscribeInv == OneRequest /\ RightRequest /\ NoRequest /\ EndpointsLinked /\ PeersLinked

AllWired(s) ==
  \A n \in Wired : s \in subscribed[n] /\ \A m \in Peers[n] : link[n][m] \in Linked

\* The deployment of s has come past the first stage.
Begun(s) ==
  \/ stage[s] \in {"deploying", "triggering", "done"} \/ ended[s] # {}
  \/ \E n \in Node : status[n][s] \in {"DEPLOYING", "RUNNING", "FAILED"}

\* Deployment starts, and drops end, only when all is wired.
WiredFirst == \A s \in SessionId : Begun(s) => AllWired(s)

Over == {"RUNNING", "FAILED", "FINISHED"}
AllDeployed(s) == \A k \in Node : status[k][s] \in Over

\* A node that has answered in the second stage is deployed.
AnsweredDeployed ==
  \A s \in SessionId : stage[s] = "deploying" /\ ~refused[s] =>
    \A k \in Node \ todo[s] : status[k][s] \in Over

\* Roots are triggered, and drops end, only when all is deployed, or failed.
TriggeredLater ==
  \A s \in SessionId :
    stage[s] \in {"triggering", "done"} \/ (\E n \in Node : s \in triggered[n]) => AllDeployed(s)
EndedLater ==
  \A s \in SessionId :
    ended[s] # {} => (\E k \in Node : status[k][s] = "FAILED") \/ AllDeployed(s)

EmptyParts ==
  \A s \in SessionId : \A k \in Node : status[k][s] \in {"PRISTINE", "FINISHED"} => Local(k) = {}
HeardEnded == \A s \in SessionId : \A r \in heard[s] : r[1] \in ended[s]

DeployedFirst == AnsweredDeployed /\ TriggeredLater /\ EndedLater /\ EmptyParts /\ HeardEnded

WireInv == faults = 0 => SubscribeInv /\ WiredFirst /\ DeployedFirst

\* A request is queued for a caller that has none.
LEMMA RequestQueued ==
  ASSUME NEW q \in Seq(Node \X SessionId), NEW e \in Node \X SessionId,
         NEW pend, NEW ans, OneAt(q, pend, ans),
         e[2] \notin Queued(q), e[2] \notin ans, \A p \in pend : p[2] # e[2]
  PROVE  /\ Queued(Append(q, e)) = Queued(q) \cup {e[2]} /\ OneAt(Append(q, e), pend, ans)
         /\ \A i \in 1..Len(Append(q, e)) :
              (i \in 1..Len(q) /\ Append(q, e)[i] = q[i]) \/ Append(q, e)[i] = e
  <1> DEFINE r == Append(q, e)
             s == e[2]
  <1>1. /\ r \in Seq(Node \X SessionId) /\ Len(q) \in Nat /\ Len(r) = Len(q) + 1
        /\ r[Len(q) + 1] = e /\ \A i \in 1..Len(q) : r[i] = q[i]
    OBVIOUS
  <1> HIDE DEF r
  <1>2. \A i \in 1..Len(r) : i \in 1..Len(q) \/ i = Len(q) + 1
    BY <1>1
  <1>3. 1..Len(q) \subseteq 1..Len(r) /\ Len(q) + 1 \in 1..Len(r)
    BY <1>1
  <1>4. Queued(r) = Queued(q) \cup {s}
    <2>1. ASSUME NEW c \in Queued(r) PROVE c \in Queued(q) \cup {s}
      <3>1. PICK i \in 1..Len(r) : c = r[i][2]
        BY <2>1 DEF Queued
      <3> QED
        BY <1>1, <1>2, <3>1, Zenon DEF Queued
    <2>2. ASSUME NEW c \in Queued(q) PROVE c \in Queued(r)
      <3>1. PICK i \in 1..Len(q) : c = q[i][2]
        BY <2>2 DEF Queued
      <3> QED
        BY <1>1, <1>3, <3>1 DEF Queued
    <2>3. s \in Queued(r)
      BY <1>1, <1>3 DEF Queued
    <2> QED
      BY <2>1, <2>2, <2>3
  <1>5. OneAt(r, pend, ans)
    <2>1. \A i \in 1..Len(q) : q[i][2] # s
      BY DEF Queued
    <2>2. \A i, j \in 1..Len(r) : i # j => r[i][2] # r[j][2]
      BY <1>1, <1>2, <2>1 DEF OneAt
    <2>3. \A c \in Queued(r) : c \notin ans /\ \A p \in pend : p[2] # c
      BY <1>4 DEF OneAt
    <2> QED
      BY <2>2, <2>3 DEF OneAt
  <1>6. \A i \in 1..Len(r) : (i \in 1..Len(q) /\ r[i] = q[i]) \/ r[i] = e
    BY <1>1, <1>2
  <1> QED
    BY <1>4, <1>5, <1>6 DEF r

\* The first request leaves the queue.
LEMMA RequestTaken ==
  ASSUME NEW q \in Seq(Node \X SessionId), q # <<>>, NEW pend, NEW ans, OneAt(q, pend, ans)
  PROVE  /\ Head(q) \in Node \X SessionId /\ Head(q) = q[1] /\ 1 \in 1..Len(q)
         /\ Queued(Tail(q)) \subseteq Queued(q) /\ Head(q)[2] \in Queued(q)
         /\ Head(q)[2] \notin Queued(Tail(q)) /\ Head(q)[2] \notin ans /\ OneAt(Tail(q), pend, ans)
         /\ \A p \in pend : p[2] # Head(q)[2]
         /\ \A i \in 1..Len(Tail(q)) : i + 1 \in 1..Len(q) /\ Tail(q)[i] = q[i + 1]
  <1> DEFINE r == Tail(q)
             s == Head(q)[2]
  <1>1. /\ Len(q) \in Nat \ {0} /\ Len(r) = Len(q) - 1 /\ Head(q) = q[1] /\ q[1] \in Node \X SessionId
        /\ \A i \in 1..Len(r) : r[i] = q[i + 1]
    OBVIOUS
  <1>2. s = q[1][2] /\ s \in SessionId /\ Head(q)[1] \in Node
    BY <1>1
  <1> HIDE DEF r, s
  <1>3. 1 \in 1..Len(q) /\ \A i \in 1..Len(r) : i + 1 \in 1..Len(q) /\ i + 1 # 1
    BY <1>1
  <1>4. Queued(r) \subseteq Queued(q) /\ s \in Queued(q)
    BY <1>1, <1>2, <1>3, ZenonT(30) DEF Queued
  <1>5. /\ s \notin Queued(r) /\ s \notin ans /\ OneAt(r, pend, ans)
        /\ \A p \in pend : p[2] # s
    <2>1. \A i \in 1..Len(r) : r[i][2] # s
      <3>1. \A i, j \in 1..Len(q) : i # j => q[i][2] # q[j][2]
        BY Zenon DEF OneAt
      <3> SUFFICES ASSUME NEW i \in 1..Len(r)
                   PROVE  r[i][2] # s
        OBVIOUS
      <3>2. 1 \in 1..Len(q) /\ i + 1 \in 1..Len(q) /\ i + 1 # 1
        BY <1>3
      <3>3. q[i + 1][2] # q[1][2]
        BY <3>1, <3>2
      <3> QED
        BY <1>1, <1>2, <3>3, Zenon
    <2>2. \A i, j \in 1..Len(r) : i # j => r[i][2] # r[j][2]
      <3>1. \A i, j \in 1..Len(r) : i # j => i + 1 # j + 1
        BY <1>1
      <3> QED
        <4> SUFFICES ASSUME NEW i \in 1..Len(r), NEW j \in 1..Len(r), i # j
                     PROVE  r[i][2] # r[j][2]
          OBVIOUS
        <4>1. i + 1 # j + 1 /\ i + 1 \in 1..Len(q) /\ j + 1 \in 1..Len(q)
          BY <1>3, <3>1
        <4>2. q[i + 1][2] # q[j + 1][2]
          BY <4>1, Zenon DEF OneAt
        <4> QED
          BY <1>1, <4>2, Zenon
    <2>3. OneAt(r, pend, ans)
      BY <1>4, <2>2 DEF OneAt
    <2> QED
      BY <1>4, <2>1, <2>3 DEF OneAt, Queued
  <1> QED
    BY <1>1, <1>2, <1>3, <1>4, <1>5 DEF r, s

\* What Subscribe does: the caller waits for the first of its peers.
LEMMA SubscribeEffect ==
  ASSUME TypeOK, NEW n \in Node, NEW s \in SessionId, NEW peers \in Seq(Node),
         Subscribe(n, s, peers)
  PROVE  /\ asking'[n][s] = peers
         /\ \A k \in Node, t \in SessionId : ~(k = n /\ t = s) => asking'[k][t] = asking[k][t]
         /\ \A k \in Node : k # n => subscriptions'[k] = subscriptions[k]
         /\ peers = <<>> => subscriptions'[n] = subscriptions[n]
         /\ peers # <<>> => /\ Head(peers) \in Node
                            /\ subscriptions'[n] = Append(subscriptions[n], <<Head(peers), s>>)
  <1>1. /\ asking \in [Node -> [SessionId -> Seq(Node)]]
        /\ subscriptions \in [Node -> Seq(Node \X SessionId)]
    BY Zenon DEF TypeOK
  <1>2. /\ asking'[n][s] = peers
        /\ \A k \in Node, t \in SessionId : ~(k = n /\ t = s) => asking'[k][t] = asking[k][t]
    BY <1>1 DEF Subscribe
  <1>3. peers # <<>> => Head(peers) \in Node
    OBVIOUS
  <1>4. CASE peers = <<>>
    BY <1>2, <1>4 DEF Subscribe
  <1>5. CASE peers # <<>>
    BY <1>1, <1>2, <1>3, <1>5 DEF Subscribe
  <1> QED
    BY <1>4, <1>5

\* A caller that has no request asks for the first of its peers: it has one.
LEMMA SubscribeRequest ==
  ASSUME TypeOK, OneRequest, RightRequest, NEW n \in Node, NEW s \in SessionId,
         NEW peers \in Seq(Node), Subscribe(n, s, peers),
         s \notin Queued(subscriptions[n]), \A p \in pending[n] : p[2] # s,
         s \notin answered'[n],
         answered'[n] \cup {s} = answered[n] \cup {s},
         \A k \in Node : k # n => answered'[k] = answered[k],
         UNCHANGED <<pending, link>>
  PROVE  /\ OneRequest' /\ RightRequest'
         /\ Queued(subscriptions'[n]) \subseteq Queued(subscriptions[n]) \cup {s}
         /\ \A k \in Node : k # n => subscriptions'[k] = subscriptions[k]
  <1>1. /\ asking'[n][s] = peers
        /\ \A k \in Node, t \in SessionId : ~(k = n /\ t = s) => asking'[k][t] = asking[k][t]
        /\ \A k \in Node : k # n => subscriptions'[k] = subscriptions[k]
        /\ peers = <<>> => subscriptions'[n] = subscriptions[n]
        /\ peers # <<>> => /\ Head(peers) \in Node
                           /\ subscriptions'[n] = Append(subscriptions[n], <<Head(peers), s>>)
    BY SubscribeEffect
  <1>2. subscriptions[n] \in Seq(Node \X SessionId)
    BY DEF TypeOK
  <1>3. OneAt(subscriptions[n], pending[n], answered'[n])
    <2>1. answered'[n] \subseteq answered[n]
      OBVIOUS
    <2>2. OneAt(subscriptions[n], pending[n], answered[n])
      BY DEF OneRequest
    <2> QED
      BY <2>1, <2>2 DEF OneAt
  <1>4. /\ Queued(subscriptions'[n]) \subseteq Queued(subscriptions[n]) \cup {s}
        /\ OneAt(subscriptions'[n], pending[n], answered'[n])
        /\ \A i \in 1..Len(subscriptions'[n]) :
             \/ i \in 1..Len(subscriptions[n]) /\ subscriptions'[n][i] = subscriptions[n][i]
             \/ peers # <<>> /\ subscriptions'[n][i] = <<Head(peers), s>>
    <2>1. CASE peers = <<>>
      BY <1>1, <1>3, <2>1
    <2>2. CASE peers # <<>>
      <3>1. /\ Queued(subscriptions'[n]) = Queued(subscriptions[n]) \cup {s}
            /\ OneAt(subscriptions'[n], pending[n], answered'[n])
            /\ \A i \in 1..Len(subscriptions'[n]) :
                 \/ i \in 1..Len(subscriptions[n]) /\ subscriptions'[n][i] = subscriptions[n][i]
                 \/ subscriptions'[n][i] = <<Head(peers), s>>
        <4>1. Head(peers) \in Node /\ subscriptions'[n] = Append(subscriptions[n], <<Head(peers), s>>)
          BY <1>1, <2>2
        <4>2. QED
          <5> DEFINE e == <<Head(peers), s>>
          <5>0. e \in Node \X SessionId
            BY <4>1
          <5>1. s = e[2] /\ subscriptions'[n] = Append(subscriptions[n], e)
            BY <4>1
          <5> HIDE DEF e
          <5>2. /\ e[2] \notin Queued(subscriptions[n]) /\ e[2] \notin answered'[n]
                /\ \A p \in pending[n] : p[2] # e[2]
            BY <5>1
          <5> DEFINE q == subscriptions[n]
                     pend == pending[n]
                     ans == answered'[n]
          <5>3. /\ q \in Seq(Node \X SessionId) /\ OneAt(q, pend, ans)
                /\ e[2] \notin Queued(q) /\ e[2] \notin ans /\ \A p \in pend : p[2] # e[2]
            BY <1>2, <1>3, <5>2
          <5> HIDE DEF q, pend, ans
          <5>4. /\ Queued(Append(q, e)) = Queued(q) \cup {e[2]} /\ OneAt(Append(q, e), pend, ans)
                /\ \A i \in 1..Len(Append(q, e)) :
                     (i \in 1..Len(q) /\ Append(q, e)[i] = q[i]) \/ Append(q, e)[i] = e
            BY <5>0, <5>3, RequestQueued, ZenonT(60)
          <5>5. /\ Queued(subscriptions'[n]) = Queued(subscriptions[n]) \cup {s}
                /\ OneAt(subscriptions'[n], pending[n], answered'[n])
                /\ \A i \in 1..Len(subscriptions'[n]) :
                     \/ i \in 1..Len(subscriptions[n]) /\ subscriptions'[n][i] = subscriptions[n][i]
                     \/ subscriptions'[n][i] = e
            BY <5>1, <5>4 DEF q, pend, ans
          <5> QED
            BY <5>5 DEF e
      <3> QED
        BY <2>2, <3>1
    <2> QED
      BY <2>1, <2>2
  <1>5. OneRequest'
    <2> SUFFICES ASSUME NEW k \in Node
                 PROVE  OneAt(subscriptions'[k], pending'[k], answered'[k])
      BY Zenon DEF OneRequest
    <2>1. CASE k = n
      BY <1>4, <2>1
    <2>2. CASE k # n
      BY <1>1, <2>2 DEF OneRequest
    <2> QED
      BY <2>1, <2>2
  <1>6. RightRequest'
    <2> SUFFICES ASSUME NEW k \in Node, NEW t \in SessionId, asking'[k][t] # <<>>
                 PROVE  RightAt(subscriptions'[k], pending'[k], answered'[k], t,
                                Head(asking'[k][t]), link'[k][Head(asking'[k][t])] \in Linked)
      BY Zenon DEF RightRequest
    <2>1. CASE k # n
      BY <1>1, <2>1 DEF RightRequest
    <2>2. CASE k = n /\ t # s
      <3>1. /\ asking'[k][t] = asking[k][t]
            /\ RightAt(subscriptions[n], pending[n], answered[n], t, Head(asking[n][t]),
                       link[n][Head(asking[n][t])] \in Linked)
        BY <1>1, <2>2 DEF RightRequest
      <3>2. t \in answered'[n] => t \in answered[n]
        BY <2>2
      <3>3. \A i \in 1..Len(subscriptions'[n]) : subscriptions'[n][i][2] = t =>
              i \in 1..Len(subscriptions[n]) /\ subscriptions'[n][i] = subscriptions[n][i]
        BY <1>4, <2>2
      <3> QED
        BY <2>2, <3>1, <3>2, <3>3 DEF RightAt
    <2>3. CASE k = n /\ t = s
      <3>1. \A i \in 1..Len(subscriptions[n]) : subscriptions[n][i][2] # s
        BY DEF Queued
      <3>2. \A i \in 1..Len(subscriptions'[n]) : subscriptions'[n][i][2] = s =>
              subscriptions'[n][i] = <<Head(peers), s>>
        BY <1>4, <3>1, Zenon
      <3> QED
        BY <1>1, <2>3, <3>2 DEF RightAt
    <2> QED
      BY <2>1, <2>2, <2>3
  <1> QED
    BY <1>1, <1>4, <1>5, <1>6

\* A node is called to subscribe.
LEMMA AddKeeps ==
  ASSUME TypeOK, SubscribeInv, NEW n \in Node, NEW s \in SessionId, AddNodeSubscriptions(n, s)
  PROVE  SubscribeInv'
  <1>1. PICK peers \in Orders(Peers[n]) : Subscribe(n, s, peers)
    BY DEF AddNodeSubscriptions
  <1>2. peers \in Seq(Node) /\ Range(peers) = Peers[n]
    BY PeersOrder
  <1>3. /\ Called(n, s, "subscribing") /\ subscribed' = [subscribed EXCEPT ![n] = @ \cup {s}]
        /\ UNCHANGED <<stage, todo, refused, answered, pending, subEndpoints, monitor, link>>
    BY DEF AddNodeSubscriptions, deployVars
  <1>4. stage[s] = "subscribing" /\ n \in todo[s] /\ asking[n][s] = <<>> /\ s \notin subscribed[n]
    BY <1>3 DEF Called, SubscribeInv, NoRequest, NoRequestOf
  <1>5. Peers[n] # {}
    BY <1>4 DEF SubscribeInv, PeersLinked, PeersLinkedOf, Wired
  <1>6. peers # <<>>
    <2>1. Range(<<>>) = {}
      BY DEF Range
    <2> QED
      BY <1>2, <1>5, <2>1
  <1>7. /\ s \notin answered[n] /\ s \notin Queued(subscriptions[n])
        /\ \A p \in pending[n] : p[2] # s
    BY <1>4 DEF SubscribeInv, NoRequest, NoRequestOf
  <1>8. /\ OneRequest' /\ RightRequest'
        /\ Queued(subscriptions'[n]) \subseteq Queued(subscriptions[n]) \cup {s}
        /\ \A k \in Node : k # n => subscriptions'[k] = subscriptions[k]
    BY <1>1, <1>2, <1>3, <1>7, SubscribeRequest DEF SubscribeInv
  <1>9. /\ asking'[n][s] = peers
        /\ \A k \in Node, t \in SessionId : ~(k = n /\ t = s) => asking'[k][t] = asking[k][t]
    BY <1>1, <1>2, SubscribeEffect
  <1>10. /\ subscribed'[n] = subscribed[n] \cup {s}
         /\ \A k \in Node : k # n => subscribed'[k] = subscribed[k]
    BY <1>3 DEF TypeOK
  <1>11. NoRequest'
    <2> SUFFICES ASSUME NEW k \in Node, NEW t \in SessionId PROVE NoRequestOf(k, t)'
      BY Zenon DEF NoRequest
    <2>1. NoRequestOf(k, t)
      BY DEF SubscribeInv, NoRequest
    <2>2. CASE k = n /\ t = s
      BY <1>3, <1>4, <1>6, <1>9, <1>10, <2>2, ZenonT(30) DEF NoRequestOf, Called
    <2>3. CASE k = n /\ t # s
      BY <1>3, <1>8, <1>9, <1>10, <2>1, <2>3, ZenonT(30) DEF NoRequestOf, Called
    <2>4. CASE k # n
      BY <1>3, <1>8, <1>9, <1>10, <2>1, <2>4, ZenonT(30) DEF NoRequestOf, Called
    <2> QED
      BY <2>2, <2>3, <2>4
  <1>12. EndpointsLinked'
    BY <1>3 DEF SubscribeInv, EndpointsLinked
  <1>13. PeersLinked'
    BY <1>2, <1>3, <1>9, <1>10 DEF SubscribeInv, PeersLinked, PeersLinkedOf
  <1> QED
    BY <1>8, <1>11, <1>12, <1>13 DEF SubscribeInv

\* The rest of a sequence, and its members.
LEMMA TailMembers ==
  ASSUME NEW S, NEW q \in Seq(S), q # <<>>
  PROVE  /\ Tail(q) \in Seq(S) /\ Head(q) \in S /\ Range(q) = {Head(q)} \cup Range(Tail(q))
         /\ Len(q) = 1 <=> Tail(q) = <<>>
  <1>1. /\ Len(q) \in Nat \ {0} /\ Head(q) = q[1] /\ Tail(q) \in Seq(S) /\ q[1] \in S
        /\ Len(Tail(q)) = Len(q) - 1 /\ \A i \in 1..Len(Tail(q)) : Tail(q)[i] = q[i + 1]
    OBVIOUS
  <1>2. DOMAIN q = 1..Len(q) /\ DOMAIN Tail(q) = 1..Len(Tail(q))
    BY <1>1
  <1>3. Range(q) = {q[i] : i \in 1..Len(q)} /\ Range(Tail(q)) = {Tail(q)[i] : i \in 1..Len(Tail(q))}
    BY <1>2, Zenon DEF Range
  <1>4. ASSUME NEW x \in Range(q) PROVE x \in {Head(q)} \cup Range(Tail(q))
    <2>1. PICK i \in 1..Len(q) : x = q[i]
      BY <1>3, <1>4
    <2>2. CASE i = 1
      BY <1>1, <2>1, <2>2
    <2>3. CASE i # 1
      <3>1. i - 1 \in 1..Len(Tail(q)) /\ (i - 1) + 1 = i
        BY <1>1, <2>3
      <3>2. x = Tail(q)[i - 1]
        BY <1>1, <2>1, <3>1
      <3> QED
        BY <1>3, <3>1, <3>2, Zenon
    <2> QED
      BY <2>2, <2>3
  <1>5. ASSUME NEW x \in Range(Tail(q)) PROVE x \in Range(q)
    <2>1. PICK i \in 1..Len(Tail(q)) : x = Tail(q)[i]
      BY <1>3, <1>5
    <2>2. i + 1 \in 1..Len(q)
      BY <1>1
    <2> QED
      BY <1>1, <1>3, <2>1, <2>2
  <1>6. Head(q) \in Range(q)
    <2>1. 1 \in 1..Len(q)
      BY <1>1
    <2> QED
      BY <1>1, <1>3, <2>1
  <1>7. Len(q) = 1 <=> Tail(q) = <<>>
    <2>1. \A r \in Seq(S) : r = <<>> <=> Len(r) = 0
      OBVIOUS
    <2>2. Tail(q) = <<>> <=> Len(Tail(q)) = 0
      BY <1>1, <2>1, Zenon
    <2> QED
      BY <1>1, <2>2
  <1> QED
    BY <1>1, <1>4, <1>5, <1>6, <1>7

\* The wait of a caller is over: it asks for its next peer, or has done.
LEMMA SubscribedKeeps ==
  ASSUME TypeOK, SubscribeInv, NEW n \in Node, NEW s \in SessionId, Subscribed(n, s)
  PROVE  SubscribeInv'
  <1> DEFINE q == asking[n][s]
  <1>1. q \in Seq(Node) /\ q # <<>> /\ s \in answered[n]
    BY DEF TypeOK, Subscribed
  <1>2. /\ Tail(q) \in Seq(Node) /\ Head(q) \in Node /\ Range(q) = {Head(q)} \cup Range(Tail(q))
        /\ Len(q) = 1 <=> Tail(q) = <<>>
    BY <1>1, TailMembers
  <1>3. /\ Subscribe(n, s, Tail(q)) /\ answered' = [answered EXCEPT ![n] = @ \ {s}]
        /\ UNCHANGED <<subscribed, pending, subEndpoints, monitor, link>>
    BY DEF Subscribed
  <1>4. /\ s \notin answered'[n] /\ answered'[n] \cup {s} = answered[n] \cup {s}
        /\ answered'[n] \subseteq answered[n]
        /\ \A k \in Node : k # n => answered'[k] = answered[k]
    BY <1>3 DEF TypeOK
  <1>5. s \notin Queued(subscriptions[n]) /\ \A p \in pending[n] : p[2] # s
    BY <1>1 DEF SubscribeInv, OneRequest, OneAt
  <1>6. /\ OneRequest' /\ RightRequest'
        /\ Queued(subscriptions'[n]) \subseteq Queued(subscriptions[n]) \cup {s}
        /\ \A k \in Node : k # n => subscriptions'[k] = subscriptions[k]
    BY <1>2, <1>3, <1>4, <1>5, SubscribeRequest, Zenon DEF SubscribeInv
  <1>7. /\ asking'[n][s] = Tail(q)
        /\ \A k \in Node, t \in SessionId : ~(k = n /\ t = s) => asking'[k][t] = asking[k][t]
    <2>1. asking' = [asking EXCEPT ![n][s] = Tail(q)] /\ asking \in [Node -> [SessionId -> Seq(Node)]]
      BY <1>3 DEF Subscribe, TypeOK
    <2> QED
      BY <2>1
  <1>8. stage[s] = "subscribing" /\ n \in todo[s] /\ s \in subscribed[n]
    BY <1>1 DEF SubscribeInv, NoRequest, NoRequestOf
  <1>9. link[n][Head(q)] \in Linked
    BY <1>1 DEF SubscribeInv, RightRequest, RightAt
  <1>10. /\ UNCHANGED <<stage, refused>>
         /\ \A t \in SessionId : t # s => todo'[t] = todo[t]
         /\ todo'[s] \subseteq todo[s] /\ todo[s] \ {n} \subseteq todo'[s]
         /\ n \in todo'[s] <=> Tail(q) # <<>>
    <2>1. CASE Len(q) = 1
      <3>1. Answer(n, s, TRUE)
        BY <2>1, Zenon DEF Subscribed
      <3>2. UNCHANGED refused
        BY <3>1 DEF Answer, TypeOK
      <3> QED
        BY <1>2, <2>1, <3>1, <3>2, Zenon DEF Answer, TypeOK
    <2>2. CASE Len(q) # 1
      BY <1>2, <1>8, <2>2, Zenon DEF Subscribed
    <2> QED
      BY <2>1, <2>2
  <1> HIDE DEF q
  <1>11. NoRequest'
    <2> SUFFICES ASSUME NEW k \in Node, NEW t \in SessionId PROVE NoRequestOf(k, t)'
      BY Zenon DEF NoRequest
    <2>1. NoRequestOf(k, t)
      BY DEF SubscribeInv, NoRequest
    <2>2. CASE k = n /\ t = s
      BY <1>3, <1>7, <1>8, <1>10, <2>2, ZenonT(30) DEF NoRequestOf, Called
    <2>3. CASE k = n /\ t # s
      BY <1>3, <1>4, <1>6, <1>7, <1>10, <2>1, <2>3, ZenonT(30) DEF NoRequestOf, Called
    <2>4. CASE k # n
      BY <1>3, <1>4, <1>6, <1>7, <1>10, <2>1, <2>4, ZenonT(30) DEF NoRequestOf, Called
    <2> QED
      BY <2>2, <2>3, <2>4
  <1>12. EndpointsLinked'
    BY <1>3 DEF SubscribeInv, EndpointsLinked
  <1>13. PeersLinked'
    <2> SUFFICES ASSUME NEW t \in SessionId PROVE PeersLinkedOf(t)'
      BY Zenon DEF PeersLinked
    <2>1. PeersLinkedOf(t)
      BY DEF SubscribeInv, PeersLinked
    <2>2. CASE t # s
      BY <1>3, <1>7, <1>10, <2>1, <2>2, Zenon DEF PeersLinkedOf
    <2>3. CASE t = s
      BY <1>2, <1>3, <1>7, <1>8, <1>9, <1>10, <2>1, <2>3 DEF PeersLinkedOf, q
    <2> QED
      BY <2>2, <2>3
  <1> QED
    BY <1>6, <1>11, <1>12, <1>13 DEF SubscribeInv

\* A caller gives up: its node has failed, and its request is left behind.
LEMMA TimedOutKeeps ==
  ASSUME TypeOK, SubscribeInv, NEW n \in Node, NEW s \in SessionId, TimedOut(n, s)
  PROVE  SubscribeInv'
  <1>1. /\ asking' = [asking EXCEPT ![n][s] = <<>>] /\ asking \in [Node -> [SessionId -> Seq(Node)]]
        /\ Answer(n, s, FALSE)
        /\ UNCHANGED <<subscribed, answered, subscriptions, pending, subEndpoints, monitor, link>>
    BY Zenon DEF TimedOut, recvVars, TypeOK
  <1>2. /\ asking'[n][s] = <<>>
        /\ \A k \in Node, t \in SessionId : ~(k = n /\ t = s) => asking'[k][t] = asking[k][t]
    BY <1>1
  <1>3. /\ UNCHANGED stage /\ refused'[s]
        /\ \A t \in SessionId : t # s => todo'[t] = todo[t] /\ refused'[t] = refused[t]
        /\ todo'[s] = todo[s] \ {n}
    BY <1>1, Zenon DEF Answer, TypeOK
  <1>4. asking[n][s] # <<>>
    BY DEF TimedOut
  <1>5. stage[s] = "subscribing" /\ n \in todo[s] /\ s \in subscribed[n]
    BY <1>4, Zenon DEF SubscribeInv, NoRequest, NoRequestOf
  <1>6. OneRequest'
    BY <1>1, Zenon DEF SubscribeInv, OneRequest
  <1>7. RightRequest'
    BY <1>1, <1>2, SMTT(30) DEF SubscribeInv, RightRequest
  <1>8. NoRequest'
    <2> SUFFICES ASSUME NEW k \in Node, NEW t \in SessionId PROVE NoRequestOf(k, t)'
      BY Zenon DEF NoRequest
    <2>1. NoRequestOf(k, t)
      BY DEF SubscribeInv, NoRequest
    <2>2. CASE k = n /\ t = s
      BY <1>1, <1>2, <1>3, <1>5, <2>2 DEF NoRequestOf, Called
    <2>3. CASE ~(k = n /\ t = s)
      BY <1>1, <1>2, <1>3, <2>1, <2>3, Zenon DEF NoRequestOf, Called
    <2> QED
      BY <2>2, <2>3
  <1>9. EndpointsLinked'
    BY <1>1, Zenon DEF SubscribeInv, EndpointsLinked
  <1>10. PeersLinked'
    BY <1>1, <1>2, <1>3, ZenonT(30) DEF SubscribeInv, PeersLinked, PeersLinkedOf
  <1> QED
    BY <1>6, <1>7, <1>8, <1>9, <1>10 DEF SubscribeInv

\* Sockets connect: the invariant asks for no less.
LEMMA LinksKeep ==
  ASSUME TypeOK, SubscribeInv,
         UNCHANGED <<stage, todo, refused, callerVars, subscriptions, pending, subEndpoints>>,
         \A k, m \in Node : link[k][m] \in Linked => link'[k][m] \in Linked,
         \A k, m \in Node : m \in Range(monitor'[k]) => m \in Range(monitor[k]) \/ link'[k][m] \in Linked
  PROVE  SubscribeInv'
  <1>1. UNCHANGED <<subscribed, asking, answered>>
    BY DEF callerVars
  <1>2. OneRequest'
    BY <1>1 DEF SubscribeInv, OneRequest
  <1>3. RightRequest'
    <2> SUFFICES ASSUME NEW k \in Node, NEW t \in SessionId, asking[k][t] # <<>>
                 PROVE  RightAt(subscriptions[k], pending[k], answered[k], t,
                                Head(asking[k][t]), link'[k][Head(asking[k][t])] \in Linked)
      BY <1>1, Zenon DEF RightRequest
    <2>1. RightAt(subscriptions[k], pending[k], answered[k], t,
                  Head(asking[k][t]), link[k][Head(asking[k][t])] \in Linked)
      BY ZenonT(30) DEF SubscribeInv, RightRequest
    <2>2. Head(asking[k][t]) \in Node
      BY AskedNode, Zenon
    <2> QED
      BY <2>1, <2>2 DEF RightAt
  <1>4. NoRequest'
    BY <1>1 DEF SubscribeInv, NoRequest, NoRequestOf, Called
  <1>5. EndpointsLinked'
    BY DEF SubscribeInv, EndpointsLinked
  <1>6. PeersLinked'
    <2>1. \A k \in Node : \A m \in Peers[k] : m \in Node
      BY DEF Peers
    <2> QED
      BY <1>1, <2>1, Zenon DEF SubscribeInv, PeersLinked, PeersLinkedOf
  <1> QED
    BY <1>2, <1>3, <1>4, <1>5, <1>6 DEF SubscribeInv

\* No link is lost when a socket connects, or an event is published.
LEMMA LinkGrows ==
  ASSUME TypeOK, NEW n \in Node, Publish(n) \/ \E m \in Node : Connect(n, m)
  PROVE  \A k, m \in Node : link[k][m] \in Linked => link'[k][m] \in Linked
  <1>0. link \in [Node -> [Node -> Linked \cup {"none", "connecting"}]]
    BY DEF TypeOK
  <1>1. CASE Publish(n)
    <2>1. PICK late : link' = [m \in Node |-> [link[m] EXCEPT ![n] =
                                 IF @ = "connected" /\ m \notin late THEN "live" ELSE @]]
      BY <1>1, Zenon DEF Publish
    <2> QED
      BY <1>0, <2>1 DEF Linked
  <1>2. ASSUME NEW m \in Node, Connect(n, m)
        PROVE  \A k, j \in Node : link[k][j] \in Linked => link'[k][j] \in Linked
    BY <1>0, <1>2 DEF Connect, Linked
  <1> QED
    BY <1>1, <1>2

\* The last member of a sequence.
LEMMA AppendMembers ==
  ASSUME NEW S, NEW q \in Seq(S), NEW x \in S
  PROVE  Range(Append(q, x)) \subseteq Range(q) \cup {x}
  <1> DEFINE r == Append(q, x)
  <1>1. /\ Len(q) \in Nat /\ Len(r) = Len(q) + 1 /\ DOMAIN r = 1..Len(r) /\ DOMAIN q = 1..Len(q)
        /\ \A i \in 1..Len(q) : r[i] = q[i]
        /\ r[Len(q) + 1] = x
    OBVIOUS
  <1> HIDE DEF r
  <1>2. \A i \in 1..Len(r) : i \in 1..Len(q) \/ i = Len(q) + 1
    BY <1>1
  <1>3. Range(r) \subseteq Range(q) \cup {x}
    BY <1>1, <1>2 DEF Range
  <1> QED
    BY <1>3 DEF r

\* A socket connects, or an event is published.
LEMMA SocketKeeps ==
  ASSUME TypeOK, SubscribeInv, NEW n \in Node, Publish(n) \/ \E m \in Node : Connect(n, m)
  PROVE  SubscribeInv'
  <1>1. \A k, m \in Node : link[k][m] \in Linked => link'[k][m] \in Linked
    BY LinkGrows
  <1>2. UNCHANGED <<stage, todo, refused, callerVars, subscriptions, pending, subEndpoints>>
    <2>1. CASE Publish(n)
      BY <2>1, Zenon DEF Publish, deployVars, recvVars
    <2>2. ASSUME NEW m \in Node, Connect(n, m)
          PROVE  UNCHANGED <<stage, todo, refused, callerVars, subscriptions, pending, subEndpoints>>
      BY <2>2 DEF Connect, deployVars
    <2> QED
      BY <2>1, <2>2
  <1>3. \A k, m \in Node : m \in Range(monitor'[k]) => m \in Range(monitor[k]) \/ link'[k][m] \in Linked
    <2>1. CASE Publish(n)
      BY <2>1, Zenon DEF Publish, recvVars
    <2>2. ASSUME NEW m \in Node, Connect(n, m)
          PROVE  \A k, j \in Node : j \in Range(monitor'[k]) =>
                   j \in Range(monitor[k]) \/ link'[k][j] \in Linked
      <3>1. /\ monitor' = [monitor EXCEPT ![n] = Append(@, m)] /\ monitor \in [Node -> Seq(Node)]
            /\ link' = [link EXCEPT ![n][m] = "connected"]
            /\ link \in [Node -> [Node -> Linked \cup {"none", "connecting"}]]
        BY <2>2, Zenon DEF Connect, TypeOK
      <3>2. link'[n][m] \in Linked
        BY <3>1 DEF Linked
      <3>3. Range(Append(monitor[n], m)) \subseteq Range(monitor[n]) \cup {m}
        BY <3>1, AppendMembers
      <3> QED
        BY <3>1, <3>2, <3>3
    <2> QED
      BY <2>1, <2>2
  <1> QED
    BY <1>1, <1>2, <1>3, LinksKeep

\* The receiver thread takes a request: the peer is known, or the caller pends.
LEMMA TakeSubscriptionKeeps ==
  ASSUME TypeOK, SubscribeInv, NEW n \in Node, TakeSubscription(n)
  PROVE  SubscribeInv'
  <1> DEFINE q == subscriptions[n]
             m == Head(q)[1]
             s == Head(q)[2]
  <1>1. q \in Seq(Node \X SessionId) /\ q # <<>>
    BY Zenon DEF TypeOK, TakeSubscription
  <1>2. OneAt(q, pending[n], answered[n])
    BY DEF SubscribeInv, OneRequest
  <1>3. /\ subscriptions' = [subscriptions EXCEPT ![n] = Tail(q)]
        /\ UNCHANGED <<stage, todo, refused, subscribed, asking, subEndpoints, monitor>>
    BY DEF TakeSubscription, deployVars
  <1>4. /\ subscriptions'[n] = Tail(q)
        /\ \A k \in Node : k # n => subscriptions'[k] = subscriptions[k]
    BY <1>3 DEF TypeOK
  <1>5. IF m \in subEndpoints[n]
        THEN answered' = [answered EXCEPT ![n] = @ \cup {s}] /\ UNCHANGED <<pending, link>>
        ELSE /\ pending' = [pending EXCEPT ![n] = {p \in @ : p[1] # m} \cup {<<m, s>>}]
             /\ link' = [link EXCEPT ![n][m] = IF @ = "none" THEN "connecting" ELSE @]
             /\ UNCHANGED answered
    BY Zenon DEF TakeSubscription
  <1> HIDE DEF q
  <1>6. /\ Head(q) \in Node \X SessionId /\ Head(q) = q[1] /\ 1 \in 1..Len(q)
        /\ Queued(Tail(q)) \subseteq Queued(q) /\ s \in Queued(q)
        /\ s \notin Queued(Tail(q)) /\ s \notin answered[n] /\ OneAt(Tail(q), pending[n], answered[n])
        /\ \A p \in pending[n] : p[2] # s
        /\ \A i \in 1..Len(Tail(q)) : i + 1 \in 1..Len(q) /\ Tail(q)[i] = q[i + 1]
    BY <1>1, <1>2, RequestTaken, Zenon
  <1>7. m \in Node /\ s \in SessionId /\ q[1][1] = m /\ q[1][2] = s
    BY <1>6, ZenonT(30)
  <1>8. \A t \in SessionId : asking[n][t] # <<>> =>
          RightAt(q, pending[n], answered[n], t, Head(asking[n][t]),
                  link[n][Head(asking[n][t])] \in Linked)
    BY DEF SubscribeInv, RightRequest, q
  <1>9. asking[n][s] # <<>> => Head(asking[n][s]) = m
    BY <1>6, <1>7, <1>8 DEF RightAt
  <1>10. /\ \A k \in Node : k # n => answered'[k] = answered[k] /\ pending'[k] = pending[k]
         /\ \A k, j \in Node : link[k][j] \in Linked => link'[k][j] \in Linked
         /\ \A t \in answered'[n] : t \in answered[n] \/ (t = s /\ link[n][m] \in Linked)
         /\ \A p \in pending'[n] : p \in pending[n] \/ p = <<m, s>>
         /\ OneAt(Tail(q), pending'[n], answered'[n])
    <2>0. /\ answered \in [Node -> SUBSET SessionId] /\ pending \in [Node -> SUBSET (Node \X SessionId)]
          /\ link \in [Node -> [Node -> Linked \cup {"none", "connecting"}]]
      BY DEF TypeOK
    <2>1. CASE m \in subEndpoints[n]
      <3>1. /\ answered'[n] = answered[n] \cup {s} /\ UNCHANGED <<pending, link>>
            /\ \A k \in Node : k # n => answered'[k] = answered[k]
        BY <1>5, <2>0, <2>1, Zenon
      <3>2. link[n][m] \in Linked
        BY <1>7, <2>1 DEF SubscribeInv, EndpointsLinked
      <3>3. OneAt(Tail(q), pending'[n], answered'[n])
        BY <1>6, <3>1, Zenon DEF OneAt
      <3> QED
        BY <3>1, <3>2, <3>3
    <2>2. CASE m \notin subEndpoints[n]
      <3>1. /\ pending'[n] = {p \in pending[n] : p[1] # m} \cup {<<m, s>>}
            /\ UNCHANGED answered
            /\ \A k \in Node : k # n => pending'[k] = pending[k]
        BY <1>5, <2>0, <2>2
      <3>2. \A k, j \in Node : link[k][j] \in Linked => link'[k][j] \in Linked
        BY <1>5, <1>7, <2>0, <2>2 DEF Linked
      <3>3. OneAt(Tail(q), pending'[n], answered'[n])
        BY <1>6, <3>1 DEF OneAt
      <3> QED
        BY <3>1, <3>2, <3>3, Zenon
    <2> QED
      BY <2>1, <2>2, Zenon
  <1> HIDE DEF m, s
  <1>11. OneRequest'
    BY <1>4, <1>10, ZenonT(30) DEF SubscribeInv, OneRequest
  <1>12. RightRequest'
    <2> SUFFICES ASSUME NEW k \in Node, NEW t \in SessionId, asking[k][t] # <<>>
                 PROVE  RightAt(subscriptions'[k], pending'[k], answered'[k], t,
                                Head(asking[k][t]), link'[k][Head(asking[k][t])] \in Linked)
      BY <1>3, Zenon DEF RightRequest
    <2>0. Head(asking[k][t]) \in Node
      BY AskedNode, Zenon
    <2>1. RightAt(subscriptions[k], pending[k], answered[k], t,
                  Head(asking[k][t]), link[k][Head(asking[k][t])] \in Linked)
      BY Zenon DEF SubscribeInv, RightRequest
    <2>2. CASE k # n
      BY <1>4, <1>10, <2>0, <2>1, <2>2, Zenon DEF RightAt
    <2>3. CASE k = n
      <3> DEFINE h == Head(asking[k][t])
      <3>1. \A i \in 1..Len(q) : q[i][2] = t => q[i][1] = h
        BY <2>1, <2>3, ZenonT(30) DEF RightAt, q
      <3>2. \A i \in 1..Len(Tail(q)) : Tail(q)[i][2] = t => Tail(q)[i][1] = h
        BY <1>6, <3>1, Zenon
      <3>3. \A p \in pending'[n] : p[2] = t => p[1] = h
        <4>1. \A p \in pending[n] : p[2] = t => p[1] = h
          BY <2>1, <2>3, ZenonT(30) DEF RightAt
        <4>2. <<m, s>>[1] = m /\ <<m, s>>[2] = s
          BY PairParts, Zenon
        <4>3. t = s => h = m
          BY <1>9, <2>3, Zenon
        <4> QED
          BY <1>10, <4>1, <4>2, <4>3, Zenon
      <3>4. t \in answered'[n] => link'[n][h] \in Linked
        <4>1. t \in answered[n] => link[n][h] \in Linked
          BY <2>1, <2>3, Zenon DEF RightAt
        <4>2. t = s => h = m
          BY <1>9, <2>3, Zenon
        <4> QED
          BY <1>10, <2>0, <4>1, <4>2, Zenon
      <3> QED
        BY <1>4, <2>3, <3>2, <3>3, <3>4, Zenon DEF RightAt
    <2> QED
      BY <2>2, <2>3
  <1>13. NoRequest'
    <2> SUFFICES ASSUME NEW k \in Node, NEW t \in SessionId PROVE NoRequestOf(k, t)'
      BY Zenon DEF NoRequest
    <2>1. NoRequestOf(k, t)
      BY DEF SubscribeInv, NoRequest
    <2>2. CASE k # n
      BY <1>3, <1>4, <1>10, <2>1, <2>2, Zenon DEF NoRequestOf, Called
    <2>3. CASE k = n
      <3>1. t = s => t \in subscribed[k]
        BY <1>6, <2>1, <2>3, Zenon DEF NoRequestOf, q
      <3>2. t \in Queued(subscriptions'[k]) => t \in Queued(subscriptions[k])
        BY <1>4, <1>6, <2>3, Zenon DEF q
      <3>3. \A p \in pending'[k] : p \in pending[k] \/ p[2] = s
        <4>1. <<m, s>>[2] = s
          BY PairParts, Zenon
        <4> QED
          BY <1>10, <2>3, <4>1, Zenon
      <3> QED
        BY <1>3, <1>10, <2>1, <2>3, <3>1, <3>2, <3>3, Zenon DEF NoRequestOf, Called
    <2> QED
      BY <2>2, <2>3
  <1>14. EndpointsLinked'
    BY <1>3, <1>10 DEF SubscribeInv, EndpointsLinked
  <1>15. PeersLinked'
    <2>1. \A k \in Node : \A j \in Peers[k] : j \in Node
      BY ZenonT(30) DEF Peers
    <2> QED
      BY <1>3, <1>10, <2>1, Zenon DEF SubscribeInv, PeersLinked, PeersLinkedOf
  <1> QED
    BY <1>11, <1>12, <1>13, <1>14, <1>15 DEF SubscribeInv

\* The receiver thread hears of a connection: the caller that pends is answered.
LEMMA TakeMonitorKeeps ==
  ASSUME TypeOK, SubscribeInv, NEW n \in Node, TakeMonitor(n)
  PROVE  SubscribeInv'
  <1> DEFINE m == Head(monitor[n])
  <1>1. monitor[n] \in Seq(Node) /\ monitor[n] # <<>>
    BY DEF TypeOK, TakeMonitor
  <1>2. m \in Node /\ Range(monitor[n]) = {m} \cup Range(Tail(monitor[n]))
    BY <1>1, TailMembers, Zenon
  <1>3. /\ subEndpoints' = [subEndpoints EXCEPT ![n] = @ \cup {m}]
        /\ answered' = [answered EXCEPT ![n] = @ \cup {p[2] : p \in {q \in pending[n] : q[1] = m}}]
        /\ pending' = [pending EXCEPT ![n] = {p \in @ : p[1] # m}]
        /\ monitor' = [monitor EXCEPT ![n] = Tail(@)]
        /\ UNCHANGED <<stage, todo, refused, subscribed, asking, subscriptions, link>>
    BY DEF TakeMonitor, deployVars
  <1>4. link[n][m] \in Linked
    BY <1>2, Zenon DEF SubscribeInv, EndpointsLinked
  <1> HIDE DEF m
  <1>5. /\ \A k \in Node : k # n => /\ answered'[k] = answered[k] /\ pending'[k] = pending[k]
                                    /\ subEndpoints'[k] = subEndpoints[k] /\ monitor'[k] = monitor[k]
        /\ subEndpoints'[n] = subEndpoints[n] \cup {m} /\ monitor'[n] = Tail(monitor[n])
        /\ pending'[n] = {p \in pending[n] : p[1] # m}
        /\ answered'[n] = answered[n] \cup {p[2] : p \in {q \in pending[n] : q[1] = m}}
    BY <1>3 DEF TypeOK
  <1>6. \A t \in answered'[n] : t \in answered[n] \/ \E p \in pending[n] : p[1] = m /\ p[2] = t
    BY <1>5, Zenon
  <1>7. OneRequest'
    <2> SUFFICES ASSUME NEW k \in Node
                 PROVE  OneAt(subscriptions[k], pending'[k], answered'[k])
      BY <1>3, ZenonT(30) DEF OneRequest
    <2>1. OneAt(subscriptions[k], pending[k], answered[k])
      BY DEF SubscribeInv, OneRequest
    <2>2. CASE k # n
      BY <1>5, <2>1, <2>2, Zenon
    <2>3. CASE k = n
      <3>1. /\ \A c \in Queued(subscriptions[k]) : c \notin answered'[k] /\ \A p \in pending'[k] : p[2] # c
            /\ \A p \in pending'[k] : p[2] \notin answered'[k]
            /\ \A p, r \in pending'[k] : p[2] = r[2] => p = r
        BY <1>5, <1>6, <2>1, <2>3, SMTT(30) DEF OneAt
      <3> QED
        BY <2>1, <3>1, Zenon DEF OneAt
    <2> QED
      BY <2>2, <2>3
  <1>8. RightRequest'
    <2> SUFFICES ASSUME NEW k \in Node, NEW t \in SessionId, asking[k][t] # <<>>
                 PROVE  RightAt(subscriptions[k], pending'[k], answered'[k], t,
                                Head(asking[k][t]), link[k][Head(asking[k][t])] \in Linked)
      BY <1>3, ZenonT(30) DEF RightRequest
    <2>1. RightAt(subscriptions[k], pending[k], answered[k], t,
                  Head(asking[k][t]), link[k][Head(asking[k][t])] \in Linked)
      BY Zenon DEF SubscribeInv, RightRequest
    <2>2. CASE k # n
      BY <1>5, <2>1, <2>2
    <2>3. CASE k = n
      <3> DEFINE h == Head(asking[n][t])
      <3> HIDE DEF h
      <3>1. /\ \A i \in 1..Len(subscriptions[n]) :
                  subscriptions[n][i][2] = t => subscriptions[n][i][1] = h
            /\ \A p \in pending[n] : p[2] = t => p[1] = h
            /\ t \in answered[n] => link[n][h] \in Linked
        BY <2>1, <2>3, Zenon DEF RightAt, h
      <3>2. \A p \in pending'[n] : p \in pending[n]
        BY <1>5, Zenon
      <3>3. t \in answered'[n] => link[n][h] \in Linked
        BY <1>4, <1>6, <3>1, Zenon
      <3> QED
        BY <2>3, <3>1, <3>2, <3>3, Zenon DEF RightAt, h
    <2> QED
      BY <2>2, <2>3
  <1>9. NoRequest'
    <2> SUFFICES ASSUME NEW k \in Node, NEW t \in SessionId PROVE NoRequestOf(k, t)'
      BY Zenon DEF NoRequest
    <2>1. NoRequestOf(k, t)
      BY DEF SubscribeInv, NoRequest
    <2>2. CASE k # n
      BY <1>3, <1>5, <2>1, <2>2, Zenon DEF NoRequestOf, Called
    <2>3. CASE k = n
      BY <1>3, <1>5, <1>6, <2>1, <2>3, ZenonT(30) DEF NoRequestOf, Called
    <2> QED
      BY <2>2, <2>3
  <1>10. EndpointsLinked'
    BY <1>2, <1>3, <1>4, <1>5, ZenonT(30) DEF SubscribeInv, EndpointsLinked
  <1>11. PeersLinked'
    BY <1>3 DEF SubscribeInv, PeersLinked, PeersLinkedOf
  <1> QED
    BY <1>7, <1>8, <1>9, <1>10, <1>11 DEF SubscribeInv

\* A call of the manager is answered: not for subscribing, unless it failed.
LEMMA AnswerKeeps ==
  ASSUME TypeOK, SubscribeInv, UNCHANGED <<callerVars, recvVars, link>>,
         NEW n \in Node, NEW s \in SessionId, NEW ok \in BOOLEAN, Answer(n, s, ok),
         stage[s] = "subscribing" => ~ok /\ asking[n][s] = <<>>
  PROVE  SubscribeInv'
  <1>1. UNCHANGED <<subscribed, asking, answered, subscriptions, pending, subEndpoints, monitor, link>>
    BY DEF callerVars, recvVars
  <1>2. /\ UNCHANGED stage
        /\ stage[s] = "subscribing" => refused'[s]
        /\ \A t \in SessionId : t # s => todo'[t] = todo[t] /\ refused'[t] = refused[t]
        /\ todo'[s] = todo[s] \ {n}
    BY Zenon DEF Answer, TypeOK
  <1>3. OneRequest' /\ RightRequest' /\ EndpointsLinked'
    BY <1>1, ZenonT(30) DEF SubscribeInv, OneRequest, RightRequest, EndpointsLinked
  <1>4. NoRequest'
    <2> SUFFICES ASSUME NEW k \in Node, NEW t \in SessionId PROVE NoRequestOf(k, t)'
      BY Zenon DEF NoRequest
    <2>1. NoRequestOf(k, t)
      BY Zenon DEF SubscribeInv, NoRequest
    <2>2. CASE t # s
      BY <1>1, <1>2, <2>1, <2>2, Zenon DEF NoRequestOf, Called
    <2>3. CASE t = s
      BY <1>1, <1>2, <2>1, <2>3, Zenon DEF NoRequestOf, Called
    <2> QED
      BY <2>2, <2>3
  <1>5. PeersLinked'
    BY <1>1, <1>2, Zenon DEF SubscribeInv, PeersLinked, PeersLinkedOf
  <1> QED
    BY <1>3, <1>4, <1>5, Zenon DEF SubscribeInv

\* What Enter does.
LEMMA EnterEffect ==
  ASSUME TypeOK, NEW s \in SessionId, NEW st \in Stages, Enter(s, st)
  PROVE  /\ stage'[s] = st /\ \A t \in SessionId : t # s => stage'[t] = stage[t] /\ todo'[t] = todo[t]
         /\ st = "subscribing" => todo'[s] = Wired
         /\ st = "deploying" => todo'[s] = Node
  BY DEF Enter, TypeOK

\* The manager enters a stage of the deployment of s.
LEMMA StageKeeps ==
  ASSUME TypeOK, SubscribeInv, NEW s \in SessionId, DeploySession(s) \/ NextStage(s)
  PROVE  SubscribeInv'
  <1>1. UNCHANGED <<refused, subscribed, asking, answered, subscriptions, pending, subEndpoints, monitor, link>>
    BY Zenon DEF DeploySession, NextStage, callerVars, recvVars
  <1>2. PICK st \in Stages : /\ Enter(s, st) /\ st # "idle"
                             /\ st = "subscribing" => stage[s] = "idle"
                             /\ stage[s] = "idle" \/ todo[s] = {}
    <2>1. CASE DeploySession(s)
      BY <2>1, Zenon DEF DeploySession, Stages
    <2>2. CASE NextStage(s)
      BY <2>2, Zenon DEF NextStage, After, Stages
    <2> QED
      BY <2>1, <2>2, Zenon
  <1>3. /\ stage'[s] = st /\ \A t \in SessionId : t # s => stage'[t] = stage[t] /\ todo'[t] = todo[t]
        /\ st = "subscribing" => todo'[s] = Wired
    BY <1>2, EnterEffect
  <1>4. OneRequest' /\ RightRequest' /\ EndpointsLinked'
    BY <1>1, Zenon DEF SubscribeInv, OneRequest, RightRequest, EndpointsLinked
  <1>5. NoRequest'
    <2> SUFFICES ASSUME NEW k \in Node, NEW t \in SessionId PROVE NoRequestOf(k, t)'
      BY Zenon DEF NoRequest
    <2>1. NoRequestOf(k, t)
      BY DEF SubscribeInv, NoRequest
    <2>2. CASE t # s
      BY <1>1, <1>3, <2>1, <2>2, ZenonT(30) DEF NoRequestOf, Called
    <2>3. CASE t = s
      BY <1>1, <1>2, <1>3, <2>1, <2>3 DEF NoRequestOf, Called
    <2> QED
      BY <2>2, <2>3
  <1>6. PeersLinked'
    <2> SUFFICES ASSUME NEW t \in SessionId PROVE PeersLinkedOf(t)'
      BY ZenonT(30) DEF PeersLinked
    <2>1. CASE t # s
      BY <1>1, <1>3, <2>1, Zenon DEF SubscribeInv, PeersLinked, PeersLinkedOf
    <2>2. CASE t = s
      <3>1. st = "subscribing" => \A k \in Node : s \notin subscribed[k]
        BY <1>2 DEF SubscribeInv, NoRequest, NoRequestOf
      <3> QED
        BY <1>1, <1>3, <2>2, <3>1, ZenonT(30) DEF PeersLinkedOf
    <2> QED
      BY <2>1, <2>2
  <1> QED
    BY <1>4, <1>5, <1>6 DEF SubscribeInv

\* As long as there is no fault, subscriptions go the way they should.
LEMMA SubscribeStep ==
  ASSUME TypeOK, SubscribeInv, [Next]_vars, UNCHANGED faults
  PROVE  SubscribeInv'
  <1>1. ASSUME UNCHANGED <<stage, todo, refused, callerVars, recvVars, link>> PROVE SubscribeInv'
    <2>1. UNCHANGED <<subscribed, asking, answered, subscriptions, pending, subEndpoints, monitor, link,
                      stage, todo, refused>>
      BY <1>1 DEF callerVars, recvVars
    <2>2. OneRequest' /\ RightRequest' /\ EndpointsLinked'
      BY <2>1, Zenon DEF SubscribeInv, OneRequest, RightRequest, EndpointsLinked
    <2>3. NoRequest'
      BY <2>1 DEF SubscribeInv, NoRequest, NoRequestOf, Called
    <2>4. PeersLinked'
      BY <2>1 DEF SubscribeInv, PeersLinked, PeersLinkedOf
    <2> QED
      BY <2>2, <2>3, <2>4 DEF SubscribeInv
  <1>2. CASE UNCHANGED vars
    BY <1>1, <1>2 DEF vars, deployVars
  <1>3. ASSUME NEW s \in SessionId, DeploySession(s) \/ NextStage(s) PROVE SubscribeInv'
    BY <1>3, StageKeeps, Zenon
  <1>4. ASSUME NEW s \in SessionId, NEW v \in Drop, EndDrop(s, v) PROVE SubscribeInv'
    BY <1>1, <1>4 DEF EndDrop, deployVars
  <1>5. ASSUME NEW n \in Node, NEW s \in SessionId,
               \/ Unreachable(n, s) \/ AddNodeSubscriptions(n, s) \/ Subscribed(n, s)
               \/ TimedOut(n, s) \/ Deploy(n, s) \/ Deployed(n, s) \/ TriggerDrops(n, s)
               \/ DestroySession(n, s)
        PROVE  SubscribeInv'
    <2>1. CASE Unreachable(n, s)
      <3>1. Answer(n, s, FALSE) /\ UNCHANGED <<callerVars, recvVars, link>> /\ asking[n][s] = <<>>
        BY <2>1, Zenon DEF Unreachable, Called
      <3> QED
        BY <3>1, AnswerKeeps, Zenon
    <2>2. CASE AddNodeSubscriptions(n, s)
      BY <2>2, AddKeeps
    <2>3. CASE Subscribed(n, s)
      BY <2>3, SubscribedKeeps
    <2>4. CASE TimedOut(n, s)
      BY <2>4, TimedOutKeeps
    <2>5. CASE Deploy(n, s)
      <3>1. stage[s] # "subscribing" /\ UNCHANGED <<callerVars, recvVars, link>>
        BY <2>5 DEF Deploy, Called
      <3>2. CASE Answer(n, s, TRUE)
        BY <3>1, <3>2, AnswerKeeps, Zenon
      <3>3. CASE UNCHANGED <<stage, todo, refused>>
        BY <1>1, <3>1, <3>3
      <3> QED
        BY <2>5, <3>2, <3>3, Zenon DEF Deploy
    <2>6. CASE Deployed(n, s)
      <3>1. stage[s] # "subscribing" /\ UNCHANGED <<callerVars, recvVars, link>> /\ Answer(n, s, TRUE)
        BY <2>6, Zenon DEF Deployed
      <3> QED
        BY <3>1, AnswerKeeps, Zenon
    <2>7. CASE TriggerDrops(n, s)
      <3>1. stage[s] # "subscribing" /\ UNCHANGED <<callerVars, recvVars, link>> /\ Answer(n, s, TRUE)
        BY <2>7, Zenon DEF TriggerDrops, Called
      <3> QED
        BY <3>1, AnswerKeeps, Zenon
    <2>8. CASE DestroySession(n, s)
      BY <1>1, <2>8 DEF DestroySession
    <2> QED
      BY <1>5, <2>1, <2>2, <2>3, <2>4, <2>5, <2>6, <2>7, <2>8
  <1>6. ASSUME NEW n \in Node,
               TakeSubscription(n) \/ TakeMonitor(n) \/ Publish(n) \/ Deliver(n) \/ Shutdown(n)
        PROVE  SubscribeInv'
    <2>1. CASE TakeSubscription(n)
      BY <2>1, TakeSubscriptionKeeps
    <2>2. CASE TakeMonitor(n)
      BY <2>2, TakeMonitorKeeps
    <2>3. CASE Publish(n)
      BY <2>3, SocketKeeps
    <2>4. CASE Deliver(n)
      BY <1>1, <2>4, Zenon DEF Deliver, deployVars
    <2>5. CASE Shutdown(n)
      BY <1>1, <2>5 DEF Shutdown, deployVars
    <2> QED
      BY <1>6, <2>1, <2>2, <2>3, <2>4, <2>5
  <1>7. ASSUME NEW n \in Node, NEW m \in Node, Connect(n, m) \/ TakeEvent(n, m) \/ LoseLink(n, m)
        PROVE  SubscribeInv'
    <2>1. CASE Connect(n, m)
      BY <2>1, SocketKeeps
    <2>2. CASE TakeEvent(n, m)
      BY <1>1, <2>2, Zenon DEF TakeEvent, deployVars
    <2>3. CASE LoseLink(n, m)
      BY <2>3 DEF LoseLink, Fault, TypeOK
    <2> QED
      BY <1>7, <2>1, <2>2, <2>3
  <1> QED
    BY <1>2, <1>3, <1>4, <1>5, <1>6, <1>7, StepKinds, Zenon

\* The steps that change a stage, or what is left to do in it.
LEMMA StageCases ==
  ASSUME [Next]_vars
  PROVE  \/ UNCHANGED <<stage, todo, refused>>
         \/ \E s \in SessionId : DeploySession(s) \/ NextStage(s)
         \/ \E n \in Node : \E s \in SessionId :
              \/ Unreachable(n, s) \/ Subscribed(n, s) \/ TimedOut(n, s)
              \/ Deploy(n, s) \/ Deployed(n, s) \/ TriggerDrops(n, s)
  <1>1. UNCHANGED vars => UNCHANGED <<stage, todo, refused>>
    BY DEF vars, deployVars
  <1>2. ASSUME NEW s \in SessionId, NEW v \in Drop, EndDrop(s, v)
        PROVE  UNCHANGED <<stage, todo, refused>>
    BY <1>2 DEF EndDrop, deployVars
  <1>3. ASSUME NEW n \in Node, NEW s \in SessionId, AddNodeSubscriptions(n, s) \/ DestroySession(n, s)
        PROVE  UNCHANGED <<stage, todo, refused>>
    BY <1>3 DEF AddNodeSubscriptions, DestroySession, deployVars
  <1>4. ASSUME NEW n \in Node, \/ TakeSubscription(n) \/ TakeMonitor(n) \/ Publish(n) \/ Deliver(n)
                               \/ Shutdown(n)
        PROVE  UNCHANGED <<stage, todo, refused>>
    BY <1>4, Zenon DEF TakeSubscription, TakeMonitor, Publish, Deliver, Shutdown, deployVars
  <1>5. ASSUME NEW n \in Node, NEW m \in Node, Connect(n, m) \/ TakeEvent(n, m) \/ LoseLink(n, m)
        PROVE  UNCHANGED <<stage, todo, refused>>
    BY <1>5, Zenon DEF Connect, TakeEvent, LoseLink, deployVars
  <1> QED
    BY <1>1, <1>2, <1>3, <1>4, <1>5, StepKinds, Zenon

\* A stage changes only when the manager enters one.
LEMMA StageSame ==
  ASSUME TypeOK, [Next]_vars, NEW s \in SessionId, stage'[s] # stage[s]
  PROVE  DeploySession(s) \/ NextStage(s)
  <1>1. ASSUME NEW n \in Node, NEW t \in SessionId,
               \/ Unreachable(n, t) \/ Subscribed(n, t) \/ TimedOut(n, t)
               \/ Deploy(n, t) \/ Deployed(n, t) \/ TriggerDrops(n, t)
        PROVE  UNCHANGED stage
    BY <1>1, Zenon DEF Unreachable, Subscribed, TimedOut, Deploy, Deployed, TriggerDrops, Answer
  <1>2. ASSUME NEW t \in SessionId, DeploySession(t) \/ NextStage(t), t # s
        PROVE  stage'[s] = stage[s]
    BY <1>2 DEF DeploySession, NextStage, Enter, TypeOK
  <1> QED
    BY <1>1, <1>2, StageCases

\* A deployment gets past its first stage in one of two ways.
LEMMA BeginCases ==
  ASSUME TypeOK, [Next]_vars, NEW s \in SessionId, Begun(s)', ~Begun(s)
  PROVE  \/ DeploySession(s) /\ (Rel = {} \/ Wired = {})
         \/ NextStage(s) /\ stage[s] = "subscribing" /\ ~refused[s]
  <1>1. CASE stage'[s] \in {"deploying", "triggering", "done"}
    <2>1. stage'[s] # stage[s]
      BY <1>1, Zenon DEF Begun
    <2>2. CASE DeploySession(s)
      <3>1. stage'[s] = IF Rel = {} \/ Wired = {} THEN "deploying" ELSE "subscribing"
        BY <2>2, Zenon DEF DeploySession, Enter, TypeOK
      <3> QED
        BY <1>1, <2>2, <3>1
    <2>3. CASE NextStage(s)
      <3>1. /\ stage[s] \in {"subscribing", "deploying", "triggering"}
            /\ stage'[s] = IF refused[s] THEN "failed" ELSE After(stage[s])
        BY <2>3 DEF NextStage, Enter, TypeOK
      <3> QED
        BY <1>1, <2>3, <3>1, Zenon DEF Begun
    <2> QED
      BY <2>1, <2>2, <2>3, StageSame, Zenon
  <1>2. CASE ended'[s] # {}
    <2>1. ended[s] = {} /\ ended'[s] # ended[s]
      BY <1>2, Zenon DEF Begun
    <2>2. ASSUME NEW n \in Node, NEW t \in SessionId, NEW us, Ends(n, t, us) PROVE FALSE
      <3>1. t = s
        BY <2>1, <2>2, EndsOther, Zenon
      <3>2. stage[s] = "deploying" \/ \E k \in Node : status[k][s] = "RUNNING"
        <4>1. ASSUME NEW v \in Local(n), EndDrop(s, v) PROVE status[n][s] = "RUNNING"
          BY <4>1, Zenon DEF EndDrop, Local
        <4>2. Deployed(n, s) => stage[s] = "deploying"
          BY DEF Deployed
        <4> QED
          BY <2>2, <3>1, <4>1, <4>2 DEF Ends
      <3> QED
        BY <3>2 DEF Begun
    <2>3. ASSUME NEW n \in Node, Publish(n) \/ Deliver(n) PROVE UNCHANGED ended
      BY <2>3, Zenon DEF Publish, Deliver, dropVars
    <2>4. ASSUME NEW n \in Node, NEW m \in Node, TakeEvent(n, m) \/ LoseLink(n, m) PROVE UNCHANGED ended
      BY <2>4 DEF TakeEvent, LoseLink, dropVars
    <2>5. UNCHANGED <<eventVars, dropVars>> => UNCHANGED ended
      BY DEF dropVars
    <2> QED
      BY <2>1, <2>2, <2>3, <2>4, <2>5, EventCases, ZenonT(30)
  <1>3. ASSUME NEW n \in Node, status'[n][s] \in {"DEPLOYING", "RUNNING", "FAILED"} PROVE FALSE
    <2>1. status'[n][s] # status[n][s] /\ status \in [Node -> [SessionId -> Statuses]]
      BY <1>3, Zenon DEF Begun, TypeOK
    <2>2. ASSUME NEW k \in Node, NEW t \in SessionId, Deploy(k, t) \/ Deployed(k, t) PROVE FALSE
      <3>1. stage[t] = "deploying" /\ \E st : status' = [status EXCEPT ![k][t] = st]
        BY <2>2, Zenon DEF Deploy, Deployed, Called
      <3>2. t = s
        BY <2>1, <3>1
      <3> QED
        BY <3>1, <3>2 DEF Begun
    <2>3. ASSUME NEW k \in Node, NEW t \in SessionId, DestroySession(k, t) PROVE FALSE
      BY <1>3, <2>1, <2>3 DEF DestroySession
    <2> QED
      BY <2>1, <2>2, <2>3, StatusCases
  <1> QED
    BY <1>1, <1>2, <1>3, Zenon DEF Begun

\* What is wired stays so, as long as there is no fault.
LEMMA WiredKeeps ==
  ASSUME TypeOK, [Next]_vars, UNCHANGED faults
  PROVE  /\ \A k \in Node : subscribed[k] \subseteq subscribed'[k]
         /\ \A k, m \in Node : link[k][m] \in Linked => link'[k][m] \in Linked
  <1>0. /\ link \in [Node -> [Node -> Linked \cup {"none", "connecting"}]]
        /\ subscribed \in [Node -> SUBSET SessionId]
    BY Zenon DEF TypeOK
  <1>1. CASE UNCHANGED <<callerVars, recvVars, link>>
    BY <1>1, Zenon DEF callerVars
  <1>2. ASSUME NEW n \in Node, NEW s \in SessionId,
               AddNodeSubscriptions(n, s) \/ Subscribed(n, s) \/ TimedOut(n, s)
        PROVE  UNCHANGED link /\ \A k \in Node : subscribed[k] \subseteq subscribed'[k]
    BY <1>0, <1>2, Zenon DEF AddNodeSubscriptions, Subscribed, TimedOut
  <1>3. ASSUME NEW n \in Node, TakeSubscription(n)
        PROVE  UNCHANGED subscribed /\ \A k, m \in Node : link[k][m] \in Linked => link'[k][m] \in Linked
    <2> DEFINE h == Head(subscriptions[n])
    <2>1. \/ UNCHANGED link
          \/ link' = [link EXCEPT ![n][h[1]] = IF @ = "none" THEN "connecting" ELSE @]
      BY <1>3, Zenon DEF TakeSubscription
    <2>2. UNCHANGED subscribed
      BY <1>3 DEF TakeSubscription
    <2> HIDE DEF h
    <2>3. \A k, m \in Node : link[k][m] \in Linked => link'[k][m] \in Linked
      BY <1>0, <2>1 DEF Linked
    <2> QED
      BY <2>2, <2>3, Zenon
  <1>4. ASSUME NEW n \in Node, TakeMonitor(n) PROVE UNCHANGED <<subscribed, link>>
    BY <1>4 DEF TakeMonitor
  <1>5. ASSUME NEW n \in Node, Publish(n) \/ \E m \in Node : Connect(n, m)
        PROVE  UNCHANGED subscribed /\ \A k, m \in Node : link[k][m] \in Linked => link'[k][m] \in Linked
    <2>1. UNCHANGED subscribed
      BY <1>5, Zenon DEF Publish, Connect, callerVars
    <2> QED
      BY <1>5, <2>1, LinkGrows, Zenon
  <1>6. ASSUME NEW n \in Node, NEW m \in Node, LoseLink(n, m) PROVE FALSE
    BY <1>6, FaultCounts, Zenon DEF LoseLink
  <1> QED
    BY <1>1, <1>2, <1>3, <1>4, <1>5, <1>6, CallerCases, Zenon

\* Deployment starts, and drops end, only when all is wired.
LEMMA WiredFirstStep ==
  ASSUME TypeOK, SubscribeInv, WiredFirst, [Next]_vars, UNCHANGED faults
  PROVE  WiredFirst'
  <1> SUFFICES ASSUME NEW s \in SessionId, Begun(s)' PROVE AllWired(s)'
    BY Zenon DEF WiredFirst
  <1>0. Wired \subseteq Node /\ \A n \in Node : Peers[n] \subseteq Node
    BY Zenon DEF Wired, Peers
  <1>1. /\ \A k \in Node : subscribed[k] \subseteq subscribed'[k]
        /\ \A k, m \in Node : link[k][m] \in Linked => link'[k][m] \in Linked
    BY WiredKeeps
  <1>2. AllWired(s) => AllWired(s)'
    BY <1>0, <1>1 DEF AllWired
  <1>3. CASE Begun(s)
    BY <1>2, <1>3 DEF WiredFirst
  <1>4. CASE Rel = {} \/ Wired = {}
    <2>1. Wired = {}
      BY <1>4, Zenon DEF Wired, Peers, Related
    <2> QED
      BY <2>1, Zenon DEF AllWired
  <1>5. CASE NextStage(s) /\ stage[s] = "subscribing" /\ ~refused[s]
    <2>1. todo[s] = {}
      BY <1>5, ZenonT(30) DEF NextStage
    <2>2. \A n \in Node : asking[n][s] = <<>>
      BY <2>1 DEF SubscribeInv, NoRequest, NoRequestOf
    <2>3. Range(<<>>) = {}
      BY DEF Range
    <2>4. PeersLinkedOf(s)
      BY DEF SubscribeInv, PeersLinked
    <2>5. AllWired(s)
      BY <1>0, <1>5, <2>1, <2>2, <2>3, <2>4, ZenonT(30) DEF PeersLinkedOf, AllWired
    <2> QED
      BY <1>2, <2>5
  <1> QED
    BY <1>3, <1>4, <1>5, BeginCases

\* What a step without a fault does to the status of a part.
LEMMA StatusKeeps ==
  ASSUME TypeOK, [Next]_vars, UNCHANGED faults, NEW k \in Node, NEW s \in SessionId
  PROVE  /\ status[k][s] \in Over => status'[k][s] = status[k][s]
         /\ status'[k][s] \in {"PRISTINE", "FINISHED"} => status[k][s] \in {"PRISTINE", "FINISHED"}
  <1>0. status \in [Node -> [SessionId -> Statuses]]
    BY DEF TypeOK
  <1>1. ASSUME NEW n \in Node, NEW t \in SessionId, Deploy(n, t) \/ Deployed(n, t)
        PROVE  \/ status[n][t] \in {"BUILDING", "DEPLOYING"}
                  /\ \E st \in {"DEPLOYING", "RUNNING", "FAILED"} : status' = [status EXCEPT ![n][t] = st]
               \/ status[n][t] = "PRISTINE" /\ status' = [status EXCEPT ![n][t] = "FINISHED"]
    BY <1>1, ZenonT(30) DEF Deploy, Deployed
  <1>2. ASSUME NEW n \in Node, NEW t \in SessionId, DestroySession(n, t) PROVE FALSE
    BY <1>2, FaultCounts, Zenon DEF DestroySession
  <1>3. ASSUME NEW n \in Node, NEW t \in SessionId, NEW st \in {"DEPLOYING", "RUNNING", "FAILED"},
               status[n][t] \in {"BUILDING", "DEPLOYING"}, status' = [status EXCEPT ![n][t] = st]
        PROVE  /\ status[k][s] \in Over => status'[k][s] = status[k][s]
               /\ status'[k][s] \in {"PRISTINE", "FINISHED"} => status[k][s] \in {"PRISTINE", "FINISHED"}
    BY <1>0, <1>3 DEF Over
  <1>4. ASSUME NEW n \in Node, NEW t \in SessionId,
               status[n][t] = "PRISTINE", status' = [status EXCEPT ![n][t] = "FINISHED"]
        PROVE  /\ status[k][s] \in Over => status'[k][s] = status[k][s]
               /\ status'[k][s] \in {"PRISTINE", "FINISHED"} => status[k][s] \in {"PRISTINE", "FINISHED"}
    BY <1>0, <1>4 DEF Over
  <1> QED
    BY <1>1, <1>2, <1>3, <1>4, StatusCases

\* A node that answers in the second stage is deployed, or has failed.
LEMMA AnswersDeployed ==
  ASSUME TypeOK, SubscribeInv, [Next]_vars, NEW s \in SessionId, NEW k \in todo[s],
         k \notin todo'[s], stage[s] = "deploying", stage'[s] = "deploying"
  PROVE  refused'[s] \/ status'[k][s] \in Over
  <1>0. /\ todo \in [SessionId -> SUBSET Node] /\ refused \in [SessionId -> BOOLEAN]
        /\ status \in [Node -> [SessionId -> Statuses]]
    BY Zenon DEF TypeOK
  <1>1. CASE UNCHANGED <<stage, todo, refused>>
    BY <1>1
  <1>2. ASSUME NEW t \in SessionId, DeploySession(t) \/ NextStage(t) PROVE FALSE
    <2>1. PICK st : Enter(t, st) /\ (t = s => st # "deploying")
      BY <1>2 DEF DeploySession, NextStage, After
    <2> QED
      BY <2>1 DEF Enter, TypeOK
  <1>3. ASSUME NEW n \in Node, NEW t \in SessionId, NEW ok \in BOOLEAN, Answer(n, t, ok)
        PROVE  n = k /\ t = s /\ (~ok => refused'[s])
    BY <1>0, <1>3, Zenon DEF Answer
  <1>4. ASSUME NEW n \in Node, NEW t \in SessionId, Unreachable(n, t) PROVE refused'[s]
    BY <1>3, <1>4, Zenon DEF Unreachable
  <1>5. ASSUME NEW n \in Node, NEW t \in SessionId, Subscribed(n, t) \/ TimedOut(n, t) PROVE FALSE
    <2>1. asking[n][t] # <<>> /\ (UNCHANGED todo \/ \E ok \in BOOLEAN : Answer(n, t, ok))
      BY <1>5, Zenon DEF Subscribed, TimedOut
    <2>2. stage[t] = "subscribing"
      BY <2>1, ZenonT(30) DEF SubscribeInv, NoRequest, NoRequestOf
    <2> QED
      BY <1>3, <2>1, <2>2
  <1>6. ASSUME NEW n \in Node, NEW t \in SessionId, Deploy(n, t) PROVE status'[k][s] \in Over
    <2>1. Answer(n, t, TRUE) /\ status' = [status EXCEPT ![n][t] = "FINISHED"]
      BY <1>6, Zenon DEF Deploy
    <2>2. n = k /\ t = s
      BY <1>3, <2>1, Zenon
    <2> QED
      BY <1>0, <2>1, <2>2 DEF Over
  <1>7. ASSUME NEW n \in Node, NEW t \in SessionId, Deployed(n, t) PROVE status'[k][s] \in Over
    <2>1. Answer(n, t, TRUE) /\ \E st \in Over : status' = [status EXCEPT ![n][t] = st]
      BY <1>7, Zenon DEF Deployed, Over
    <2>2. n = k /\ t = s
      BY <1>3, <2>1, Zenon
    <2> QED
      BY <1>0, <2>1, <2>2
  <1>8. ASSUME NEW n \in Node, NEW t \in SessionId, TriggerDrops(n, t) PROVE FALSE
    <2>1. Answer(n, t, TRUE) /\ stage[t] = "triggering"
      BY <1>8, Zenon DEF TriggerDrops, Called
    <2> QED
      BY <1>3, <2>1, Zenon
  <1> QED
    BY <1>1, <1>2, <1>4, <1>5, <1>6, <1>7, <1>8, StageCases, Zenon

\* No failure of a stage is forgotten.
LEMMA RefusedKeeps ==
  ASSUME TypeOK, [Next]_vars, NEW s \in SessionId, refused[s]
  PROVE  refused'[s]
  <1>1. ASSUME NEW t \in SessionId, DeploySession(t) \/ NextStage(t) PROVE UNCHANGED refused
    BY <1>1, Zenon DEF DeploySession, NextStage
  <1>2. ASSUME NEW n \in Node, NEW t \in SessionId,
               \/ Unreachable(n, t) \/ Subscribed(n, t) \/ TimedOut(n, t)
               \/ Deploy(n, t) \/ Deployed(n, t) \/ TriggerDrops(n, t)
        PROVE  UNCHANGED refused \/ \E ok \in BOOLEAN : Answer(n, t, ok)
    BY <1>2, ZenonT(30) DEF Unreachable, Subscribed, TimedOut, Deploy, Deployed, TriggerDrops
  <1>3. ASSUME NEW n \in Node, NEW t \in SessionId, NEW ok \in BOOLEAN, Answer(n, t, ok)
        PROVE  refused'[s]
    BY <1>3 DEF Answer, TypeOK
  <1> QED
    BY <1>1, <1>2, <1>3, StageCases

\* The second stage, step by step.
LEMMA AnsweredDeployedStep ==
  ASSUME TypeOK, SubscribeInv, AnsweredDeployed, [Next]_vars, UNCHANGED faults
  PROVE  AnsweredDeployed'
  <1> SUFFICES ASSUME NEW s \in SessionId, stage'[s] = "deploying", ~refused'[s],
                      NEW k \in Node, k \notin todo'[s]
               PROVE  status'[k][s] \in Over
    BY Zenon DEF AnsweredDeployed
  <1>1. CASE stage[s] = "deploying"
    <2>1. CASE k \in todo[s]
      BY <1>1, <2>1, AnswersDeployed, ZenonT(30)
    <2>2. CASE k \notin todo[s]
      <3>1. status[k][s] \in Over
        BY <1>1, <2>2, RefusedKeeps, ZenonT(30) DEF AnsweredDeployed
      <3> QED
        BY <3>1, StatusKeeps, Zenon
    <2> QED
      BY <2>1, <2>2, ZenonT(30)
  <1>2. CASE stage[s] # "deploying"
    <2>1. DeploySession(s) \/ NextStage(s)
      BY <1>2, StageSame, Zenon
    <2>2. PICK st \in Stages : Enter(s, st)
      BY <2>1, SMTT(30) DEF DeploySession, NextStage, After, Stages
    <2>3. todo'[s] = Node
      BY <2>2, EnterEffect, Zenon
    <2> QED
      BY <2>3, ZenonT(30)
  <1> QED
    BY <1>1, <1>2, Zenon

\* Deployed is deployed.
LEMMA DeployedKeeps ==
  ASSUME TypeOK, [Next]_vars, UNCHANGED faults, NEW s \in SessionId
  PROVE  /\ AllDeployed(s) => AllDeployed(s)'
         /\ (\E k \in Node : status[k][s] = "FAILED") => \E k \in Node : status'[k][s] = "FAILED"
         /\ EmptyParts => EmptyParts'
  <1>1. /\ \A k \in Node, t \in SessionId : status[k][t] \in Over => status'[k][t] = status[k][t]
        /\ \A k \in Node, t \in SessionId :
             status'[k][t] \in {"PRISTINE", "FINISHED"} => status[k][t] \in {"PRISTINE", "FINISHED"}
    BY StatusKeeps
  <1>2. AllDeployed(s) => AllDeployed(s)'
    BY <1>1 DEF AllDeployed
  <1>3. (\E k \in Node : status[k][s] = "FAILED") => \E k \in Node : status'[k][s] = "FAILED"
    BY <1>1 DEF Over
  <1>4. EmptyParts => EmptyParts'
    BY <1>1 DEF EmptyParts
  <1> QED
    BY <1>2, <1>3, <1>4, Zenon

\* Sessions are triggered in the third stage.
LEMMA TriggeredCases ==
  ASSUME TypeOK, [Next]_vars, NEW n \in Node, NEW s \in SessionId, s \in triggered'[n],
         s \notin triggered[n]
  PROVE  stage[s] = "triggering"
  <1>1. UNCHANGED vars => UNCHANGED triggered
    BY Zenon DEF vars, deployVars
  <1>2. ASSUME NEW t \in SessionId, DeploySession(t) \/ NextStage(t) \/ \E v \in Drop : EndDrop(t, v)
        PROVE  UNCHANGED triggered
    BY <1>2, Zenon DEF NextStage, DeploySession, EndDrop, deployVars
  <1>3. ASSUME NEW k \in Node, NEW t \in SessionId,
               \/ Unreachable(k, t) \/ AddNodeSubscriptions(k, t) \/ Subscribed(k, t)
               \/ TimedOut(k, t) \/ Deploy(k, t) \/ Deployed(k, t) \/ DestroySession(k, t)
        PROVE  UNCHANGED triggered
    BY <1>3, Zenon
    DEF Unreachable, AddNodeSubscriptions, Subscribed, TimedOut, Deploy, Deployed, DestroySession, deployVars
  <1>4. ASSUME NEW k \in Node, \/ TakeSubscription(k) \/ TakeMonitor(k) \/ Publish(k) \/ Deliver(k)
                               \/ Shutdown(k)
        PROVE  UNCHANGED triggered
    BY <1>4, Zenon DEF TakeSubscription, TakeMonitor, Publish, Deliver, Shutdown, deployVars
  <1>5. ASSUME NEW k \in Node, NEW m \in Node, Connect(k, m) \/ TakeEvent(k, m) \/ LoseLink(k, m)
        PROVE  UNCHANGED triggered
    BY <1>5, ZenonT(30) DEF Connect, TakeEvent, LoseLink, deployVars
  <1>6. ASSUME NEW k \in Node, NEW t \in SessionId, TriggerDrops(k, t) PROVE stage[s] = "triggering"
    BY <1>6 DEF TriggerDrops, Called, TypeOK
  <1> QED
    BY <1>1, <1>2, <1>3, <1>4, <1>5, <1>6, StepKinds, Zenon

\* The third stage, step by step.
LEMMA TriggeredLaterStep ==
  ASSUME TypeOK, AnsweredDeployed, TriggeredLater, [Next]_vars, UNCHANGED faults
  PROVE  TriggeredLater'
  <1> SUFFICES ASSUME NEW s \in SessionId,
                      stage'[s] \in {"triggering", "done"} \/ \E n \in Node : s \in triggered'[n]
               PROVE  AllDeployed(s)'
    BY Zenon DEF TriggeredLater
  <1>1. AllDeployed(s) => AllDeployed(s)'
    BY DeployedKeeps, Zenon
  <1>2. ASSUME stage[s] \in {"triggering", "done"} \/ \E n \in Node : s \in triggered[n]
        PROVE  AllDeployed(s)'
    BY <1>1, <1>2, ZenonT(30) DEF TriggeredLater
  <1>3. ASSUME NEW n \in Node, s \in triggered'[n], s \notin triggered[n] PROVE AllDeployed(s)'
    BY <1>2, <1>3, TriggeredCases, ZenonT(30)
  <1>4. ASSUME stage'[s] \in {"triggering", "done"}, stage[s] \notin {"triggering", "done"}
        PROVE  AllDeployed(s)'
    <2>1. DeploySession(s) \/ NextStage(s)
      BY <1>4, StageSame
    <2>2. ~DeploySession(s)
      BY <1>4 DEF DeploySession, Enter, TypeOK
    <2>3. /\ stage[s] \in {"subscribing", "deploying", "triggering"} /\ todo[s] = {}
          /\ stage'[s] = IF refused[s] THEN "failed" ELSE After(stage[s])
      BY <2>1, <2>2 DEF NextStage, Enter, TypeOK
    <2>4. stage[s] = "deploying" /\ ~refused[s]
      BY <1>4, <2>3 DEF After
    <2>5. AllDeployed(s)
      BY <2>3, <2>4 DEF AnsweredDeployed, AllDeployed
    <2> QED
      BY <1>1, <2>5, ZenonT(30)
  <1> QED
    BY <1>2, <1>3, <1>4, Zenon

\* Drops end when all is deployed, or a part has failed to load.
LEMMA EndedLaterStep ==
  ASSUME TypeOK, TriggeredLater, EndedLater, HeardEnded, [Next]_vars, UNCHANGED faults
  PROVE  EndedLater'
  <1> SUFFICES ASSUME NEW s \in SessionId, ended'[s] # {}
               PROVE  (\E k \in Node : status'[k][s] = "FAILED") \/ AllDeployed(s)'
    BY Zenon DEF EndedLater
  <1>1. ASSUME (\E k \in Node : status[k][s] = "FAILED") \/ AllDeployed(s)
        PROVE  (\E k \in Node : status'[k][s] = "FAILED") \/ AllDeployed(s)'
    BY <1>1, DeployedKeeps
  <1>2. CASE ended[s] # {}
    BY <1>1, <1>2 DEF EndedLater
  <1>3. CASE ended[s] = {}
    <2>1. ASSUME NEW n \in Node, NEW t \in SessionId, NEW us, Ends(n, t, us)
          PROVE  (\E k \in Node : status'[k][s] = "FAILED") \/ AllDeployed(s)'
      <3>1. t = s
        BY <1>3, <2>1, EndsOther, Zenon
      <3>2. ASSUME NEW v \in Local(n), EndDrop(s, v)
            PROVE  (\E k \in Node : status'[k][s] = "FAILED") \/ AllDeployed(s)'
        <4>1. v \in Drop /\ Home[v] = n
          BY DEF Local
        <4>2. CASE In(v) = {}
          <5>1. s \in triggered[n]
            BY <3>2, <4>1, <4>2, ZenonT(30) DEF EndDrop
          <5> QED
            BY <1>1, <5>1, Zenon DEF TriggeredLater
        <4>3. ASSUME NEW u \in In(v)
              PROVE  FALSE
          <5>1. <<u, v>> \in heard[s]
            BY <3>2, <4>1, <4>3, Zenon DEF EndDrop
          <5>2. <<u, v>>[1] \in ended[s]
            BY <5>1, Zenon DEF HeardEnded
          <5> QED
            BY <1>3, <5>2
        <4> QED
          BY <4>2, <4>3, Zenon
      <3>3. ASSUME status' = [status EXCEPT ![n][s] = "FAILED"]
            PROVE  \E k \in Node : status'[k][s] = "FAILED"
        BY <3>3, Zenon DEF TypeOK
      <3> QED
        BY <2>1, <3>1, <3>2, <3>3 DEF Ends
    <2>2. ASSUME NEW n \in Node, Publish(n) \/ Deliver(n) PROVE UNCHANGED ended
      BY <2>2, Zenon DEF Publish, Deliver, dropVars
    <2>3. ASSUME NEW n \in Node, NEW m \in Node, TakeEvent(n, m) \/ LoseLink(n, m) PROVE UNCHANGED ended
      BY <2>3, Zenon DEF TakeEvent, LoseLink, dropVars
    <2>4. UNCHANGED <<eventVars, dropVars>> => UNCHANGED ended
      BY DEF dropVars
    <2> QED
      BY <1>3, <2>1, <2>2, <2>3, <2>4, EventCases, ZenonT(30)
  <1> QED
    BY <1>2, <1>3

\* A drop hears only of drops that have ended.
LEMMA HeardEndedStep ==
  ASSUME TypeOK, OrderInv, HeardEnded, [Next]_vars
  PROVE  HeardEnded'
  <1> SUFFICES ASSUME NEW s \in SessionId, NEW r \in heard'[s]
               PROVE  r[1] \in ended'[s]
    BY Zenon DEF HeardEnded
  <1>0. heard \in [SessionId -> SUBSET Rel] /\ ended \in [SessionId -> SUBSET Drop]
    BY ZenonT(30) DEF TypeOK
  <1>1. ASSUME NEW n \in Node, NEW t \in SessionId, NEW us, Ends(n, t, us)
        PROVE  r[1] \in ended'[s]
    <2>1. /\ ended' = [ended EXCEPT ![t] = @ \cup Range(us)]
          /\ heard' = [heard EXCEPT ![t] = @ \cup {x \in Rel : x[1] \in Range(us) /\ Home[x[2]] = n}]
      BY <1>1, Zenon DEF Ends, End
    <2> QED
      BY <1>0, <2>1 DEF HeardEnded
  <1>2. ASSUME NEW n \in Node, Deliver(n) PROVE r[1] \in ended'[s]
    <2> DEFINE e == Head(eventsIn[n])
    <2>1. PICK told \in SUBSET Targets(n, e[2]) : heard' = [heard EXCEPT ![e[1]] = @ \cup ({e[2]} \X told)]
      BY <1>2, DeliverEffect, Zenon
    <2>2. UNCHANGED ended /\ eventsIn[n] # <<>> /\ e \in Event
      BY <1>2, DeliverEffect, Zenon
    <2>3. e[2] \in ended[e[1]]
      BY <2>2, ArrivedEnded
    <2> HIDE DEF e
    <2>4. r \in heard[s] \/ (s = e[1] /\ r[1] = e[2])
      BY <1>0, <2>1, Zenon
    <2> QED
      BY <2>2, <2>3, <2>4 DEF HeardEnded
  <1>3. ASSUME UNCHANGED <<ended, heard>> PROVE r[1] \in ended'[s]
    BY <1>3 DEF HeardEnded
  <1>4. ASSUME NEW n \in Node, Publish(n) PROVE UNCHANGED <<ended, heard>>
    BY <1>4, Zenon DEF Publish, dropVars
  <1>5. ASSUME NEW n \in Node, NEW m \in Node, TakeEvent(n, m) \/ LoseLink(n, m)
        PROVE  UNCHANGED <<ended, heard>>
    BY <1>5 DEF TakeEvent, LoseLink, dropVars
  <1>6. UNCHANGED <<eventVars, dropVars>> => UNCHANGED <<ended, heard>>
    BY DEF dropVars
  <1> QED
    BY <1>1, <1>2, <1>3, <1>4, <1>5, <1>6, EventCases, Zenon

\* The invariant is kept: a fault ends it, and faults are never undone.
LEMMA WireStep ==
  ASSUME TypeOK, OrderInv, WireInv, [Next]_vars
  PROVE  WireInv'
  <1> SUFFICES ASSUME faults' = 0 PROVE SubscribeInv' /\ WiredFirst' /\ DeployedFirst'
    BY Zenon DEF WireInv
  <1>1. UNCHANGED faults
    BY FaultSteps, FaultCounts, Zenon DEF Shutdown, LoseLink, DestroySession
  <1>2. SubscribeInv /\ WiredFirst /\ DeployedFirst
    BY <1>1 DEF WireInv
  <1>3. SubscribeInv' /\ WiredFirst'
    BY <1>1, <1>2, SubscribeStep, WiredFirstStep
  <1>4. AnsweredDeployed' /\ TriggeredLater'
    BY <1>1, <1>2, AnsweredDeployedStep, TriggeredLaterStep DEF DeployedFirst
  <1>5. EndedLater' /\ HeardEnded'
    BY <1>1, <1>2, EndedLaterStep, HeardEndedStep DEF DeployedFirst
  <1>6. EmptyParts'
    <2>1. SessionId # {} => EmptyParts'
      BY <1>1, <1>2, DeployedKeeps DEF DeployedFirst
    <2>2. SessionId = {} => EmptyParts'
      BY DEF EmptyParts
    <2> QED
      BY <2>1, <2>2
  <1> QED
    BY <1>3, <1>4, <1>5, <1>6 DEF DeployedFirst

\* It holds at the start: nobody has asked for anything.
LEMMA WireInit == Init => WireInv
  <1> SUFFICES ASSUME Init PROVE SubscribeInv /\ WiredFirst /\ DeployedFirst
    BY DEF WireInv
  <1>1. Queued(<<>>) = {} /\ Range(<<>>) = {} /\ Len(<<>>) = 0
    BY EmptyQueue, Zenon DEF Queued, Range
  <1>2. OneRequest
    <2>1. OneAt(<<>>, {}, {})
      BY <1>1, EmptyQueue, Zenon DEF OneAt
    <2>2. \A n \in Node : subscriptions[n] = <<>> /\ pending[n] = {} /\ answered[n] = {}
      BY Zenon DEF Init
    <2> QED
      BY <2>1, <2>2, Zenon DEF OneRequest
  <1>3. RightRequest
    BY Zenon DEF Init, RightRequest
  <1>4. NoRequest
    BY <1>1 DEF Init, NoRequest, NoRequestOf, Called
  <1>5. EndpointsLinked
    BY <1>1 DEF Init, EndpointsLinked
  <1>6. PeersLinked
    BY Zenon DEF Init, PeersLinked, PeersLinkedOf
  <1>7. WiredFirst
    BY DEF Init, WiredFirst, Begun
  <1>8. AnsweredDeployed /\ TriggeredLater /\ EndedLater /\ HeardEnded
    BY DEF Init, AnsweredDeployed, TriggeredLater, EndedLater, HeardEnded
  <1>9. EmptyParts
    BY DEF Init, EmptyParts
  <1> QED
    BY <1>2, <1>3, <1>4, <1>5, <1>6, <1>7, <1>8, <1>9 DEF SubscribeInv, DeployedFirst

\* And it says what WiredUp does.
LEMMA WireImplies ==
  ASSUME TypeOK, OrderInv, WireInv
  PROVE  WiredUp
  <1> SUFFICES ASSUME faults = 0, NEW n \in Node, NEW m \in Node, NEW i \in DOMAIN eventsOut[n],
                      Targets(m, eventsOut[n][i][2]) # {}
               PROVE  LET s == eventsOut[n][i][1] IN
                      /\ link[m][n] \in Linked /\ s \in subscribed[m]
                      /\ \/ \E k \in Node : status[k][s] = "FAILED"
                         \/ status[m][s] \in {"RUNNING", "FAILED"}
    BY Zenon DEF WiredUp
  <1> DEFINE s == eventsOut[n][i][1]
             u == eventsOut[n][i][2]
  <1>1. s \in SessionId /\ u \in Drop /\ Home[u] = n /\ u \in ended[s]
    BY QueuedEnded, Zenon DEF Event
  <1> HIDE DEF s, u
  <1>2. PICK v \in Local(m) : <<u, v>> \in Rel /\ Home[u] # m
    BY DEF Targets, u
  <1>3. n \in Peers[m] /\ m \in Wired
    <2>1. m # n /\ {Home[<<u, v>>[1]], Home[<<u, v>>[2]]} = {m, n}
      BY <1>1, <1>2 DEF Local
    <2>2. Related(m, n)
      BY <1>2, <2>1 DEF Related
    <2> QED
      BY <2>2, Zenon DEF Peers, Wired
  <1>4. AllWired(s)
    BY <1>1 DEF WireInv, WiredFirst, Begun
  <1>5. (\E k \in Node : status[k][s] = "FAILED") \/ AllDeployed(s)
    BY <1>1, Zenon DEF WireInv, DeployedFirst, EndedLater
  <1>6. status[m][s] # "FINISHED"
    BY <1>1, <1>2 DEF WireInv, DeployedFirst, EmptyParts
  <1>7. /\ link[m][n] \in Linked /\ s \in subscribed[m]
        /\ (\E k \in Node : status[k][s] = "FAILED") \/ status[m][s] \in {"RUNNING", "FAILED"}
    BY <1>3, <1>4, <1>5, <1>6, Zenon DEF AllWired, AllDeployed, Over
  <1> QED
    BY <1>7, Zenon DEF s

\* An event that waits to be published finds the nodes that need it connected,
\* subscribed and deployed, unless a part failed to load: whatever the graph, the
\* nodes and the sessions, as long as no fault occurred.
THEOREM WiredBeforeEvents == Spec => []WiredUp
  <1>1. Init => TypeOK /\ OrderInv /\ WireInv
    BY InitType, OrderInit, WireInit
  <1>2. TypeOK /\ OrderInv /\ WireInv /\ [Next]_vars => (TypeOK /\ OrderInv /\ WireInv)'
    BY TypeStep, OrderStep, WireStep
  <1>3. TypeOK /\ OrderInv /\ WireInv => WiredUp
    BY WireImplies
  <1> QED
    BY <1>1, <1>2, <1>3, PTL DEF Spec
=============================================================================
