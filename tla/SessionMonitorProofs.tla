------------------------ MODULE SessionMonitorProofs ------------------------
(***************************************************************************)
(* Theorems about SessionMonitor, for every set of nodes and every number  *)
(* of times the user presses a button.                                     *)
(***************************************************************************)
EXTENDS SessionMonitor, SequenceTheorems, WellFoundedInduction, TLAPS

\* A non-empty set of naturals has a least element: an induction over indices is
\* an argument about the least one that fails.
LEMMA LeastExists ==
  ASSUME NEW T, T \subseteq Nat, T # {}
  PROVE  \E i \in T : \A j \in T : i <= j
  <1> DEFINE R == OpToRel(<, Nat)
  <1>1. IsWellFoundedOn(R, Nat)
    BY NatLessThanWellFounded, Zenon
  <1>2. \A x, y \in Nat : y < x => <<y, x>> \in R
    BY DEF OpToRel
  <1> HIDE DEF R
  <1>3. PICK x \in T : \A y \in T : <<y, x>> \notin R
    BY <1>1, WFMin, Zenon
  <1>4. ASSUME NEW y \in T
        PROVE  x <= y
    <2>1. x \in Nat /\ y \in Nat
      BY <1>3
    <2>2. ~(y < x)
      BY <1>2, <1>3, <2>1
    <2> QED
      BY <2>1, <2>2
  <1> QED
    BY <1>4

\* What RemoveAt leaves of a sequence (the pending polls).
LEMMA RemoveAtProperties ==
  ASSUME NEW S, NEW s \in Seq(S), NEW k \in 1..Len(s)
  PROVE  /\ RemoveAt(s, k) \in Seq(S)
         /\ Len(RemoveAt(s, k)) = Len(s) - 1
         /\ \A i \in 1..Len(s) - 1 : RemoveAt(s, k)[i] = IF i < k THEN s[i] ELSE s[i + 1]
  <1> DEFINE a == SubSeq(s, 1, k - 1)
             b == SubSeq(s, k + 1, Len(s))
  <1>0. Len(s) \in Nat /\ k \in Nat
    OBVIOUS
  <1>1. /\ a \in Seq(S) /\ Len(a) = k - 1
        /\ \A i \in 1..k - 1 : a[i] = s[i]
    <2>1. \A i \in 1..k - 1 : s[i] \in S
      BY ElementOfSeq
    <2> QED
      BY <2>1, SubSeqProperties
  <1>2. /\ b \in Seq(S) /\ Len(b) = Len(s) - k
        /\ \A i \in 1..Len(s) - k : b[i] = s[k + i]
    <2>1. \A i \in k + 1 .. Len(s) : s[i] \in S
      BY ElementOfSeq
    <2> QED
      BY <2>1, SubSeqProperties
  <1>3. RemoveAt(s, k) = a \o b
    BY Zenon DEF RemoveAt
  <1> HIDE DEF a, b
  <1>4. /\ a \o b \in Seq(S)
        /\ Len(a \o b) = Len(s) - 1
        /\ \A i \in 1..Len(s) - 1 : (a \o b)[i] = IF i < k THEN a[i] ELSE b[i - (k - 1)]
    <2>1. /\ a \o b \in Seq(S)
          /\ Len(a \o b) = Len(a) + Len(b)
          /\ \A i \in 1..Len(a) + Len(b) :
               (a \o b)[i] = IF i <= Len(a) THEN a[i] ELSE b[i - Len(a)]
      BY <1>1, <1>2, ConcatProperties, Zenon
    <2>2. Len(a) + Len(b) = Len(s) - 1 /\ Len(a) = k - 1
      BY <1>0, <1>1, <1>2
    <2>3. \A i \in 1..Len(s) - 1 : i <= k - 1 <=> i < k
      BY <1>0
    <2> QED
      BY <2>1, <2>2, <2>3
  <1>5. \A i \in 1..Len(s) - 1 : (a \o b)[i] = IF i < k THEN s[i] ELSE s[i + 1]
    <2> TAKE i \in 1..Len(s) - 1
    <2>1. CASE i < k
      BY <1>0, <1>1, <1>4, <2>1
    <2>2. CASE ~(i < k)
      <3>1. i - (k - 1) \in 1..Len(s) - k /\ k + (i - (k - 1)) = i + 1
        BY <1>0, <2>2
      <3> QED
        BY <1>2, <1>4, <2>2, <3>1
    <2> QED
      BY <2>1, <2>2
  <1> QED
    BY <1>3, <1>4, <1>5

-----------------------------------------------------------------------------
(***************************************************************************)
(* What uniqueSessionStatus computes.                                      *)
(***************************************************************************)
Numbers == Indeterminate..Failed

\* Two statuses that are reduced to a started session have both started.
LEMMA ReducePairProperties ==
  ASSUME NEW prev \in Numbers, NEW v \in Status
  PROVE  /\ ReducePair(prev, v) \in Numbers
         /\ ReducePair(prev, v) \in Started => prev \in Started /\ v \in Started
  BY DEF Numbers, Status, ReducePair, Started, Null, Indeterminate, Pristine, Building,
         Deploying, Running, Finished, Cancelled, Failed

Reduces(got, n, g) ==
  /\ g \in [1..n -> Numbers]
  /\ \A i \in 1..n : g[i] = IF i = 1 THEN got[1] ELSE ReducePair(g[i - 1], got[i])

\* The reduction of any beginning of the answers is defined.
LEMMA ReductionExists ==
  ASSUME NEW got \in Seq(Status), got # <<>>, got[1] # Null
  PROVE  \E g : Reduces(got, Len(got), g)
  <1> DEFINE T == {n \in 1..Len(got) : ~\E g : Reduces(got, n, g)}
  <1>0. Len(got) \in Nat \ {0} /\ \A i \in 1..Len(got) : got[i] \in Status
    OBVIOUS
  <1>1. SUFFICES T = {}
    <2>1. Len(got) \in 1..Len(got)
      BY <1>0
    <2> QED
      BY <1>1, <2>1
  <1>2. SUFFICES ASSUME T # {} PROVE FALSE
    OBVIOUS
  <1>3. T \subseteq Nat
    OBVIOUS
  <1>4. PICK n \in T : \A m \in T : n <= m
    BY <1>2, <1>3, LeastExists, Zenon
  <1>5. n \in 1..Len(got) /\ ~\E g : Reduces(got, n, g)
    OBVIOUS
  <1>6. CASE n = 1
    <2> DEFINE g == [i \in 1..1 |-> got[1]]
    <2>1. got[1] \in Numbers
      BY <1>0 DEF Status, Numbers, Null, Indeterminate, Pristine, Failed
    <2>2. Reduces(got, 1, g)
      BY <2>1 DEF Reduces
    <2> QED
      BY <1>5, <1>6, <2>2
  <1>7. CASE n # 1
    <2>1. n - 1 \in 1..Len(got) /\ n - 1 \in Nat /\ n \in Nat /\ n > 1
      BY <1>0, <1>5, <1>7
    <2>2. n - 1 \notin T
      BY <1>4, <2>1
    <2>3. PICK f : Reduces(got, n - 1, f)
      BY <2>1, <2>2
    <2> DEFINE g == [i \in 1..n |-> IF i = n THEN ReducePair(f[n - 1], got[n]) ELSE f[i]]
    <2>4. f[n - 1] \in Numbers
      BY <2>1, <2>3 DEF Reduces
    <2>5. ReducePair(f[n - 1], got[n]) \in Numbers
      BY <1>0, <1>5, <2>4, ReducePairProperties
    <2>6. \A i \in 1..n : g[i] \in Numbers
      BY <2>1, <2>3, <2>5 DEF Reduces
    <2>7. ASSUME NEW i \in 1..n
          PROVE  g[i] = IF i = 1 THEN got[1] ELSE ReducePair(g[i - 1], got[i])
      <3>1. CASE i = n
        <4>1. g[n] = ReducePair(f[n - 1], got[n]) /\ g[n - 1] = f[n - 1]
          BY <2>1
        <4> HIDE DEF g
        <4> QED
          BY <2>1, <3>1, <4>1
      <3>2. CASE i # n
        <4>1. i \in 1..n - 1 /\ g[i] = f[i] /\ (i # 1 => g[i - 1] = f[i - 1])
          BY <2>1, <3>2
        <4> HIDE DEF g
        <4> QED
          BY <2>3, <4>1 DEF Reduces
      <3> QED
        BY <3>1, <3>2
    <2>8. Reduces(got, n, g)
      BY <2>6, <2>7 DEF Reduces
    <2> QED
      BY <1>5, <2>8
  <1> QED
    BY <1>6, <1>7

\* What uniqueSessionStatus reduces to a started session has no node that has not
\* started, in whatever order the nodes answered.
LEMMA UniqueSessionStatusProperties ==
  ASSUME NEW got \in Seq(Status), got # <<>>, got[1] # Null
  PROVE  /\ UniqueSessionStatus(got) \in Numbers
         /\ UniqueSessionStatus(got) \in Started => \A i \in 1..Len(got) : got[i] \in Started
  <1> DEFINE n == Len(got)
             F(g) == g = [i \in 1..Len(got) |->
                            IF i = 1 THEN got[1] ELSE ReducePair(g[i - 1], got[i])]
             g == CHOOSE g : F(g)
  <1>0. n \in Nat \ {0} /\ \A i \in 1..n : got[i] \in Status
    OBVIOUS
  <1>1. PICK f : Reduces(got, n, f)
    BY ReductionExists
  <1>2. F(f)
    BY <1>1 DEF Reduces
  <1>3. F(g)
    BY <1>2, Zenon
  <1>4. UniqueSessionStatus(got) = g[n]
    BY DEF UniqueSessionStatus
  <1> HIDE DEF g
  <1>5. /\ g[1] = got[1]
        /\ \A i \in 2..n : g[i] = ReducePair(g[i - 1], got[i])
    BY <1>0, <1>3
  <1>6. \A i \in 1..n : g[i] \in Numbers
    <2> DEFINE T == {i \in 1..n : g[i] \notin Numbers}
    <2>1. SUFFICES ASSUME T # {} PROVE FALSE
      OBVIOUS
    <2>2. PICK i \in T : \A j \in T : i <= j
      <3>1. T \subseteq Nat
        OBVIOUS
      <3> QED
        BY <2>1, <3>1, LeastExists, Zenon
    <2>3. CASE i = 1
      BY <1>0, <1>5, <2>2, <2>3 DEF Status, Numbers, Null, Indeterminate, Pristine, Failed
    <2>4. CASE i # 1
      <3>1. i \in 2..n /\ i - 1 \in 1..n /\ i - 1 \notin T
        BY <1>0, <2>2, <2>4
      <3>2. g[i - 1] \in Numbers /\ got[i] \in Status
        BY <1>0, <3>1
      <3> QED
        BY <1>5, <2>2, <3>1, <3>2, ReducePairProperties
    <2> QED
      BY <2>3, <2>4
  <1>7. ASSUME g[n] \in Started
        PROVE  \A i \in 1..n : g[i] \in Started /\ got[i] \in Started
    <2> DEFINE T == {k \in 0..n - 1 : g[n - k] \notin Started}
    <2>1. T = {}
      <3>1. SUFFICES ASSUME T # {} PROVE FALSE
        OBVIOUS
      <3>2. PICK k \in T : \A j \in T : k <= j
        <4>1. T \subseteq Nat
          OBVIOUS
        <4> QED
          BY <3>1, <4>1, LeastExists, Zenon
      <3>3. k # 0
        BY <1>0, <1>7, <3>2
      <3>4. /\ k \in 1..n - 1 /\ k - 1 \in 0..n - 1 /\ ~(k <= k - 1)
            /\ n - k \in 1..n /\ n - k + 1 \in 2..n
            /\ n - (k - 1) = n - k + 1 /\ n - k + 1 - 1 = n - k
        BY <1>0, <3>3
      <3>5. g[n - k + 1] \in Started
        BY <3>2, <3>4
      <3>6. g[n - k + 1] = ReducePair(g[n - k], got[n - k + 1])
        BY <1>5, <3>4
      <3>7. g[n - k] \in Numbers /\ got[n - k + 1] \in Status
        BY <1>0, <1>6, <3>4
      <3> QED
        BY <3>2, <3>5, <3>6, <3>7, ReducePairProperties
    <2>2. ASSUME NEW i \in 1..n
          PROVE  g[i] \in Started
      <3>1. n - i \in 0..n - 1 /\ n - (n - i) = i
        BY <1>0
      <3> QED
        BY <2>1, <3>1, Zenon
    <2>3. ASSUME NEW i \in 1..n
          PROVE  got[i] \in Started
      <3>1. CASE i = 1
        BY <1>0, <1>5, <2>2, <3>1
      <3>2. CASE i # 1
        <4>1. i \in 2..n /\ i - 1 \in 1..n
          BY <1>0, <3>2
        <4> QED
          BY <1>0, <1>5, <1>6, <2>2, <4>1, ReducePairProperties
      <3> QED
        BY <3>1, <3>2
    <2> QED
      BY <2>2, <2>3
  <1>8. n \in 1..n
    BY <1>0
  <1> QED
    BY <1>4, <1>6, <1>7, <1>8

-----------------------------------------------------------------------------
(***************************************************************************)
(* The inductive invariant: the page is only open when the creation of the *)
(* session has been answered, so that a node without the session stays     *)
(* without it; a node whose answer says that it has started has started;   *)
(* and once the page asks for the states all nodes have, unless one lost   *)
(* the session.                                                            *)
(***************************************************************************)
Creation ==
  /\ jobs["create"].posted <=> client > 0
  /\ client >= 2 \/ chain # "closed" => Answered("create")

AllStarted == (\A n \in Node : status[n] \in Started) \/ (\E n \in Node : status[n] = Null)

Waiting ==
  (timer = "states" \/ \E i \in DOMAIN polls : polls[i].kind = "states") => AllStarted

HeardOf(q, n) == \E k \in DOMAIN q.got : q.got[k] \in Started => status[n] \in Started \cup {Null}

Heard ==
  \A i \in DOMAIN polls : polls[i].kind # "states" =>
    \A n \in Node \ polls[i].todo : HeardOf(polls[i], n)

IInv == TypeOK /\ OneChain /\ StatesWait /\ Creation /\ Waiting /\ Heard

JobType == [posted : BOOLEAN, todo : SUBSET Node, refused : BOOLEAN]

\* An operation leads from a status to a status; a node that has started stays so until
\* its session is destroyed, and one without the session gets it by a creation only.
LEMMA EffectProperties ==
  ASSUME NEW op \in Ops, NEW st \in Status, NEW after \in Effect(op, st)
  PROVE  /\ after \in Status
         /\ st \in Started => after \in Started \cup {Null}
         /\ op # "create" /\ st = Null => after = Null
  <1> USE DEF Status, Started, Null, Pristine, Building, Deploying, Running, Finished,
              Cancelled, Failed
  <1>1. CASE op = "create"
    BY <1>1 DEF Effect
  <1>2. CASE op = "append"
    BY <1>2 DEF Effect
  <1>3. CASE op = "deploy"
    BY <1>3 DEF Effect
  <1>4. CASE op = "cancel"
    BY <1>4 DEF Effect
  <1>5. CASE op = "destroy"
    BY <1>5 DEF Effect
  <1> QED
    BY <1>1, <1>2, <1>3, <1>4, <1>5 DEF Ops

\* The session is unknown to everybody at first.
LEMMA InitIInv == Init => IInv
  <1> SUFFICES ASSUME Init PROVE IInv
    OBVIOUS
  <1> USE DEF Init
  <1>1. TypeOK
    <2>1. status \in [Node -> Status]
      BY DEF Status
    <2>2. jobs \in [Ops -> JobType]
      BY DEF Job, JobType
    <2>3. polls \in Seq(Queries({"info", "states", "final"}))
      OBVIOUS
    <2>4. ask \in Queries({"none", "cancel", "destroy", "confirm"})
      <3>1. <<>> \in Seq(Status)
        OBVIOUS
      <3> QED
        BY <3>1 DEF NoQuery, Query, Queries
    <2>5. ended \subseteq Node /\ closing \subseteq Node /\ client \in 0..4
      OBVIOUS
    <2>6. drawn \in BOOLEAN /\ known \in BOOLEAN
      BY Zenon
    <2>7. /\ timer \in {"none", "graph", "states"} /\ shown \in {Blank} \cup Indeterminate..Failed
          /\ chain \in {"closed", "open", "over", "broken"}
      OBVIOUS
    <2> QED
      BY <2>1, <2>2, <2>3, <2>4, <2>5, <2>6, <2>7, Zenon DEF TypeOK, JobType
  <1>2. OneChain
    BY DEF OneChain
  <1>3. Creation
    BY DEF Creation, Job, Ops
  <1> QED
    BY <1>1, <1>2, <1>3 DEF IInv, StatesWait, Waiting, Heard

\* A step of the manager and its nodes, seen from the page.
LEMMA ServerStep ==
  ASSUME IInv, UNCHANGED <<timer, polls, chain>>, TypeOK', Creation',
         \A n \in Node : status[n] \in Started => status'[n] \in Started \cup {Null},
         chain # "closed" => \A n \in Node : status[n] = Null => status'[n] = Null
  PROVE  IInv'
  <1>0. polls \in Seq(Queries({"info", "states", "final"})) /\ Len(polls) \in Nat
    BY DEF IInv, TypeOK
  <1>1. OneChain'
    BY DEF IInv, OneChain
  <1>2. (timer = "states" \/ polls # <<>>) => chain # "closed"
    BY <1>0 DEF IInv, OneChain
  <1>3. AllStarted /\ chain # "closed" => AllStarted'
    <2>1. (\E n \in Node : status[n] = Null) /\ chain # "closed" => AllStarted'
      BY DEF AllStarted
    <2>2. (\A n \in Node : status[n] \in Started) => AllStarted'
      BY DEF AllStarted
    <2> QED
      BY <2>1, <2>2 DEF AllStarted
  <1>4. Waiting'
    BY <1>0, <1>2, <1>3 DEF IInv, Waiting
  <1>5. StatesWait'
    BY <1>0, <1>2 DEF IInv, StatesWait
  <1>6. Heard'
    <2> SUFFICES ASSUME NEW i \in DOMAIN polls, polls[i].kind # "states",
                        NEW n \in Node \ polls[i].todo
                 PROVE  HeardOf(polls[i], n)'
      BY DEF Heard
    <2>1. PICK k \in DOMAIN polls[i].got :
            polls[i].got[k] \in Started => status[n] \in Started \cup {Null}
      BY DEF IInv, Heard, HeardOf
    <2>2. chain # "closed"
      BY <1>0, <1>2
    <2>3. status[n] \in Started \cup {Null} => status'[n] \in Started \cup {Null}
      BY <2>2
    <2> QED
      BY <2>1, <2>3 DEF HeardOf
  <1> QED
    BY <1>1, <1>4, <1>5, <1>6 DEF IInv

\* One node does its part of an operation.
LEMMA DoStep ==
  ASSUME IInv, NEW op \in Ops, NEW n \in Node, Do(op, n)
  PROVE  IInv'
  <1> DEFINE j == jobs[op]
  <1>1. /\ status \in [Node -> Status] /\ jobs \in [Ops -> JobType]
        /\ j \in JobType /\ ended \subseteq Node /\ n \in j.todo
        /\ UNCHANGED <<closing, known, client, timer, polls, shown, drawn, chain, ask, asks>>
    BY DEF IInv, TypeOK, JobType, Do, page, user
  <1>2. PICK w \in JobType : /\ jobs' = [jobs EXCEPT ![op] = w]
                             /\ w.posted = j.posted /\ w.todo \subseteq j.todo
    <2>1. CASE Effect(op, status[n]) = {}
      <3> DEFINE w == [j EXCEPT !.todo = @ \ {n}, !.refused = TRUE]
      <3>1. w \in JobType /\ w.posted = j.posted /\ w.todo \subseteq j.todo
        BY <1>1, Zenon DEF JobType
      <3>2. jobs' = [jobs EXCEPT ![op] = w]
        BY <1>1, <2>1, Zenon DEF Do
      <3> QED
        BY <3>1, <3>2, Zenon
    <2>2. CASE Effect(op, status[n]) # {}
      <3>1. PICK st \in Effect(op, status[n]) :
              jobs' = [jobs EXCEPT ![op].todo = IF st = Deploying THEN @ ELSE @ \ {n}]
        BY <2>2 DEF Do
      <3> DEFINE w == [j EXCEPT !.todo = IF st = Deploying THEN @ ELSE @ \ {n}]
      <3>2. w \in JobType /\ w.posted = j.posted /\ w.todo \subseteq j.todo
        BY <1>1 DEF JobType
      <3>3. jobs' = [jobs EXCEPT ![op] = w]
        BY <1>1, <3>1
      <3> QED
        BY <3>2, <3>3, Zenon
    <2> QED
      BY <2>1, <2>2
  <1>3. /\ status' \in [Node -> Status] /\ ended' \subseteq Node
        /\ \A m \in Node : status[m] \in Started => status'[m] \in Started \cup {Null}
        /\ op # "create" => \A m \in Node : status[m] = Null => status'[m] = Null
    <2>1. CASE Effect(op, status[n]) = {}
      BY <1>1, <2>1 DEF Do
    <2>2. CASE Effect(op, status[n]) # {}
      <3>1. PICK st \in Effect(op, status[n]) :
              /\ status' = [status EXCEPT ![n] = st]
              /\ ended' \in {ended, ended \cup {n}}
        BY <2>2 DEF Do
      <3>2. /\ st \in Status
            /\ status[n] \in Started => st \in Started \cup {Null}
            /\ op # "create" /\ status[n] = Null => st = Null
        BY <1>1, EffectProperties
      <3> QED
        BY <1>1, <3>1, <3>2
    <2> QED
      BY <2>1, <2>2
  <1>4. jobs' \in [Ops -> JobType]
    BY <1>1, <1>2
  <1>5. TypeOK'
    BY <1>1, <1>3, <1>4 DEF IInv, TypeOK, JobType
  <1>6. Creation'
    <2>1. "create" \in Ops
      BY DEF Ops
    <2>2. /\ jobs'["create"].posted = jobs["create"].posted
          /\ jobs'["create"].todo \subseteq jobs["create"].todo
      BY <1>1, <1>2, <2>1
    <2> QED
      BY <1>1, <2>2 DEF IInv, Creation, Answered
  <1>7. chain # "closed" => op # "create"
    BY <1>1 DEF IInv, Creation, Answered
  <1> QED
    BY <1>1, <1>3, <1>5, <1>6, <1>7, ServerStep

\* A job that is given to the manager.
LEMMA PostProperties ==
  ASSUME IInv, NEW op \in Ops, Post(op)
  PROVE  /\ jobs' \in [Ops -> JobType] /\ known' \in BOOLEAN
         /\ jobs'[op].posted
         /\ op # "create" => jobs'["create"] = jobs["create"]
  BY DEF IInv, TypeOK, JobType, Post, Job, Ops

\* The drops of a node end, and a session is finished.
LEMMA NodeStep ==
  ASSUME IInv, NEW n \in Node, EndDrops(n) \/ Finish(n)
  PROVE  IInv'
  <1>1. /\ status \in [Node -> Status] /\ ended \subseteq Node /\ closing \subseteq Node
        /\ UNCHANGED <<known, jobs, client, timer, polls, shown, drawn, chain, ask, asks>>
    BY DEF IInv, TypeOK, EndDrops, Finish, page, user
  <1>2. \E st \in Status : /\ status' = [status EXCEPT ![n] = st]
                           /\ status[n] \in Started => st \in Started
                           /\ status[n] = Null => st = Null
    <2> USE DEF Status, Started, Null, Pristine, Running, Finished, Failed
    <2>1. CASE EndDrops(n)
      <3>1. status' = [status EXCEPT ![n] = status[n]] /\ status[n] \in Status
        BY <1>1, <2>1 DEF EndDrops
      <3> QED
        BY <3>1, Zenon
    <2>2. CASE Finish(n)
      <3>1. PICK st \in {Finished, Failed, status[n]} :
              /\ status' = [status EXCEPT ![n] = st]
              /\ st # status[n] => status[n] \in {Running, Finished}
        BY <1>1, <2>2 DEF Finish
      <3>2. /\ st \in Status
            /\ status[n] \in Started => st \in Started
            /\ status[n] = Null => st = Null
        BY <1>1, <3>1
      <3> QED
        BY <3>1, <3>2, Zenon
    <2> QED
      BY <2>1, <2>2
  <1>3. ended' \subseteq Node /\ closing' \subseteq Node
    BY <1>1 DEF EndDrops, Finish
  <1>4. /\ status' \in [Node -> Status]
        /\ \A m \in Node : status[m] \in Started => status'[m] \in Started \cup {Null}
        /\ \A m \in Node : status[m] = Null => status'[m] = Null
    BY <1>1, <1>2
  <1>5. TypeOK'
    BY <1>1, <1>3, <1>4 DEF IInv, TypeOK
  <1>6. Creation'
    BY <1>1 DEF IInv, Creation, Answered
  <1> QED
    BY <1>1, <1>4, <1>5, <1>6, ServerStep

\* The client posts the steps of its deployment in their order, each when the one before
\* has been answered.
LEMMA DeployStep ==
  ASSUME IInv, Deploy
  PROVE  IInv'
  <1> DEFINE op == Deployment[client + 1]
  <1>1. /\ client \in 0..2 /\ client' = client + 1 /\ Post(op)
        /\ UNCHANGED <<status, ended, closing, timer, polls, shown, drawn, chain, ask, asks>>
        /\ client > 0 => Answered(Deployment[client])
    BY DEF Deploy, IInv, TypeOK, page, user
  <1>2. /\ client = 0 => op = "create"
        /\ client = 1 => op = "append" /\ Answered("create")
        /\ client = 2 => op = "deploy"
    BY <1>1 DEF Deployment
  <1>3. op \in Ops
    BY <1>1, <1>2 DEF Ops
  <1> HIDE DEF op
  <1>4. /\ jobs' \in [Ops -> JobType] /\ known' \in BOOLEAN
        /\ jobs'[op].posted
        /\ op # "create" => jobs'["create"] = jobs["create"]
    BY <1>1, <1>3, PostProperties
  <1>5. TypeOK'
    BY <1>1, <1>4 DEF IInv, TypeOK, JobType
  <1>6. Creation'
    <2>1. CASE client = 0
      BY <1>1, <1>2, <1>4, <2>1 DEF IInv, Creation, Answered
    <2>2. CASE client # 0
      <3>1. jobs'["create"] = jobs["create"]
        BY <1>1, <1>2, <1>4, <2>2
      <3> QED
        BY <1>1, <1>2, <2>2, <3>1 DEF IInv, Creation, Answered
    <2> QED
      BY <2>1, <2>2
  <1> QED
    BY <1>1, <1>5, <1>6, ServerStep

-----------------------------------------------------------------------------
(***************************************************************************)
(* The steps of the page.                                                  *)
(***************************************************************************)
PollType == Queries({"info", "states", "final"})

\* A request that is sent asks all nodes and has heard nothing.
LEMMA QueryType ==
  ASSUME NEW kinds, NEW kind \in kinds
  PROVE  Query(kind) \in Queries(kinds)
  <1>1. <<>> \in Seq(Status)
    OBVIOUS
  <1> QED
    BY <1>1 DEF Query, Queries

\* What one node contributes is a status, or whether its drops have ended.
LEMMA AskedType ==
  ASSUME status \in [Node -> Status], NEW kinds, NEW q \in Queries(kinds), NEW n \in Node
  PROVE  /\ Asked(q, n) \in Queries(kinds)
         /\ Asked(q, n).kind = q.kind
         /\ Asked(q, n).todo = q.todo \ {n}
         /\ Len(Asked(q, n).got) = Len(q.got) + 1
         /\ \A k \in 1..Len(q.got) : Asked(q, n).got[k] = q.got[k]
         /\ q.kind # "states" => Asked(q, n).got[Len(q.got) + 1] = status[n]
         /\ Asked(q, n).refused => q.refused \/ status[n] \notin Started
  <1> DEFINE v == IF q.kind = "states" THEN IF n \in ended THEN 1 ELSE 0 ELSE status[n]
  <1>1. q.got \in Seq(Status) /\ q.todo \subseteq Node /\ q.refused \in BOOLEAN /\ q.kind \in kinds
    BY DEF Queries
  <1>2. v \in Status
    BY DEF Status, Pristine, Failed
  <1>3. q.kind # "states" => v = status[n]
    OBVIOUS
  <1> DEFINE a == Append(q.got, v)
             r == q.refused \/ (q.kind = "states" /\ status[n] \notin Started)
             w == [q EXCEPT !.todo = q.todo \ {n}, !.got = a, !.refused = r]
  <1>4. Asked(q, n) = w
    BY DEF Asked
  <1>5. r \in BOOLEAN /\ (r => q.refused \/ status[n] \notin Started)
    BY <1>1
  <1> HIDE DEF v
  <1>6. /\ a \in Seq(Status) /\ Len(a) = Len(q.got) + 1
        /\ \A k \in 1..Len(q.got) : a[k] = q.got[k]
        /\ a[Len(q.got) + 1] = v
    BY <1>1, <1>2, AppendProperties
  <1> HIDE DEF a, r
  <1>7. /\ w \in Queries(kinds) /\ w.kind = q.kind /\ w.todo = q.todo \ {n}
        /\ w.got = a /\ w.refused = r
    BY <1>5, <1>6, Zenon DEF Queries
  <1> HIDE DEF w
  <1> QED
    BY <1>3, <1>4, <1>5, <1>6, <1>7

\* While a request is under way there is no other one and no timer.
LEMMA OnePoll ==
  ASSUME IInv, NEW i \in DOMAIN polls
  PROVE  /\ i = 1 /\ DOMAIN polls = {1} /\ timer = "none" /\ chain = "open"
         /\ polls[1] \in PollType
         /\ RemoveAt(polls, i) = <<>>
         /\ \A q \in PollType : /\ [polls EXCEPT ![i] = q] \in Seq(PollType)
                                /\ Len([polls EXCEPT ![i] = q]) = 1
                                /\ DOMAIN [polls EXCEPT ![i] = q] = {1}
                                /\ [polls EXCEPT ![i] = q][1] = q
  <1>1. polls \in Seq(PollType) /\ Len(polls) \in Nat /\ DOMAIN polls = 1..Len(polls)
    BY LenProperties DEF IInv, TypeOK, PollType
  <1>2. Len(polls) = 1 /\ timer = "none" /\ chain = "open"
    BY <1>1 DEF IInv, OneChain
  <1>3. i = 1 /\ DOMAIN polls = {1} /\ polls[1] \in PollType
    BY <1>1, <1>2
  <1>4. RemoveAt(polls, i) \in Seq(PollType) /\ Len(RemoveAt(polls, i)) = 0
    <2>1. i \in 1..Len(polls)
      BY <1>1
    <2>2. RemoveAt(polls, i) \in Seq(PollType) /\ Len(RemoveAt(polls, i)) = Len(polls) - 1
      BY <1>1, <2>1, RemoveAtProperties, Zenon
    <2> QED
      BY <1>2, <2>2
  <1>5. RemoveAt(polls, i) = <<>>
    BY <1>4
  <1>6. ASSUME NEW q \in PollType
        PROVE  /\ [polls EXCEPT ![i] = q] \in Seq(PollType)
               /\ Len([polls EXCEPT ![i] = q]) = 1
               /\ DOMAIN [polls EXCEPT ![i] = q] = {1}
               /\ [polls EXCEPT ![i] = q][1] = q
    <2>1. i \in 1..Len(polls)
      BY <1>1
    <2>2. /\ [polls EXCEPT ![i] = q] \in Seq(PollType)
          /\ Len([polls EXCEPT ![i] = q]) = Len(polls)
          /\ \A j \in 1..Len(polls) : [polls EXCEPT ![i] = q][j] = IF j = i THEN q ELSE polls[j]
      BY <1>1, <2>1, ExceptSeq, Zenon
    <2>3. DOMAIN [polls EXCEPT ![i] = q] = DOMAIN polls
      OBVIOUS
    <2> QED
      BY <1>2, <1>3, <2>1, <2>2, <2>3
  <1> QED
    BY <1>2, <1>3, <1>5, <1>6

\* A step of the page that leaves no request under way.
LEMMA NoPollLeft ==
  ASSUME IInv, UNCHANGED <<server, jobs, client, ask>>,
         polls' = <<>>, shown' \in {Blank} \cup Numbers, drawn' \in BOOLEAN,
         chain # "closed", chain' \in {"open", "over", "broken"},
         timer' \in {"none", "graph", "states"},
         timer' = "none" <=> chain' # "open",
         timer' = "states" => AllStarted
  PROVE  IInv'
  <1> USE DEF server
  <1>1. TypeOK'
    <2>1. polls' \in Seq(Queries({"info", "states", "final"}))
      OBVIOUS
    <2> QED
      BY <2>1 DEF IInv, TypeOK, Numbers
  <1>2. OneChain'
    BY DEF OneChain
  <1>3. Creation'
    BY DEF IInv, Creation, Answered
  <1>4. Waiting'
    BY DEF Waiting, AllStarted
  <1> QED
    BY <1>1, <1>2, <1>3, <1>4 DEF IInv, StatesWait, Heard

\* A step of the page that leaves one request under way.
LEMMA OnePollLeft ==
  ASSUME IInv, UNCHANGED <<server, jobs, client, ask, shown>>,
         polls' \in Seq(PollType), Len(polls') = 1, drawn' \in BOOLEAN,
         chain = "open", chain' = "open", timer' = "none",
         polls'[1].kind = "states" =>
           AllStarted /\ (polls'[1].refused => \E n \in Node : status[n] = Null),
         polls'[1].kind # "states" =>
           \A n \in Node \ polls'[1].todo : HeardOf(polls'[1], n)
  PROVE  IInv'
  <1> USE DEF server
  <1>0. DOMAIN polls' = {1}
    OBVIOUS
  <1>1. TypeOK'
    BY DEF IInv, TypeOK, PollType
  <1>2. OneChain'
    BY DEF OneChain
  <1>3. Creation'
    BY DEF IInv, Creation, Answered
  <1>4. Waiting'
    BY <1>0 DEF Waiting, AllStarted
  <1>5. StatesWait'
    BY <1>0 DEF StatesWait
  <1>6. Heard'
    BY <1>0 DEF Heard, HeardOf
  <1> QED
    BY <1>1, <1>2, <1>3, <1>4, <1>5, <1>6 DEF IInv

\* The page is opened when the creation of the session has been answered.
LEMMA OpenStep ==
  ASSUME IInv, Open
  PROVE  IInv'
  <1>1. /\ chain = "closed" /\ chain' = "open" /\ timer' = "graph"
        /\ UNCHANGED <<status, ended, closing, known, jobs, polls, shown, drawn, ask, asks>>
        /\ client' = client \/ (client = 3 /\ client' = 4)
        /\ client = 3 \/ Answered("create")
    BY DEF Open, OpenPage, server, user
  <1>2. polls = <<>> /\ timer = "none"
    BY <1>1 DEF IInv, TypeOK, OneChain
  <1>3. TypeOK'
    BY <1>1 DEF IInv, TypeOK
  <1>4. OneChain'
    BY <1>1, <1>2 DEF OneChain
  <1>5. Creation'
    <2>1. Answered("create") /\ client \in 0..4
      BY <1>1 DEF IInv, TypeOK, Creation
    <2>2. jobs["create"].posted /\ client > 0
      BY <2>1 DEF IInv, Creation, Answered
    <2> QED
      BY <1>1, <2>1, <2>2 DEF Creation, Answered
  <1> QED
    BY <1>1, <1>2, <1>3, <1>4, <1>5 DEF IInv, StatesWait, Waiting, Heard

\* A timer that fires sends the one request there is.
LEMMA TickStep ==
  ASSUME IInv, Tick
  PROVE  IInv'
  <1> DEFINE kind == IF timer = "graph" THEN "info" ELSE "states"
  <1>1. /\ timer \in {"graph", "states"} /\ timer' = "none"
        /\ polls' = Append(polls, Query(kind))
        /\ UNCHANGED <<server, jobs, client, ask, shown, drawn, chain>>
    BY DEF Tick, Polling, IInv, TypeOK, user
  <1>2. polls = <<>> /\ chain = "open"
    BY <1>1 DEF IInv, TypeOK, OneChain
  <1>3. Query(kind) \in PollType
    BY QueryType DEF PollType
  <1>4. polls' \in Seq(PollType) /\ Len(polls') = 1 /\ polls'[1] = Query(kind)
    BY <1>1, <1>2, <1>3
  <1>5. polls'[1].kind = "states" => AllStarted /\ ~polls'[1].refused
    BY <1>1, <1>4 DEF Query, IInv, Waiting
  <1>6. Node \ polls'[1].todo = {}
    BY <1>4 DEF Query
  <1>7. drawn' \in BOOLEAN
    BY <1>1 DEF IInv, TypeOK
  <1> QED
    BY <1>1, <1>2, <1>4, <1>5, <1>6, <1>7, OnePollLeft

\* A node contributes to the answer of a request: what it says holds of it, and if it
\* cannot tell the state of its drops, it has lost the session since the page asked.
LEMMA NodeAnswersStep ==
  ASSUME IInv, NEW i \in DOMAIN polls, NEW n \in Node, NodeAnswers(i, n)
  PROVE  IInv'
  <1> DEFINE q == polls[1]
             w == Asked(q, n)
  <1>1. /\ i = 1 /\ timer = "none" /\ chain = "open" /\ q \in PollType
        /\ UNCHANGED <<server, jobs, client, ask, timer, shown, drawn, chain>>
        /\ polls' = [polls EXCEPT ![i] = w]
    BY OnePoll, Zenon DEF NodeAnswers, user
  <1>2. status \in [Node -> Status] /\ drawn' \in BOOLEAN /\ 1 \in DOMAIN polls
    BY <1>1 DEF IInv, TypeOK
  <1>3. /\ w \in PollType /\ w.kind = q.kind /\ w.todo = q.todo \ {n}
        /\ Len(w.got) = Len(q.got) + 1
        /\ \A k \in 1..Len(q.got) : w.got[k] = q.got[k]
        /\ q.kind # "states" => w.got[Len(q.got) + 1] = status[n]
        /\ w.refused => q.refused \/ status[n] \notin Started
    BY <1>1, <1>2, AskedType DEF PollType
  <1>4. q.got \in Seq(Status) /\ w.got \in Seq(Status) /\ Len(q.got) \in Nat
    BY <1>1, <1>3 DEF PollType, Queries
  <1>0. DOMAIN q.got = 1..Len(q.got) /\ DOMAIN w.got = 1..Len(q.got) + 1
    BY <1>3, <1>4, LenProperties
  <1> HIDE DEF w
  <1>5. polls' \in Seq(PollType) /\ Len(polls') = 1 /\ polls'[1] = w
    BY <1>1, <1>3, OnePoll
  <1>6. ASSUME q.kind = "states"
        PROVE  AllStarted /\ (w.refused => \E m \in Node : status[m] = Null)
    <2>1. AllStarted
      BY <1>2, <1>6 DEF IInv, Waiting
    <2>2. q.refused => \E m \in Node : status[m] = Null
      BY <1>2, <1>6 DEF IInv, StatesWait
    <2>3. status[n] \notin Started => \E m \in Node : status[m] = Null
      BY <2>1 DEF AllStarted
    <2> QED
      BY <1>3, <2>1, <2>2, <2>3
  <1>7. ASSUME q.kind # "states", NEW m \in Node \ w.todo
        PROVE  HeardOf(w, m)
    <2>1. CASE m = n
      <3>1. Len(q.got) + 1 \in DOMAIN w.got
        BY <1>3, <1>4
      <3> QED
        BY <1>3, <1>7, <2>1, <3>1 DEF HeardOf
    <2>2. CASE m # n
      <3>1. HeardOf(q, m)
        BY <1>2, <1>3, <1>7, <2>2 DEF IInv, Heard
      <3>2. PICK k \in DOMAIN q.got : q.got[k] \in Started => status[m] \in Started \cup {Null}
        BY <3>1 DEF HeardOf
      <3>3. k \in DOMAIN w.got /\ w.got[k] = q.got[k]
        BY <1>0, <1>3, <1>4
      <3> QED
        BY <3>2, <3>3 DEF HeardOf
    <2> QED
      BY <2>1, <2>2
  <1> QED
    BY <1>1, <1>2, <1>3, <1>5, <1>6, <1>7, OnePollLeft

\* The answer to updateGraph: if it shows a started session, every node has started.
LEMMA GraphAnswerStep ==
  ASSUME IInv, NEW i \in DOMAIN polls, GraphAnswer(i)
  PROVE  IInv'
  <1> DEFINE q == polls[1]
  <1>1. /\ i = 1 /\ 1 \in DOMAIN polls /\ timer = "none" /\ chain = "open" /\ q \in PollType
        /\ RemoveAt(polls, i) = <<>>
        /\ UNCHANGED <<server, jobs, client, ask>>
        /\ q.kind = "info" /\ q.todo = {}
    BY OnePoll DEF GraphAnswer, Back, user
  <1>2. /\ shown \in {Blank} \cup Numbers /\ drawn \in BOOLEAN /\ known \in BOOLEAN
        /\ status \in [Node -> Status]
    BY DEF IInv, TypeOK, Numbers
  <1>3. CASE Break(i)
    <2>1. chain' = "broken" /\ polls' = <<>> /\ timer' = "none" /\ shown' = shown /\ drawn' = drawn
      BY <1>1, <1>3 DEF Break
    <2> QED
      BY <1>1, <1>2, <2>1, NoPollLeft
  <1>4. ASSUME NEW st \in Information(q), shown' = st, drawn' = (drawn \/ st = Deploying),
               NextPoll(i, IF st \in Started THEN "states" ELSE "graph"), chain' = chain
        PROVE  IInv'
    <2>1. /\ \A n \in Node : status[n] # Null
          /\ ~known => st = Pristine
          /\ known => Reducible(q.got) /\ st = UniqueSessionStatus(q.got)
      BY <1>4 DEF Information
    <2>2. \A n \in Node : HeardOf(q, n)
      BY <1>1 DEF IInv, Heard
    <2>3. q.got \in Seq(Status) /\ q.got # <<>> /\ DOMAIN q.got = 1..Len(q.got)
      <3>1. q.got \in Seq(Status)
        BY <1>1 DEF PollType, Queries
      <3>2. q.got # <<>>
        BY <2>2, MonitorAssumption DEF HeardOf
      <3> QED
        BY <3>1, <3>2, LenProperties
    <2>4. known => /\ st \in Numbers
                   /\ st \in Started => \A k \in DOMAIN q.got : q.got[k] \in Started
      <3>1. Reducible(q.got) => q.got[1] # Null
        BY <2>3 DEF Reducible
      <3> QED
        BY <2>1, <2>3, <3>1, UniqueSessionStatusProperties
    <2>5. Pristine \in Numbers /\ Pristine \notin Started
      BY DEF Pristine, Numbers, Indeterminate, Failed, Started, Running
    <2>6. st \in Started => AllStarted
      <3> SUFFICES ASSUME st \in Started, NEW n \in Node
                   PROVE  status[n] \in Started
        BY DEF AllStarted
      <3>1. PICK k \in DOMAIN q.got : q.got[k] \in Started => status[n] \in Started \cup {Null}
        BY <2>2 DEF HeardOf
      <3> QED
        BY <2>1, <2>4, <2>5, <3>1
    <2>7. /\ polls' = <<>> /\ chain' = "open" /\ timer' \in {"graph", "states"}
          /\ timer' = "states" => st \in Started
      BY <1>1, <1>4 DEF NextPoll
    <2>8. shown' \in {Blank} \cup Numbers /\ drawn' \in BOOLEAN
      BY <1>2, <1>4, <2>1, <2>4, <2>5
    <2> QED
      BY <1>1, <2>6, <2>7, <2>8, NoPollLeft
  <1> QED
    BY <1>1, <1>3, <1>4 DEF GraphAnswer

\* The answer to updateStates: another one, or the last look at the status.
LEMMA StatesAnswerStep ==
  ASSUME IInv, NEW i \in DOMAIN polls, StatesAnswer(i)
  PROVE  IInv'
  <1> DEFINE q == polls[1]
  <1>1. /\ i = 1 /\ 1 \in DOMAIN polls /\ timer = "none" /\ chain = "open" /\ q \in PollType
        /\ RemoveAt(polls, i) = <<>>
        /\ UNCHANGED <<server, jobs, client, ask>>
        /\ q.kind = "states"
    BY OnePoll DEF StatesAnswer, Back, user
  <1>2. shown \in {Blank} \cup Numbers /\ drawn \in BOOLEAN
    BY DEF IInv, TypeOK, Numbers
  <1>3. CASE Break(i)
    <2>1. chain' = "broken" /\ polls' = <<>> /\ timer' = "none" /\ shown' = shown /\ drawn' = drawn
      BY <1>1, <1>3 DEF Break
    <2> QED
      BY <1>1, <1>2, <2>1, NoPollLeft
  <1>4. CASE ~Break(i)
    <2>1. drawn' = AllEnded(q) /\ shown' = shown /\ chain' = chain
      BY <1>1, <1>4 DEF StatesAnswer
    <2>2. drawn' \in BOOLEAN
      BY <2>1 DEF AllEnded
    <2>3. CASE AllEnded(q)
      <3>1. polls' = [polls EXCEPT ![i] = Query("final")] /\ timer' = timer
        BY <1>1, <1>4, <2>3, Zenon DEF StatesAnswer
      <3>2. Query("final") \in PollType
        BY QueryType DEF PollType
      <3>3. polls' \in Seq(PollType) /\ Len(polls') = 1 /\ polls'[1] = Query("final")
        BY <3>1, <3>2, OnePoll
      <3>4. polls'[1].kind = "final" /\ Node \ polls'[1].todo = {}
        BY <3>3 DEF Query
      <3> QED
        BY <1>1, <2>1, <2>2, <3>1, <3>3, <3>4, OnePollLeft
    <2>4. CASE ~AllEnded(q)
      <3>1. timer' = "states" /\ polls' = <<>>
        BY <1>1, <1>4, <2>4 DEF StatesAnswer, NextPoll
      <3>2. AllStarted
        BY <1>1 DEF IInv, Waiting
      <3> QED
        BY <1>1, <1>2, <2>1, <2>2, <3>1, <3>2, NoPollLeft
    <2> QED
      BY <2>3, <2>4
  <1> QED
    BY <1>3, <1>4

\* The last answer ends the polling.
LEMMA FinalAnswerStep ==
  ASSUME IInv, NEW i \in DOMAIN polls, FinalAnswer(i)
  PROVE  IInv'
  <1> DEFINE q == polls[1]
  <1>1. /\ i = 1 /\ 1 \in DOMAIN polls /\ timer = "none" /\ chain = "open" /\ q \in PollType
        /\ RemoveAt(polls, i) = <<>>
        /\ UNCHANGED <<server, jobs, client, ask>>
        /\ q.kind = "final" /\ q.todo = {}
    BY OnePoll DEF FinalAnswer, Back, user
  <1>2. shown \in {Blank} \cup Numbers /\ drawn \in BOOLEAN
    BY DEF IInv, TypeOK, Numbers
  <1>3. CASE Break(i)
    <2>1. chain' = "broken" /\ polls' = <<>> /\ timer' = "none" /\ shown' = shown /\ drawn' = drawn
      BY <1>1, <1>3 DEF Break
    <2> QED
      BY <1>1, <1>2, <2>1, NoPollLeft
  <1>4. CASE ~Break(i)
    <2>1. /\ Reducible(q.got) /\ shown' = UniqueSessionStatus(q.got)
          /\ chain' = "over" /\ polls' = <<>> /\ timer' = "none" /\ drawn' = drawn
      BY <1>1, <1>4 DEF FinalAnswer
    <2>2. q.got \in Seq(Status) /\ q.got # <<>>
      <3>1. q.got \in Seq(Status)
        BY <1>1 DEF PollType, Queries
      <3>2. \A n \in Node : HeardOf(q, n)
        BY <1>1 DEF IInv, Heard
      <3> QED
        BY <3>1, <3>2, MonitorAssumption DEF HeardOf
    <2>3. q.got[1] # Null
      BY <2>1, <2>2 DEF Reducible
    <2>4. shown' \in Numbers
      BY <2>1, <2>2, <2>3, UniqueSessionStatusProperties
    <2> QED
      BY <1>1, <1>2, <2>1, <2>4, NoPollLeft
  <1> QED
    BY <1>3, <1>4

AskType == Queries({"none", "cancel", "destroy", "confirm"})

\* A button pressed, the check of the status that follows, and the confirmation.
LEMMA AskStep ==
  ASSUME IInv,
         \/ \E what \in {"cancel", "destroy"} : Press(what)
         \/ \E n \in Node : AskAnswers(n)
         \/ Denied \/ Confirm
  PROVE  IInv'
  <1>1. UNCHANGED <<server, jobs, client, page>>
    BY DEF Press, AskAnswers, Denied, Confirm
  <1>2. ask' \in AskType
    <2>1. ask \in AskType /\ status \in [Node -> Status]
      BY DEF IInv, TypeOK, AskType
    <2>2. \A kind \in {"none", "cancel", "destroy", "confirm"} : Query(kind) \in AskType
      BY QueryType DEF AskType
    <2>3. [NoQuery EXCEPT !.kind = "confirm"] \in AskType
      BY <2>2, Zenon DEF NoQuery, AskType, Queries
    <2>4. \A n \in Node : Asked(ask, n) \in AskType
      BY <2>1, AskedType DEF AskType
    <2> QED
      BY <2>2, <2>3, <2>4 DEF Press, AskAnswers, Denied, Confirm, NoQuery
  <1>3. TypeOK'
    BY <1>1, <1>2 DEF IInv, TypeOK, AskType, server, page
  <1>4. Creation'
    BY <1>1 DEF IInv, Creation, Answered, page
  <1> QED
    BY <1>1, <1>3, <1>4, ServerStep DEF server, page

\* An order that is given.
LEMMA OrderStep ==
  ASSUME IInv, Cancel \/ Delete
  PROVE  IInv'
  <1>1. UNCHANGED <<status, ended, closing, client, timer, polls, drawn, chain>>
    BY DEF Cancel, Delete, page
  <1>2. ask' \in AskType
    BY QueryType DEF Cancel, Delete, NoQuery, AskType
  <1>3. /\ jobs' \in [Ops -> JobType] /\ known' \in BOOLEAN
        /\ jobs'["create"] = jobs["create"]
    <2>1. CASE Post("cancel") \/ Post("destroy")
      BY <2>1, PostProperties DEF Ops
    <2>2. CASE UNCHANGED <<jobs, known>>
      BY <2>2 DEF IInv, TypeOK, JobType
    <2> QED
      BY <2>1, <2>2 DEF Cancel, Delete
  <1>4. shown' \in {Blank} \cup Numbers
    BY DEF Cancel, Delete, page, IInv, TypeOK, Numbers, Cancelled, Indeterminate, Failed
  <1>5. TypeOK'
    BY <1>1, <1>2, <1>3, <1>4 DEF IInv, TypeOK, AskType, JobType, Numbers
  <1>6. Creation'
    BY <1>1, <1>3 DEF IInv, Creation, Answered
  <1> QED
    BY <1>1, <1>5, <1>6, ServerStep

\* Every step keeps the invariant.
LEMMA NextIInv ==
  ASSUME IInv, [Next]_vars
  PROVE  IInv'
  <1>1. CASE Work
    BY <1>1, DoStep, NodeStep, DeployStep DEF Work
  <1>2. CASE Browse
    BY <1>2, TickStep, NodeAnswersStep, GraphAnswerStep, StatesAnswerStep, FinalAnswerStep DEF Browse
  <1>3. CASE Open
    BY <1>3, OpenStep
  <1>4. CASE Buttons
    BY <1>4, AskStep, OrderStep DEF Buttons
  <1>5. CASE UNCHANGED vars
    <2>1. UNCHANGED <<server, jobs, client, page, user>>
      BY <1>5 DEF vars
    <2>2. TypeOK'
      BY <2>1 DEF IInv, TypeOK, server, page, user
    <2>3. Creation'
      BY <2>1 DEF IInv, Creation, Answered, page
    <2> QED
      BY <2>1, <2>2, <2>3, ServerStep DEF server, page
  <1> QED
    BY <1>1, <1>2, <1>3, <1>4, <1>5 DEF Next

-----------------------------------------------------------------------------
(***************************************************************************)
(* Theorems                                                                *)
(***************************************************************************)
\* The invariant holds throughout.
LEMMA MonitorInvariant == Spec => []IInv
  <1>1. IInv /\ [Next]_vars => IInv'
    BY NextIInv
  <1> QED
    BY <1>1, InitIInv, PTL DEF Spec

\* The page, the manager and its nodes keep their types.
THEOREM TypeCorrect == Spec => []TypeOK
  <1>1. IInv => TypeOK
    BY DEF IInv
  <1> QED
    BY <1>1, MonitorInvariant, PTL

\* A page that is watched has one timer or one request, whatever the nodes answer.
THEOREM OneChainOnly == Spec => []OneChain
  <1>1. IInv => OneChain
    BY DEF IInv
  <1> QED
    BY <1>1, MonitorInvariant, PTL

\* updateStates only asks nodes that have started or have lost the session, however many
\* nodes there are and however their answers to updateGraph were spread over time.
THEOREM StatesOnlyWhenStarted == Spec => []StatesWait
  <1>1. IInv => StatesWait
    BY DEF IInv
  <1> QED
    BY <1>1, MonitorInvariant, PTL
=============================================================================
