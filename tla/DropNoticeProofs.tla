-------------------------- MODULE DropNoticeProofs --------------------------
(***************************************************************************)
(* Theorems about how often the drops of a graph tell each other that they *)
(* have ended, for every graph that is built and triggered the way the     *)
(* managers do it.                                                         *)
(***************************************************************************)
EXTENDS DropGraphProofs

\* The parts of a call.
LEMMA CallParts ==
  ASSUME NEW op, NEW x
  PROVE  Call(op, x).op = op /\ Call(op, x).drop = x
  BY DEF Call

(***************************************************************************)
(* A barrier that is full opens.  While the execution status of an app     *)
(* that has heard of all its inputs is NOT_RUN, a thread is about to act   *)
(* on it: to compare the counters, to skip it, or to execute it.           *)
(***************************************************************************)
Acts(t, a) ==
  /\ stack[t] # <<>> /\ Self(t) = a
  /\ \/ Head(stack[t]).op \in {"evaluate", "skip", "skipApp", "markSkipped", "execute"}
     \/ /\ Head(stack[t]).op = "moveSkipped" /\ Tail(stack[t]) # <<>>
        /\ Head(Tail(stack[t])).op = "skipApp" /\ Head(Tail(stack[t])).drop = a

FullStarts(a) ==
  NHeard(a) = NEff(a) /\ NEff(a) > 0 /\ execStatus[a] = "NOT_RUN"
    => \E t \in Thread : Acts(t, a)

\* The threads an app has not been given yet have nothing to do.
Idle == \A a \in App, k \in 1..MaxRuns : k > runs[a] => stack[<<a, k>>] = <<>>

\* Before anything happens no thread is given to an app, and no app has
\* heard of an input.
LEMMA InitFull == Init => Idle /\ \A a \in App : FullStarts(a)
  <1> SUFFICES ASSUME Init
               PROVE  Idle /\ \A a \in App : FullStarts(a)
    BY Zenon
  <1>1. Idle
    <2>1. ASSUME NEW a \in App, NEW k \in 1..MaxRuns
          PROVE  <<a, k>> \in Thread /\ <<a, k>> \notin Callers
      BY ThreadAssumption DEF Thread, Worker
    <2> QED
      BY <2>1, Zenon DEF Init, Idle
  <1>2. ASSUME NEW a \in App
        PROVE  FullStarts(a)
    <2>1. NHeard(a) = 0
      BY DEF Init, NHeard
    <2> QED
      BY <2>1 DEF FullStarts
  <1> QED
    BY <1>1, <1>2

\* A step that changes nothing keeps the counting of inputs, and who acts.
LEMMA IdleFull ==
  ASSUME UNCHANGED vars, Idle, \A a \in App : FullStarts(a)
  PROVE  Idle' /\ \A a \in App : FullStarts(a)'
  <1>1. UNCHANGED <<stack, runs, execStatus, completedInputs, errorInputs, skippedInputs>>
    BY DEF vars, inputVars
  <1>2. Idle'
    BY <1>1 DEF Idle
  <1>3. ASSUME NEW a \in App
        PROVE  FullStarts(a)'
    <2>1. NHeard(a)' = NHeard(a) /\ NEff(a)' = NEff(a)
      BY <1>1 DEF NHeard, NEff, NInputs, Inputs
    <2>2. \A t \in Thread : Acts(t, a) => Acts(t, a)'
      BY <1>1 DEF Acts, Self
    <2> QED
      BY <1>1, <2>1, <2>2, Zenon DEF FullStarts
  <1> QED
    BY <1>2, <1>3, Zenon

\* Once every thread has stopped nobody acts on an app, so that an app with
\* all of its inputs has left NOT_RUN.
LEMMA QuietFull ==
  ASSUME Quiet, NEW a \in App, FullStarts(a), NHeard(a) \in Nat, NInputs(a) \in Nat,
         NHeard(a) <= NInputs(a), NEff(a) = NInputs(a), NInputs(a) > 0, NHeard(a) >= NEff(a)
  PROVE  execStatus[a] # "NOT_RUN"
  <1>1. NHeard(a) = NEff(a)
    OBVIOUS
  <1> QED
    BY <1>1 DEF FullStarts, Acts, Quiet

\* A stack with one more call on it.
LEMMA HeadFirst ==
  \A f \in SafeFrame, x \in Seq(SafeFrame) : <<f>> \o x # <<>> /\ Head(<<f>> \o x) = f
  OBVIOUS

\* The stack of a thread that returns.
LEMMA Returned ==
  ASSUME stack \in [Thread -> Seq(SafeFrame)], NEW t \in Thread, stack[t] # <<>>,
         NEW f, NEW gs \in Seq(SafeFrame), Return(t, <<f>> \o gs), f \in SafeFrame
  PROVE  /\ stack'[t] # <<>> /\ Head(stack'[t]) = f
         /\ Tail(stack'[t]) = gs \o Tail(stack[t])
  <1>1. stack[t] \in Seq(SafeFrame) /\ Tail(stack[t]) \in Seq(SafeFrame)
    OBVIOUS
  <1>2. stack'[t] = (<<f>> \o gs) \o Tail(stack[t])
    BY DEF Return
  <1> DEFINE r == Tail(stack[t])
  <1> HIDE DEF r
  <1>3. \A x \in Seq(SafeFrame) : /\ (<<f>> \o gs) \o x = <<f>> \o (gs \o x)
                                 /\ gs \o x \in Seq(SafeFrame)
    OBVIOUS
  <1>4. \A x \in Seq(SafeFrame) :
          <<f>> \o x # <<>> /\ Head(<<f>> \o x) = f /\ Tail(<<f>> \o x) = x
    OBVIOUS
  <1> QED
    BY <1>1, <1>2, <1>3, <1>4

\* A thread that goes on to one call.
LEMMA ReturnedOne ==
  ASSUME stack \in [Thread -> Seq(SafeFrame)], NEW t \in Thread, stack[t] # <<>>,
         NEW f \in SafeFrame, Return(t, <<f>>)
  PROVE  stack'[t] # <<>> /\ Head(stack'[t]) = f
  <1>1. <<f>> = <<f>> \o <<>> /\ <<>> \in Seq(SafeFrame)
    OBVIOUS
  <1>2. Return(t, <<f>> \o <<>>)
    BY <1>1, Zenon
  <1> QED
    BY <1>1, <1>2, Returned, Zenon

\* A thread with one of these calls of a on top acts on a.
LEMMA TopActs ==
  ASSUME NEW u \in Thread, NEW a, NEW f, stack'[u] # <<>>, Head(stack'[u]) = f, f.drop = a,
         f.op \in {"evaluate", "skip", "skipApp", "markSkipped", "execute"}
  PROVE  Acts(u, a)'
  BY DEF Acts, Self

\* The same of a call without arguments.
LEMMA CallActs ==
  ASSUME NEW u \in Thread, NEW a, NEW op \in {"evaluate", "skip", "skipApp", "markSkipped", "execute"},
         stack'[u] # <<>>, Head(stack'[u]) = Call(op, a)
  PROVE  Acts(u, a)'
  BY CallParts DEF Acts, Self

\* An app that is given a thread has it execute.
LEMMA AsyncStarts ==
  ASSUME IInv, NEW t \in Thread, NEW a \in App, AsyncExecute(t, a)
  PROVE  \E u \in Thread : stack'[u] # <<>> /\ Head(stack'[u]) = Call("execute", a)
  <1> DEFINE u == <<a, runs[a] + 1>>
             f == Call("execute", a)
  <1>1. runs[a] \in 0..MaxRuns /\ runs[a] < MaxRuns /\ MaxRuns \in Nat
    BY ThreadAssumption DEF AsyncExecute, IInv, TypeOK
  <1>2. u \in Thread
    BY <1>1 DEF Thread, Worker
  <1>3. stack'[u] = <<f>>
    BY <1>2 DEF AsyncExecute, IInv
  <1> HIDE DEF u, f
  <1>4. <<f>> # <<>> /\ Head(<<f>>) = f
    OBVIOUS
  <1> QED
    BY <1>2, <1>3, <1>4, Zenon DEF f

(***************************************************************************)
(* Counting calls: at most one call in S, or none, on all the stacks.      *)
(***************************************************************************)
AtMostOne(S) ==
  \A u, v \in Thread : \A i \in DOMAIN stack[u], j \in DOMAIN stack[v] :
    stack[u][i] \in S /\ stack[v][j] \in S => u = v /\ i = j

Nowhere(S) == \A u \in Thread : \A i \in DOMAIN stack[u] : stack[u][i] \notin S

\* The call i on u's stack after a step of t was the call o before it.
Was(t, k, u, i, o) ==
  /\ stack'[u][i] = stack[u][o]
  /\ u = t => o >= 2 /\ o = i + k
  /\ u # t => o = i

\* Every call on a stack is new or was there before.
LEMMA Place ==
  ASSUME stack \in [Thread -> Seq(SafeFrame)], NEW t \in Thread, NEW n, NEW k, Moves(t, n, k)
  PROVE  \A u \in Thread : \A i \in DOMAIN stack'[u] :
           \/ stack'[u][i].op \in {"execute", "failed"}
           \/ u = t /\ i <= n /\ Called(t, stack'[u][i])
           \/ \E o \in DOMAIN stack[u] : Was(t, k, u, i, o)
  <1> TAKE u \in Thread
  <1> TAKE i \in DOMAIN stack'[u]
  <1>1. CASE u # t /\ i \in DOMAIN stack[u] /\ stack'[u][i] = stack[u][i]
    BY <1>1 DEF Was
  <1>2. CASE u = t /\ i > n /\ i + k \in 2..Len(stack[t]) /\ stack'[u][i] = stack[t][i + k]
    <2>1. i + k \in DOMAIN stack[u] /\ i + k >= 2
      BY <1>2
    <2> QED
      BY <1>2, <2>1 DEF Was
  <1> QED
    BY <1>1, <1>2, Zenon DEF Moves

\* A step leaves at most one call of S if it makes at most one, and makes
\* one only where there was none or it replaces the one there was.
LEMMA KeptOne ==
  ASSUME stack \in [Thread -> Seq(SafeFrame)], stack' \in [Thread -> Seq(SafeFrame)],
         NEW t \in Thread, stack[t] # <<>>, NEW n \in Nat, NEW k \in Int, Moves(t, n, k),
         NEW S, \A f \in S : f.op \notin {"execute", "failed"}, AtMostOne(S),
         \A i, j \in DOMAIN stack'[t] :
           i <= n /\ j <= n /\ stack'[t][i] \in S /\ stack'[t][j] \in S => i = j,
         \A i \in DOMAIN stack'[t] :
           i <= n /\ stack'[t][i] \in S => Nowhere(S) \/ Head(stack[t]) \in S
  PROVE  AtMostOne(S)'
  <1> SUFFICES ASSUME NEW u \in Thread, NEW v \in Thread, NEW i \in DOMAIN stack'[u],
                      NEW j \in DOMAIN stack'[v], stack'[u][i] \in S, stack'[v][j] \in S
               PROVE  u = v /\ i = j
    BY Zenon DEF AtMostOne
  <1> DEFINE Old(w, m, o) == stack[w][o] \in S /\ Was(t, k, w, m, o)
  <1>1. ASSUME NEW w \in Thread, NEW m \in DOMAIN stack'[w], stack'[w][m] \in S
        PROVE  (w = t /\ m <= n) \/ \E o \in DOMAIN stack[w] : Old(w, m, o)
    <2>1. stack'[w][m].op \notin {"execute", "failed"}
      BY <1>1, Zenon
    <2>2. \/ w = t /\ m <= n
          \/ \E o \in DOMAIN stack[w] : Was(t, k, w, m, o)
      BY <2>1, Place, Zenon
    <2> QED
      BY <1>1, <2>2, Zenon DEF Was
  <1>2. i \in Nat /\ j \in Nat
    OBVIOUS
  <1>3. 1 \in DOMAIN stack[t] /\ stack[t][1] = Head(stack[t])
    <2>1. stack[t] \in Seq(SafeFrame)
      OBVIOUS
    <2> QED
      BY <2>1
  <1>4. ASSUME NEW w \in Thread, NEW m \in DOMAIN stack'[t], m <= n, stack'[t][m] \in S,
               NEW q, NEW o \in DOMAIN stack[w], Old(w, q, o)
        PROVE  FALSE
    <2>1. CASE Nowhere(S)
      BY <1>4, <2>1, Zenon DEF Nowhere
    <2>2. CASE Head(stack[t]) \in S
      <3>1. w = t /\ o = 1
        BY <1>3, <1>4, <2>2 DEF AtMostOne
      <3> QED
        BY <1>4, <3>1 DEF Was
    <2> QED
      BY <1>4, <2>1, <2>2, Zenon
  <1>5. CASE u = t /\ i <= n /\ v = t /\ j <= n
    BY <1>5
  <1>6. CASE /\ \E o \in DOMAIN stack[u] : Old(u, i, o)
             /\ \E o \in DOMAIN stack[v] : Old(v, j, o)
    <2>1. PICK o \in DOMAIN stack[u] : Old(u, i, o)
      BY <1>6
    <2>2. PICK p \in DOMAIN stack[v] : Old(v, j, p)
      BY <1>6
    <2>3. u = v /\ o = p
      BY <2>1, <2>2, Zenon DEF AtMostOne
    <2>4. CASE u = t
      BY <1>2, <2>1, <2>2, <2>3, <2>4 DEF Was
    <2>5. CASE u # t
      BY <2>1, <2>2, <2>3, <2>5 DEF Was
    <2> QED
      BY <2>4, <2>5
  <1> HIDE DEF Old
  <1> QED
    BY <1>1, <1>4, <1>5, <1>6

\* A step that makes no call of S leaves none, if there was none or the one
\* there was has returned.
LEMMA KeptNone ==
  ASSUME stack \in [Thread -> Seq(SafeFrame)], stack' \in [Thread -> Seq(SafeFrame)],
         NEW t \in Thread, stack[t] # <<>>, NEW n \in Nat, NEW k \in Int, Moves(t, n, k),
         NEW S, \A f \in S : f.op \notin {"execute", "failed"},
         Nowhere(S) \/ (AtMostOne(S) /\ Head(stack[t]) \in S),
         \A i \in DOMAIN stack'[t] : i <= n => stack'[t][i] \notin S
  PROVE  Nowhere(S)'
  <1> SUFFICES ASSUME NEW u \in Thread, NEW i \in DOMAIN stack'[u], stack'[u][i] \in S
               PROVE  FALSE
    BY Zenon DEF Nowhere
  <1>1. PICK o \in DOMAIN stack[u] : stack[u][o] \in S /\ (u = t => o >= 2)
    <2>1. stack'[u][i].op \notin {"execute", "failed"}
      OBVIOUS
    <2>2. \/ u = t /\ i <= n
          \/ \E o \in DOMAIN stack[u] : Was(t, k, u, i, o)
      BY <2>1, Place, Zenon
    <2> QED
      BY <2>2 DEF Was
  <1>2. 1 \in DOMAIN stack[t] /\ stack[t][1] = Head(stack[t])
    <2>1. stack[t] \in Seq(SafeFrame)
      OBVIOUS
    <2> QED
      BY <2>1
  <1>3. u = t /\ o = 1
    BY <1>1, <1>2 DEF AtMostOne, Nowhere
  <1> QED
    BY <1>1, <1>3

(***************************************************************************)
(* The inductive invariant.  A DataDROP d is on its way to the consumer a  *)
(* as a single call: the one that triggers d or follows from the report of *)
(* its last producer, then the ones that end d, then dropCompleted on a;   *)
(* after that a has heard of d, once, in one of its three lists.           *)
(***************************************************************************)
Notice(d, a) ==
  {f \in Frame : \/ f.op \in EndOp \cup {"trigger", "allFinished"} /\ f.drop = d
                 \/ f.op = "dropCompleted" /\ f.from = d /\ f.drop = a}

Lists == <<completedInputs, errorInputs, skippedInputs>>

Heard(d, a) == \E p \in 1..3 : \E i \in DOMAIN Lists[p][a] : Lists[p][a][i] = d

ListsApart ==
  \A a \in App : \A p, q \in 1..3 : \A i \in DOMAIN Lists[p][a], j \in DOMAIN Lists[q][a] :
    Lists[p][a][i] = Lists[q][a][j] => p = q /\ i = j

OnItsWay(d, a) ==
  /\ AtMostOne(Notice(d, a))
  /\ Heard(d, a) => Nowhere(Notice(d, a))
  /\ Heard(d, a) \/ ~Nowhere(Notice(d, a)) => Len(finishedProducers[d]) >= NProducers(d)

OnceInv == IInv /\ ListsApart /\ \A d \in Data, a \in App : OnItsWay(d, a)

\* The producers of a DataDROP can be counted.
LEMMA NProducersType ==
  ASSUME NEW d \in Data
  PROVE  NProducers(d) \in Nat
  <1>1. Producers(d) \in SUBSET Drop
    BY DEF Producers, Drop
  <1> QED
    BY <1>1, CountAssumption DEF NProducers

\* A DataDROP that is triggered has no producers to wait for.
LEMMA RootCount ==
  ASSUME RootsTriggered, NEW d \in Data, Triggered(d)
  PROVE  NProducers(d) = 0
  <1>1. Producers(d) = {} /\ {} \in SUBSET Drop
    BY DEF RootsTriggered
  <1> QED
    BY <1>1, CountAssumption DEF NProducers

\* Only producerFinished adds to the finished producers of a DataDROP, and
\* only dropCompleted adds to what an app has heard.
LEMMA StepCounts ==
  ASSUME NEW t \in Thread, Step(t)
  PROVE  /\ ProducerFinished(t) \/ (finishedProducers' = finishedProducers /\ ~At(t, "producerFinished"))
         /\ DropCompleted(t) \/ (Lists' = Lists /\ ~At(t, "dropCompleted"))
  <1>1. CASE DropStep(t)
    BY <1>1, ZenonT(30) DEF DropStep, SetCompleted, MoveCompleted, SetError, MoveError, ProducerFinished,
       AllFinished, Skip, MoveSkipped, Trigger, End, At, dataVars, inputVars, Lists
  <1>2. CASE AppStep(t)
    BY <1>2, Zenon DEF AppStep, SkipApp, MarkSkipped, FireProducerFinished, DropCompleted, Evaluate,
       FailInputs, Execute, Run, Ran, RunRaised, Failed, MarkFinished, GiveUp, SetFinalStatus,
       Notify, MoveFinished, At, dataVars, inputVars, Lists
  <1>3. CASE Write(t) \/ IOWrite(t) \/ Wrote(t)
    BY <1>3, Zenon DEF Write, IOWrite, Wrote, At, dataVars, inputVars, Lists
  <1> QED
    BY <1>1, <1>2, <1>3, Zenon DEF Step

\* A report of a producer is counted, and none is forgotten.
LEMMA StepFinished ==
  ASSUME IInv, NEW t \in Thread, Step(t), NEW d \in Data
  PROVE  /\ Len(finishedProducers[d]) \in Nat /\ Len(finishedProducers'[d]) \in Nat
         /\ Len(finishedProducers'[d]) >= Len(finishedProducers[d])
         /\ At(t, "producerFinished") /\ Self(t) = d
              => Len(finishedProducers'[d]) = Len(finishedProducers[d]) + 1
  <1>1. finishedProducers \in [Data -> Seq(DROPStates)]
    BY DEF IInv, TypeOK
  <1>2. Len(finishedProducers[d]) \in Nat
    BY <1>1
  <1>3. CASE finishedProducers' = finishedProducers /\ ~At(t, "producerFinished")
    BY <1>2, <1>3
  <1>4. CASE ProducerFinished(t)
    <2>1. Self(t) \in Data /\ Head(stack[t]).st \in DROPStates
      BY <1>4, TopCall DEF ProducerFinished, DataOp
    <2>2. \A e \in Data : finishedProducers'[e] =
            IF e = Self(t) THEN Append(finishedProducers[e], Head(stack[t]).st) ELSE finishedProducers[e]
      BY <1>1, <1>4, <2>1 DEF ProducerFinished
    <2>3. Len(Append(finishedProducers[d], Head(stack[t]).st)) = Len(finishedProducers[d]) + 1
      <3>1. finishedProducers[d] \in Seq(DROPStates)
        BY <1>1
      <3> QED
        BY <2>1, <3>1
    <2>4. CASE d = Self(t)
      <3>1. finishedProducers'[d] = Append(finishedProducers[d], Head(stack[t]).st)
        BY <2>2, <2>4, Zenon
      <3>2. Len(finishedProducers'[d]) = Len(finishedProducers[d]) + 1
        BY <2>3, <3>1, Zenon
      <3> QED
        BY <1>2, <3>2
    <2>5. CASE d # Self(t)
      BY <1>2, <2>2, <2>5
    <2> QED
      BY <2>4, <2>5
  <1> QED
    BY <1>3, <1>4, StepCounts

\* What an app hears is added to one of its lists.
Adds(p, a, d) ==
  /\ Lists'[p] = [Lists[p] EXCEPT ![a] = Append(@, d)]
  /\ \A q \in 1..3 \ {p} : Lists'[q] = Lists[q]

\* dropCompleted adds the DataDROP it is called for to one list, or raises.
LEMMA StepLists ==
  ASSUME NEW t \in Thread, Step(t)
  PROVE  \/ Lists' = Lists
         \/ At(t, "dropCompleted") /\ \E p \in 1..3 : Adds(p, Self(t), Head(stack[t]).from)
  <1> DEFINE a == Self(t)
             d == Head(stack[t]).from
  <1>1. CASE DropCompleted(t)
    <2>1. At(t, "dropCompleted")
      BY <1>1 DEF DropCompleted
    <2>2. \/ UNCHANGED inputVars
          \/ /\ errorInputs' = [errorInputs EXCEPT ![a] = Append(@, d)]
             /\ UNCHANGED <<completedInputs, skippedInputs>>
          \/ /\ completedInputs' = [completedInputs EXCEPT ![a] = Append(@, d)]
             /\ UNCHANGED <<errorInputs, skippedInputs>>
          \/ /\ skippedInputs' = [skippedInputs EXCEPT ![a] = Append(@, d)]
             /\ UNCHANGED <<completedInputs, errorInputs>>
      BY <1>1, Zenon DEF DropCompleted
    <2> HIDE DEF a, d
    <2>3. Lists' = Lists \/ Adds(1, a, d) \/ Adds(2, a, d) \/ Adds(3, a, d)
      BY <2>2 DEF Lists, Adds, inputVars
    <2> QED
      BY <2>1, <2>3 DEF a, d
  <1> QED
    BY <1>1, StepCounts

\* A call that is nowhere is not on top of a stack.
LEMMA TopSomewhere ==
  ASSUME stack \in [Thread -> Seq(SafeFrame)], NEW t \in Thread, stack[t] # <<>>, NEW S,
         Head(stack[t]) \in S
  PROVE  ~Nowhere(S)
  <1>1. stack[t] \in Seq(SafeFrame)
    OBVIOUS
  <1>2. 1 \in DOMAIN stack[t] /\ stack[t][1] = Head(stack[t])
    BY <1>1
  <1> QED
    BY <1>2, Zenon DEF Nowhere

\* A new notice replaces one, or is the first for a DataDROP whose last
\* producer has just reported.
LEMMA NewNotice ==
  ASSUME IInv, NEW t \in Thread, stack[t] # <<>>, NEW f, Called(t, f),
         NEW d \in Data, NEW a \in App, f \in Notice(d, a)
  PROVE  \/ Head(stack[t]) \in Notice(d, a) /\ Head(stack[t]).op # "dropCompleted"
         \/ /\ At(t, "producerFinished") /\ Self(t) = d
            /\ Len(finishedProducers[d]) + 1 = NProducers(d)
  <1>1. Head(stack[t]) \in Frame
    BY TopType, Zenon DEF IInv, SafeFrame
  <1>2. CASE f.op = "dropCompleted"
    <2>1. Head(stack[t]).op \in EndOp /\ Head(stack[t]).drop = d
      BY <1>2 DEF Called, Notice, EndOp
    <2> QED
      BY <1>1, <2>1 DEF Notice, EndOp
  <1>3. CASE f.op = "allFinished"
    <2>1. f.drop = d
      BY <1>3 DEF Notice
    <2> QED
      BY <1>3, <2>1 DEF Called, At, Self
  <1>4. CASE f.op \in EndOp
    <2>1. f.drop = d
      BY <1>4 DEF Notice, EndOp
    <2>2. Head(stack[t]).op \in {"trigger", "allFinished", "setCompleted", "setError"}
          /\ Head(stack[t]).drop = d
      BY <1>4, <2>1 DEF Called, EndOp
    <2> QED
      BY <1>1, <2>2 DEF Notice, EndOp
  <1>5. f.op # "trigger"
    BY DEF Called
  <1> QED
    BY <1>2, <1>3, <1>4, <1>5 DEF Notice

\* An app only hears of the DataDROP it is being told about.
LEMMA HeardNew ==
  ASSUME IInv, NEW t \in Thread, Step(t), NEW d \in Data, NEW a \in App,
         ~Heard(d, a), Heard(d, a)'
  PROVE  At(t, "dropCompleted") /\ Self(t) = a /\ Head(stack[t]).from = d
  <1> DEFINE e == Head(stack[t]).from
  <1>1. PICK q \in 1..3 : \E i \in DOMAIN Lists'[q][a] : Lists'[q][a][i] = d
    BY DEF Heard
  <1>2. Lists'[q] # Lists[q]
    BY <1>1, Zenon DEF Heard
  <1>3. At(t, "dropCompleted") /\ Adds(q, Self(t), e)
    BY <1>2, StepLists, Zenon DEF Adds
  <1>4. Self(t) \in App /\ e \in Data
    BY <1>3, TopCall DEF AppOp
  <1>5. Lists[q] \in [App -> Seq(Data)]
    BY DEF Lists, IInv, TypeOK
  <1> HIDE DEF e
  <1>6. Lists'[q] = [Lists[q] EXCEPT ![Self(t)] = Append(@, e)]
    BY <1>3 DEF Adds
  <1> DEFINE L == Lists[q]
             M == Lists'[q]
  <1>7. L \in [App -> Seq(Data)] /\ M = [L EXCEPT ![Self(t)] = Append(@, e)]
        /\ (\E i \in DOMAIN M[a] : M[a][i] = d) /\ ~(\E i \in DOMAIN L[a] : L[a][i] = d)
    BY <1>1, <1>5, <1>6 DEF Heard
  <1> HIDE DEF L, M
  <1>8. Self(t) = a /\ e = d
    <2>1. M[a] # L[a]
      BY <1>7, Zenon
    <2>2. Self(t) = a /\ M[a] = Append(L[a], e) /\ L[a] \in Seq(Data)
      BY <1>4, <1>7, <2>1
    <2>3. DOMAIN M[a] = 1..Len(L[a]) + 1 /\ \A i \in 1..Len(L[a]) + 1 :
            M[a][i] = IF i \in DOMAIN L[a] THEN L[a][i] ELSE e
      BY <1>4, <2>2
    <2> QED
      BY <1>7, <2>2, <2>3
  <1> QED
    BY <1>3, <1>8 DEF e

\* A step keeps at most one call on the way from d to a, and a hears of d
\* when that call is made.
LEMMA StepOnItsWay ==
  ASSUME SubscribedOnce, SizesUnknown, OnceInv, NEW t \in Thread, Step(t),
         NEW d \in Data, NEW a \in App
  PROVE  OnItsWay(d, a)'
  <1> DEFINE S == Notice(d, a)
             top == Head(stack[t])
             N == NProducers(d)
  <1>1. IInv /\ stack \in [Thread -> Seq(SafeFrame)] /\ stack[t] # <<>>
    BY StepBase DEF OnceInv
  <1>2. stack' \in [Thread -> Seq(SafeFrame)]
    BY <1>1, StepBase
  <1>3. PICK n \in Nat, k \in Int : Moves(t, n, k) /\ Apart(t, n)
    BY <1>1, StepEffect DEF Effect
  <1>4. /\ AtMostOne(S)
        /\ Heard(d, a) => Nowhere(S)
        /\ Heard(d, a) \/ ~Nowhere(S) => Len(finishedProducers[d]) >= N
    BY DEF OnceInv, OnItsWay
  <1>5. N \in Nat
    BY NProducersType
  <1>6. /\ Len(finishedProducers[d]) \in Nat /\ Len(finishedProducers'[d]) \in Nat
        /\ Len(finishedProducers'[d]) >= Len(finishedProducers[d])
        /\ At(t, "producerFinished") /\ Self(t) = d
             => Len(finishedProducers'[d]) = Len(finishedProducers[d]) + 1
    BY <1>1, StepFinished
  <1>7. \A f \in S : f.op \in NoticeOp /\ f.op \notin {"execute", "failed"}
    BY DEF Notice, NoticeOp, EndOp
  <1>8. ASSUME NEW i \in DOMAIN stack'[t], i <= n, stack'[t][i] \in S
        PROVE  \/ top \in S /\ top.op # "dropCompleted"
               \/ /\ At(t, "producerFinished") /\ Self(t) = d
                  /\ Len(finishedProducers[d]) + 1 = N
    <2>1. i \in Nat
      BY <1>2
    <2>2. ~(i > n)
      BY <1>8, <2>1
    <2>3. Called(t, stack'[t][i])
      BY <1>3, <1>7, <1>8, <2>2, Zenon DEF Moves
    <2> QED
      BY <1>1, <1>8, <2>3, NewNotice
  <1>9. ASSUME NEW i \in DOMAIN stack'[t], NEW j \in DOMAIN stack'[t], i <= n, j <= n,
               stack'[t][i] \in S, stack'[t][j] \in S
        PROVE  i = j
    <2>1. stack'[t][i].op \in NoticeOp /\ stack'[t][j].op \in NoticeOp
      BY <1>7, <1>9, Zenon
    <2>2. /\ stack'[t][i].op = stack'[t][j].op
          /\ stack'[t][i].drop = stack'[t][j].drop => i = j
      BY <1>3, <1>9, <2>1, Zenon DEF Apart
    <2>3. stack'[t][i].drop = stack'[t][j].drop
      BY <1>9, <2>2 DEF Notice, EndOp
    <2> QED
      BY <2>2, <2>3
  <1> HIDE DEF S, N
  <1>10. AtMostOne(S)'
    <2>1. \A i \in DOMAIN stack'[t] : i <= n /\ stack'[t][i] \in S => Nowhere(S) \/ top \in S
      <3> SUFFICES ASSUME NEW i \in DOMAIN stack'[t], i <= n, stack'[t][i] \in S, top \notin S
                   PROVE  Nowhere(S)
        BY Zenon
      <3>1. Len(finishedProducers[d]) + 1 = N
        BY <1>8
      <3> QED
        BY <1>4, <1>5, <1>6, <3>1
    <2> QED
      BY <1>1, <1>2, <1>3, <1>4, <1>7, <1>9, <2>1, KeptOne, Zenon
  <1>11. Heard(d, a)' => Nowhere(S)'
    <2>1. CASE Heard(d, a)
      <3>1. Nowhere(S) /\ Len(finishedProducers[d]) >= N
        BY <1>4, <2>1
      <3>2. top \notin S
        BY <1>1, <3>1, TopSomewhere
      <3>3. \A i \in DOMAIN stack'[t] : i <= n => stack'[t][i] \notin S
        BY <1>5, <1>6, <1>8, <3>1, <3>2
      <3> QED
        BY <1>1, <1>2, <1>3, <1>7, <3>1, <3>3, KeptNone, Zenon
    <2>2. CASE ~Heard(d, a) /\ Heard(d, a)'
      <3>1. At(t, "dropCompleted") /\ Self(t) = a /\ top.from = d
        BY <1>1, <2>2, HeardNew, Zenon
      <3>2. top \in S /\ top.op = "dropCompleted"
        BY <1>1, <3>1, TopType, Zenon DEF At, Self, S, Notice, SafeFrame
      <3>3. \A i \in DOMAIN stack'[t] : i <= n => stack'[t][i] \notin S
        BY <1>8, <3>2 DEF At
      <3> QED
        BY <1>1, <1>2, <1>3, <1>4, <1>7, <3>2, <3>3, KeptNone, Zenon
    <2> QED
      BY <2>1, <2>2
  <1>12. (Heard(d, a) \/ ~Nowhere(S))' => Len(finishedProducers'[d]) >= N
    <2> SUFFICES ASSUME ~(Len(finishedProducers'[d]) >= N)
                 PROVE  ~Heard(d, a)' /\ Nowhere(S)'
      OBVIOUS
    <2>1. ~Heard(d, a) /\ Nowhere(S)
      BY <1>4, <1>5, <1>6
    <2>2. top \notin S
      BY <1>1, <2>1, TopSomewhere
    <2>3. \A i \in DOMAIN stack'[t] : i <= n => stack'[t][i] \notin S
      BY <1>5, <1>6, <1>8, <2>2
    <2>4. Nowhere(S)'
      BY <1>1, <1>2, <1>3, <1>7, <2>1, <2>3, KeptNone, Zenon
    <2>5. ~Heard(d, a)'
      <3> SUFFICES ASSUME Heard(d, a)'
                   PROVE  FALSE
        OBVIOUS
      <3>1. At(t, "dropCompleted") /\ Self(t) = a /\ top.from = d
        BY <1>1, <2>1, HeardNew, Zenon
      <3>2. top \in S
        BY <1>1, <3>1, TopType, Zenon DEF At, Self, S, Notice, SafeFrame
      <3> QED
        BY <2>2, <3>2
    <2> QED
      BY <2>4, <2>5
  <1>13. NProducers(d)' = N
    BY DEF N, NProducers, Producers
  <1> QED
    BY <1>10, <1>11, <1>12, <1>13, Zenon DEF OnItsWay, S

\* What an app has heard stays apart: it is only told of what is news to it.
LEMMA StepApart ==
  ASSUME OnceInv, NEW t \in Thread, Step(t)
  PROVE  ListsApart'
  <1>1. CASE Lists' = Lists
    <2>1. ListsApart
      BY DEF OnceInv
    <2> QED
      BY <1>1, <2>1 DEF ListsApart
  <1>2. CASE At(t, "dropCompleted") /\ \E p \in 1..3 : Adds(p, Self(t), Head(stack[t]).from)
    <2> DEFINE x == Self(t)
               e == Head(stack[t]).from
    <2>1. PICK p \in 1..3 : Adds(p, x, e)
      BY <1>2
    <2>2. x \in App /\ e \in Data /\ Head(stack[t]) \in Notice(e, x) /\ stack[t] # <<>>
      <3>1. x \in App /\ e \in Data /\ Head(stack[t]) \in SafeFrame /\ stack[t] # <<>>
        BY <1>2, TopCall DEF AppOp, OnceInv
      <3> QED
        BY <1>2, <3>1 DEF At, Notice, SafeFrame, Self
    <2>3. ~Heard(e, x)
      BY <2>2, TopSomewhere DEF OnceInv, OnItsWay, IInv
    <2>4. \A q \in 1..3 : Lists[q] \in [App -> Seq(Data)]
      BY DEF Lists, OnceInv, IInv, TypeOK
    <2> HIDE DEF x, e
    <2> DEFINE L == Lists[p]
               M == Lists'[p]
    <2>5. L \in [App -> Seq(Data)] /\ M = [L EXCEPT ![x] = Append(@, e)]
      BY <2>1, <2>4 DEF Adds
    <2> HIDE DEF L, M
    <2>6. /\ \A a \in App \ {x} : M[a] = L[a]
          /\ DOMAIN M[x] = 1..Len(L[x]) + 1
          /\ \A i \in 1..Len(L[x]) + 1 : M[x][i] = IF i \in DOMAIN L[x] THEN L[x][i] ELSE e
          /\ \A i \in 1..Len(L[x]) + 1 : i \notin DOMAIN L[x] => i = Len(L[x]) + 1
      <3>1. L[x] \in Seq(Data) /\ M[x] = Append(L[x], e)
        BY <2>2, <2>5
      <3>2. \A a \in App \ {x} : M[a] = L[a]
        BY <2>5
      <3>3. Len(L[x]) \in Nat /\ DOMAIN L[x] = 1..Len(L[x])
        BY <3>1
      <3> QED
        BY <2>2, <3>1, <3>2, <3>3
    <2>7. ASSUME NEW a \in App, NEW q \in 1..3, NEW i \in DOMAIN Lists'[q][a]
          PROVE  \/ i \in DOMAIN Lists[q][a] /\ Lists'[q][a][i] = Lists[q][a][i]
                 \/ a = x /\ q = p /\ i = Len(L[x]) + 1 /\ Lists'[q][a][i] = e
      <3>1. CASE q # p
        BY <2>1, <2>7, <3>1 DEF Adds
      <3>2. CASE q = p /\ a # x
        BY <2>6, <2>7, <3>2 DEF L, M
      <3>3. CASE q = p /\ a = x
        BY <2>6, <2>7, <3>3 DEF L, M
      <3> QED
        BY <3>1, <3>2, <3>3
    <2> SUFFICES ASSUME NEW a \in App, NEW q \in 1..3, NEW r \in 1..3,
                        NEW i \in DOMAIN Lists'[q][a], NEW j \in DOMAIN Lists'[r][a],
                        Lists'[q][a][i] = Lists'[r][a][j]
                 PROVE  q = r /\ i = j
      BY Zenon DEF ListsApart
    <2>8. \A u \in 1..3 : \A k \in DOMAIN Lists[u][x] : Lists[u][x][k] # e
      BY <2>3, Zenon DEF Heard
    <2>9. ListsApart
      BY DEF OnceInv
    <2>10. /\ \/ i \in DOMAIN Lists[q][a] /\ Lists'[q][a][i] = Lists[q][a][i]
              \/ a = x /\ q = p /\ i = Len(L[x]) + 1 /\ Lists'[q][a][i] = e
           /\ \/ j \in DOMAIN Lists[r][a] /\ Lists'[r][a][j] = Lists[r][a][j]
              \/ a = x /\ r = p /\ j = Len(L[x]) + 1 /\ Lists'[r][a][j] = e
      BY <2>7, Zenon
    <2>11. CASE i \in DOMAIN Lists[q][a] /\ Lists'[q][a][i] = Lists[q][a][i]
      <3>1. CASE j \in DOMAIN Lists[r][a] /\ Lists'[r][a][j] = Lists[r][a][j]
        <4>1. Lists[q][a][i] = Lists[r][a][j]
          BY <2>11, <3>1, Zenon
        <4>2. \A u, v \in 1..3 : \A k \in DOMAIN Lists[u][a], m \in DOMAIN Lists[v][a] :
                Lists[u][a][k] = Lists[v][a][m] => u = v /\ k = m
          BY <2>9, Zenon DEF ListsApart
        <4> QED
          BY <2>11, <3>1, <4>1, <4>2
      <3>2. CASE a = x /\ r = p /\ Lists'[r][a][j] = e
        BY <2>8, <2>11, <3>2, Zenon
      <3> QED
        BY <2>10, <3>1, <3>2, Zenon
    <2>12. CASE a = x /\ q = p /\ i = Len(L[x]) + 1 /\ Lists'[q][a][i] = e
      <3>1. CASE j \in DOMAIN Lists[r][a] /\ Lists'[r][a][j] = Lists[r][a][j]
        BY <2>8, <2>12, <3>1, Zenon
      <3>2. CASE a = x /\ r = p /\ j = Len(L[x]) + 1
        BY <2>12, <3>2, Zenon
      <3> QED
        BY <2>10, <3>1, <3>2, Zenon
    <2> QED
      BY <2>10, <2>11, <2>12, Zenon
  <1> QED
    BY <1>1, <1>2, StepLists

\* Before anything happens, a call that triggers a DataDROP is the only one
\* on the way to its consumers, and it has no producers to wait for.
LEMMA InitOnce == RootsTriggered /\ Init => OnceInv
  <1> SUFFICES ASSUME RootsTriggered, Init
               PROVE  OnceInv
    OBVIOUS
  <1>1. IInv
    BY InitSafe
  <1>2. \A p \in 1..3 : \A a \in App : DOMAIN Lists[p][a] = {}
    BY DEF Init, Lists
  <1>3. ListsApart
    BY <1>2, Zenon DEF ListsApart
  <1>4. ASSUME NEW d \in Data, NEW a \in App, NEW u \in Thread, NEW i \in DOMAIN stack[u],
               stack[u][i] \in Notice(d, a)
        PROVE  u \in Callers /\ i \in DOMAIN Triggers[u] /\ Triggers[u][i] = d
    <2>1. u \in Callers
      BY <1>4 DEF Init
    <2>2. i \in DOMAIN Triggers[u] /\ stack[u][i] = Call("trigger", Triggers[u][i])
      BY <1>4, <2>1 DEF Init
    <2> QED
      BY <1>4, <2>1, <2>2 DEF Notice, Call
  <1>5. ASSUME NEW d \in Data, NEW a \in App
        PROVE  OnItsWay(d, a)
    <2>1. AtMostOne(Notice(d, a))
      BY <1>4 DEF AtMostOne, RootsTriggered
    <2>2. ~Heard(d, a)
      BY <1>2, Zenon DEF Heard
    <2>3. ASSUME ~Nowhere(Notice(d, a))
          PROVE  Len(finishedProducers[d]) >= NProducers(d)
      <3>1. PICK u \in Thread : \E i \in DOMAIN stack[u] : stack[u][i] \in Notice(d, a)
        BY <2>3 DEF Nowhere
      <3>2. Triggered(d)
        BY <1>4, <3>1 DEF Triggered
      <3>3. NProducers(d) = 0
        BY <3>2, RootCount
      <3>4. Len(finishedProducers[d]) = 0
        BY DEF Init
      <3> QED
        BY <3>3, <3>4
    <2> QED
      BY <2>1, <2>2, <2>3 DEF OnItsWay
  <1> QED
    BY <1>1, <1>3, <1>5 DEF OnceInv

\* Every step of every thread keeps the invariant.
LEMMA NextOnce == Orderly /\ OnceInv /\ [Next]_vars => OnceInv'
  <1> SUFFICES ASSUME Orderly, OnceInv, [Next]_vars
               PROVE  OnceInv'
    OBVIOUS
  <1>1. IInv'
    BY NextSafe DEF OnceInv
  <1>2. CASE UNCHANGED vars
    <2>1. UNCHANGED <<stack, finishedProducers, Lists>>
      BY <1>2 DEF vars, dataVars, inputVars, Lists
    <2>2. ListsApart'
      <3>1. ListsApart
        BY DEF OnceInv
      <3> QED
        BY <2>1, <3>1 DEF ListsApart
    <2>3. ASSUME NEW d \in Data, NEW a \in App
          PROVE  OnItsWay(d, a)'
      <3>1. OnItsWay(d, a)
        BY DEF OnceInv
      <3>2. NProducers(d)' = NProducers(d)
        BY DEF NProducers, Producers
      <3> QED
        BY <2>1, <3>1, <3>2, ZenonT(30) DEF OnItsWay, AtMostOne, Nowhere, Heard
    <2> QED
      BY <1>1, <2>2, <2>3 DEF OnceInv
  <1>3. ASSUME NEW t \in Thread, Step(t)
        PROVE  OnceInv'
    BY <1>1, <1>3, StepOnItsWay, StepApart DEF OnceInv, Orderly
  <1> QED
    BY <1>2, <1>3 DEF Next, Done

\* The three lists laid end to end have no repetition, since no two of their
\* entries are the same.
LEMMA ApartIsOnce ==
  ASSUME TypeOK, ListsApart
  PROVE  HeardOnce
  <1> SUFFICES ASSUME NEW a \in App
               PROVE  \A i, j \in DOMAIN (completedInputs[a] \o errorInputs[a] \o skippedInputs[a]) :
                        (completedInputs[a] \o errorInputs[a] \o skippedInputs[a])[i]
                          = (completedInputs[a] \o errorInputs[a] \o skippedInputs[a])[j] => i = j
    BY Zenon DEF HeardOnce
  <1> DEFINE c == completedInputs[a]
             e == errorInputs[a]
             s == skippedInputs[a]
             off == <<0, Len(c), Len(c) + Len(e)>>
  <1>1. c \in Seq(Data) /\ e \in Seq(Data) /\ s \in Seq(Data)
    BY DEF TypeOK
  <1>2. \A p \in 1..3 : Lists[p][a] = <<c, e, s>>[p]
    BY DEF Lists
  <1> HIDE DEF c, e, s
  <1>3. ASSUME NEW i \in DOMAIN (c \o e \o s)
        PROVE  \E p \in 1..3 : \E o \in DOMAIN <<c, e, s>>[p] :
                 (c \o e \o s)[i] = <<c, e, s>>[p][o] /\ i = off[p] + o
    <2>1. i \in Nat /\ i >= 1 /\ i <= Len(c) + Len(e) + Len(s)
      BY <1>1, <1>3
    <2>2. CASE i <= Len(c)
      <3>1. i \in DOMAIN c /\ (c \o e \o s)[i] = c[i] /\ i = 0 + i
        BY <1>1, <2>1, <2>2
      <3> QED
        BY <3>1
    <2>3. CASE ~(i <= Len(c)) /\ i <= Len(c) + Len(e)
      <3> DEFINE o == i - Len(c)
      <3>1. o \in DOMAIN e /\ (c \o e \o s)[i] = e[o] /\ i = Len(c) + o
        BY <1>1, <2>1, <2>3
      <3> HIDE DEF o
      <3> QED
        BY <3>1
    <2>4. CASE ~(i <= Len(c) + Len(e))
      <3> DEFINE o == i - (Len(c) + Len(e))
      <3>1. o \in DOMAIN s /\ (c \o e \o s)[i] = s[o] /\ i = (Len(c) + Len(e)) + o
        BY <1>1, <2>1, <2>4
      <3> HIDE DEF o
      <3> QED
        BY <3>1
    <2> QED
      BY <2>2, <2>3, <2>4
  <1> SUFFICES ASSUME NEW i \in DOMAIN (c \o e \o s), NEW j \in DOMAIN (c \o e \o s),
                      (c \o e \o s)[i] = (c \o e \o s)[j]
               PROVE  i = j
    BY Zenon DEF c, e, s
  <1>4. PICK p \in 1..3 : \E o \in DOMAIN <<c, e, s>>[p] :
               (c \o e \o s)[i] = <<c, e, s>>[p][o] /\ i = off[p] + o
    BY <1>3, Zenon
  <1>5. PICK q \in 1..3 : \E o \in DOMAIN <<c, e, s>>[q] :
               (c \o e \o s)[j] = <<c, e, s>>[q][o] /\ j = off[q] + o
    BY <1>3, Zenon
  <1> HIDE DEF off
  <1>6. PICK k \in DOMAIN Lists[p][a] : (c \o e \o s)[i] = Lists[p][a][k] /\ i = off[p] + k
    BY <1>2, <1>4, Zenon
  <1>7. PICK m \in DOMAIN Lists[q][a] : (c \o e \o s)[j] = Lists[q][a][m] /\ j = off[q] + m
    BY <1>2, <1>5, Zenon
  <1>8. Lists[p][a][k] = Lists[q][a][m]
    BY <1>6, <1>7, ZenonT(30)
  <1>9. p = q /\ k = m
    <2>1. \A u, v \in 1..3 : \A x \in DOMAIN Lists[u][a], y \in DOMAIN Lists[v][a] :
            Lists[u][a][x] = Lists[v][a][y] => u = v /\ x = y
      BY Zenon DEF ListsApart
    <2> QED
      BY <1>6, <1>7, <1>8, <2>1
  <1> QED
    BY <1>6, <1>7, <1>9, Zenon

\* An app hears of each of its inputs at most once, over its completed, failed
\* and skipped lists together: no interleaving of callers and workers delivers
\* a notice twice, whichever of setCompleted, setError, skip and the producers'
\* reports ends the input.
THEOREM HeardOnceAlways ==
  ASSUME Orderly
  PROVE  Spec => []HeardOnce
  <1>1. Init => OnceInv
    BY InitOnce DEF Orderly
  <1>2. OnceInv /\ [Next]_vars => OnceInv'
    BY NextOnce
  <1>3. OnceInv => HeardOnce
    BY ApartIsOnce DEF OnceInv, IInv
  <1> QED
    BY <1>1, <1>2, <1>3, PTL DEF Spec

(***************************************************************************)
(* Apps with one input are given one thread.  The calls that may start app *)
(* a are the one that triggers it, those on the way from its input, and    *)
(* the comparison of the counters in dropCompleted; there is never more    *)
(* than one of them, and none once the app has a thread.                   *)
(***************************************************************************)
Lone(a) == \A d, e \in Inputs(a) : d = e

Start(a) ==
  {f \in Frame : \/ f.op \in {"trigger", "evaluate"} /\ f.drop = a
                 \/ \E d \in Inputs(a) : f \in Notice(d, a)}

Reported(a) == \A d \in Inputs(a) : Len(finishedProducers[d]) >= NProducers(d)

StartInv(a) ==
  /\ AtMostOne(Start(a))
  /\ ~Nowhere(Start(a)) => runs[a] = 0
  /\ ~Nowhere(Start(a)) \/ runs[a] > 0 => Reported(a)
  /\ runs[a] <= 1

\* A thread is only given to the app that is triggered or that finds its
\* counters equal.
LEMMA StepRuns ==
  ASSUME NEW t \in Thread, Step(t)
  PROVE  \/ runs' = runs
         \/ /\ At(t, "trigger") \/ At(t, "evaluate")
            /\ Self(t) \in App \/ At(t, "evaluate")
            /\ runs' = [runs EXCEPT ![Self(t)] = @ + 1]
  <1>1. CASE DropStep(t)
    BY <1>1, Zenon DEF DropStep, SetCompleted, MoveCompleted, SetError, MoveError, ProducerFinished,
       AllFinished, Skip, MoveSkipped, Trigger, End, AsyncExecute
  <1>2. CASE AppStep(t)
    BY <1>2, Zenon DEF AppStep, SkipApp, MarkSkipped, FireProducerFinished, DropCompleted, Evaluate,
       FailInputs, Execute, Run, Ran, RunRaised, Failed, MarkFinished, GiveUp, SetFinalStatus,
       Notify, MoveFinished, AsyncExecute
  <1>3. CASE Write(t) \/ IOWrite(t) \/ Wrote(t)
    BY <1>3, Zenon DEF Write, IOWrite, Wrote
  <1> QED
    BY <1>1, <1>2, <1>3, Zenon DEF Step

\* A new call that may start an app replaces one, or follows from the report
\* of the last producer of its input.
LEMMA NewStart ==
  ASSUME IInv, NEW t \in Thread, stack[t] # <<>>, Head(stack[t]) \in SafeFrame,
         NEW f, Called(t, f), NEW a \in App, f \in Start(a)
  PROVE  \/ /\ Head(stack[t]) \in Start(a)
            /\ ~(Head(stack[t]).op \in {"trigger", "evaluate"} /\ Head(stack[t]).drop = a)
         \/ /\ At(t, "producerFinished") /\ Self(t) \in Inputs(a)
            /\ Len(finishedProducers[Self(t)]) + 1 = NProducers(Self(t))
  <1> DEFINE top == Head(stack[t])
  <1>0. top \in Frame /\ Data \cap App = {} /\ Inputs(a) \subseteq Data
    BY GraphAssumption, Zenon DEF SafeFrame, Inputs
  <1>1. CASE f.op = "evaluate"
    <2>1. top.op = "dropCompleted" /\ top.drop = a
      <3>1. f.drop = a
        BY <1>1 DEF Start, Notice, EndOp
      <3> QED
        BY <1>1, <3>1 DEF Called
    <2>2. top.from \in Inputs(a)
      BY <2>1 DEF SafeFrame
    <2>3. top \in Notice(top.from, a)
      BY <1>0, <2>1 DEF Notice
    <2> HIDE DEF top
    <2> QED
      BY <1>0, <2>1, <2>2, <2>3 DEF Start, top
  <1>2. CASE f.op # "evaluate"
    <2>1. PICK d \in Inputs(a) : f \in Notice(d, a)
      BY <1>2 DEF Start, Called
    <2>2. d \in Data
      BY <1>0
    <2>3. \/ top \in Notice(d, a) /\ top.op # "dropCompleted"
          \/ /\ At(t, "producerFinished") /\ Self(t) = d
             /\ Len(finishedProducers[d]) + 1 = NProducers(d)
      BY <2>1, <2>2, NewNotice
    <2>4. CASE top \in Notice(d, a) /\ top.op # "dropCompleted"
      <3>1. top.drop = d
        BY <2>4 DEF Notice
      <3>2. d # a
        BY <1>0, <2>2
      <3>3. top \in Start(a)
        BY <1>0, <2>4, Zenon DEF Start
      <3> QED
        BY <3>1, <3>2, <3>3
    <2> QED
      BY <2>3, <2>4
  <1> QED
    BY <1>1, <1>2

\* A step keeps at most one call that may start the app, and uses it up when
\* it gives the app a thread.
LEMMA StepStart ==
  ASSUME SubscribedOnce, SizesUnknown, IInv, NEW t \in Thread, Step(t),
         NEW a \in App, Lone(a), StartInv(a)
  PROVE  StartInv(a)'
  <1> DEFINE S == Start(a)
             top == Head(stack[t])
             asked == top.op \in {"trigger", "evaluate"} /\ top.drop = a
  <1>1. /\ stack \in [Thread -> Seq(SafeFrame)] /\ stack[t] # <<>>
        /\ stack' \in [Thread -> Seq(SafeFrame)] /\ top \in SafeFrame /\ top \in Frame
    BY StepBase
  <1>2. PICK n \in Nat, k \in Int : Moves(t, n, k) /\ Apart(t, n)
    BY <1>1, StepEffect DEF Effect
  <1>3. /\ AtMostOne(S)
        /\ ~Nowhere(S) => runs[a] = 0
        /\ ~Nowhere(S) \/ runs[a] > 0 => Reported(a)
        /\ runs[a] <= 1 /\ runs[a] \in Nat
    BY DEF StartInv, IInv, TypeOK
  <1>4. Inputs(a) \subseteq Data
    BY DEF Inputs
  <1>5. \A d \in Inputs(a) :
          /\ Len(finishedProducers[d]) \in Nat /\ Len(finishedProducers'[d]) \in Nat
          /\ Len(finishedProducers'[d]) >= Len(finishedProducers[d])
          /\ At(t, "producerFinished") /\ Self(t) = d
               => Len(finishedProducers'[d]) = Len(finishedProducers[d]) + 1
          /\ NProducers(d) \in Nat
    BY <1>4, StepFinished, NProducersType
  <1>6. Reported(a) => Reported(a)'
    <2>1. \A d \in Inputs(a) : NProducers(d)' = NProducers(d)
      BY DEF NProducers, Producers
    <2> QED
      BY <1>5, <2>1 DEF Reported
  <1>7. \A f \in S : f.op \in NoticeOp /\ f.op \notin {"execute", "failed"}
    BY DEF Start, Notice, NoticeOp, EndOp
  <1>8. ASSUME NEW i \in DOMAIN stack'[t], i <= n, stack'[t][i] \in S
        PROVE  Called(t, stack'[t][i])
    <2>1. i \in Nat
      BY <1>1
    <2>2. ~(i > n)
      BY <1>8, <2>1
    <2> QED
      BY <1>2, <1>7, <1>8, <2>2, Zenon DEF Moves
  <1>9. ASSUME NEW i \in DOMAIN stack'[t], i <= n, stack'[t][i] \in S
        PROVE  \/ top \in S /\ ~asked
               \/ /\ At(t, "producerFinished") /\ Self(t) \in Inputs(a)
                  /\ Len(finishedProducers[Self(t)]) + 1 = NProducers(Self(t))
    BY <1>1, <1>8, <1>9, NewStart
  <1>10. ASSUME NEW i \in DOMAIN stack'[t], NEW j \in DOMAIN stack'[t], i <= n, j <= n,
                stack'[t][i] \in S, stack'[t][j] \in S
         PROVE  i = j
    <2> DEFINE f == stack'[t][i]
               g == stack'[t][j]
    <2>1. f.op \in NoticeOp /\ g.op \in NoticeOp
      BY <1>7, <1>10, Zenon
    <2>2. f.op = g.op /\ (f.drop = g.drop => i = j)
      BY <1>2, <1>10, <2>1, ZenonT(30) DEF Apart
    <2>3. f.op # "trigger" /\ g.op # "trigger"
      BY <1>8, <1>10 DEF Called
    <2>4. f \in S /\ g \in S
      BY <1>10
    <2> HIDE DEF f, g
    <2>5. CASE f.op = "evaluate"
      <3>1. f.drop = a /\ g.drop = a
        BY <2>2, <2>4, <2>5, Zenon DEF Start, Notice, EndOp
      <3> QED
        BY <2>2, <3>1
    <2>6. CASE f.op # "evaluate"
      <3>1. PICK d \in Inputs(a) : f \in Notice(d, a)
        BY <2>3, <2>4, <2>6 DEF Start
      <3>2. PICK e \in Inputs(a) : g \in Notice(e, a)
        BY <2>2, <2>3, <2>4, <2>6 DEF Start
      <3>3. d = e
        BY <3>1, <3>2 DEF Lone
      <3>4. f.drop = g.drop
        BY <2>2, <3>1, <3>2, <3>3 DEF Notice, EndOp
      <3> QED
        BY <2>2, <3>4
    <2> QED
      BY <2>5, <2>6
  <1> HIDE DEF S, asked
  <1>11. ASSUME NEW i \in DOMAIN stack'[t], i <= n, stack'[t][i] \in S, top \notin S
         PROVE  /\ Nowhere(S) /\ runs[a] = 0 /\ Reported(a)'
    <2>1. /\ At(t, "producerFinished") /\ Self(t) \in Inputs(a)
          /\ Len(finishedProducers[Self(t)]) + 1 = NProducers(Self(t))
      BY <1>9, <1>11
    <2>2. ~Reported(a)
      BY <1>5, <2>1 DEF Reported
    <2>3. Nowhere(S) /\ runs[a] = 0
      BY <1>3, <2>2
    <2>4. \A d \in Inputs(a) : Len(finishedProducers'[d]) >= NProducers(d)
      BY <1>5, <2>1 DEF Lone
    <2>5. \A d \in Inputs(a) : NProducers(d)' = NProducers(d)
      BY Zenon DEF NProducers, Producers
    <2> QED
      BY <2>3, <2>4, <2>5 DEF Reported
  <1>12. AtMostOne(S)'
    <2>1. \A i \in DOMAIN stack'[t] : i <= n /\ stack'[t][i] \in S => Nowhere(S) \/ top \in S
      BY <1>11, Zenon
    <2> QED
      BY <1>1, <1>2, <1>3, <1>7, <1>10, <2>1, KeptOne, ZenonT(30)
  <1>13. CASE runs'[a] = runs[a]
    <2>1. ASSUME ~Nowhere(S)'
          PROVE  runs[a] = 0 /\ Reported(a)'
      <3>1. CASE Nowhere(S)
        <4>1. ~\A i \in DOMAIN stack'[t] : i <= n => stack'[t][i] \notin S
          BY <1>1, <1>2, <1>7, <2>1, <3>1, KeptNone, Zenon
        <4>2. top \notin S
          BY <1>1, <3>1, TopSomewhere
        <4> QED
          BY <1>11, <4>1, <4>2
      <3> QED
        BY <1>3, <1>6, <3>1
    <2> QED
      BY <1>3, <1>6, <1>12, <1>13, <2>1 DEF StartInv, S
  <1>14. CASE runs'[a] # runs[a]
    <2>1. asked /\ top \in S /\ runs'[a] = runs[a] + 1
      <3>1. /\ At(t, "trigger") \/ At(t, "evaluate")
            /\ runs' = [runs EXCEPT ![Self(t)] = @ + 1]
        BY <1>14, StepRuns
      <3>2. runs \in [App -> 0..MaxRuns]
        BY DEF IInv, TypeOK
      <3>3. Self(t) = a /\ runs'[a] = runs[a] + 1
        BY <1>14, <3>1, <3>2
      <3> QED
        BY <1>1, <3>1, <3>3, Zenon DEF asked, S, Start, At, Self
    <2>2. runs[a] = 0 /\ Reported(a)
      BY <1>1, <1>3, <2>1, TopSomewhere
    <2>3. \A i \in DOMAIN stack'[t] : i <= n => stack'[t][i] \notin S
      <3> SUFFICES ASSUME NEW i \in DOMAIN stack'[t], i <= n, stack'[t][i] \in S
                   PROVE  FALSE
        OBVIOUS
      <3>1. At(t, "producerFinished")
        BY <1>9, <2>1
      <3> QED
        BY <2>1, <3>1 DEF At, asked
    <2>4. Nowhere(S)'
      BY <1>1, <1>2, <1>3, <1>7, <2>1, <2>3, KeptNone, Zenon
    <2> QED
      BY <1>6, <1>12, <2>1, <2>2, <2>4 DEF StartInv, S
  <1> QED
    BY <1>13, <1>14

\* Before anything happens, an app may be started by the call that triggers
\* it, when it has no input, or by the one that triggers its input.
LEMMA InitStart ==
  ASSUME RootsTriggered, Init, NEW a \in App, Lone(a)
  PROVE  StartInv(a)
  <1>1. ASSUME NEW u \in Thread, NEW i \in DOMAIN stack[u], stack[u][i] \in Start(a)
        PROVE  /\ u \in Callers /\ i \in DOMAIN Triggers[u]
               /\ Triggers[u][i] \in Inputs(a) \cup {a} /\ Triggered(Triggers[u][i])
    <2>1. u \in Callers
      BY <1>1 DEF Init
    <2>2. i \in DOMAIN Triggers[u] /\ stack[u][i] = Call("trigger", Triggers[u][i])
      BY <1>1, <2>1 DEF Init
    <2>3. Triggers[u][i] \in Inputs(a) \cup {a}
      BY <1>1, <2>2 DEF Start, Notice, Call
    <2> QED
      BY <2>1, <2>2, <2>3 DEF Triggered
  <1>2. \A x, y \in Inputs(a) \cup {a} : Triggered(x) /\ Triggered(y) => x = y
    BY DEF RootsTriggered, Lone
  <1>3. AtMostOne(Start(a))
    <2> SUFFICES ASSUME NEW u \in Thread, NEW v \in Thread, NEW i \in DOMAIN stack[u],
                        NEW j \in DOMAIN stack[v], stack[u][i] \in Start(a), stack[v][j] \in Start(a)
                 PROVE  u = v /\ i = j
      BY Zenon DEF AtMostOne
    <2>1. Triggers[u][i] = Triggers[v][j]
      BY <1>1, <1>2, Zenon
    <2> QED
      BY <1>1, <2>1, ZenonT(30) DEF RootsTriggered
  <1>4. ASSUME ~Nowhere(Start(a))
        PROVE  Reported(a)
    <2>1. PICK u \in Thread : \E i \in DOMAIN stack[u] : stack[u][i] \in Start(a)
      BY <1>4 DEF Nowhere
    <2>2. PICK x \in Inputs(a) \cup {a} : Triggered(x)
      BY <1>1, <2>1
    <2>3. CASE x = a
      BY <2>2, <2>3 DEF RootsTriggered, Reported
    <2>4. CASE x \in Inputs(a)
      <3>1. x \in Data /\ Inputs(a) = {x}
        BY <2>4 DEF Inputs, Lone
      <3>2. NProducers(x) = 0
        BY <2>2, <3>1, RootCount
      <3>3. Len(finishedProducers[x]) = 0
        BY <3>1 DEF Init
      <3> QED
        BY <3>1, <3>2, <3>3 DEF Reported
    <2> QED
      BY <2>3, <2>4
  <1>5. runs[a] = 0
    BY DEF Init
  <1> QED
    BY <1>3, <1>4, <1>5 DEF StartInv

LoneRunsOnce == \A a \in App : Lone(a) => runs[a] <= 1

\* An app with at most one input is executed at most once: dropCompleted
\* compares its counters outside of any lock, and two inputs are needed for
\* two threads to find them equal.
THEOREM LoneAppsRunOnce ==
  ASSUME Orderly
  PROVE  Spec => []LoneRunsOnce
  <1> DEFINE Inv == IInv /\ \A a \in App : Lone(a) => StartInv(a)
  <1>1. Init => Inv
    BY InitSafe, InitStart DEF Orderly
  <1>2. Inv /\ [Next]_vars => Inv'
    <2> SUFFICES ASSUME Inv, [Next]_vars
                 PROVE  Inv'
      OBVIOUS
    <2>1. IInv'
      BY NextSafe
    <2>2. ASSUME NEW a \in App, Lone(a)'
          PROVE  StartInv(a)'
      <3>1. Lone(a) /\ StartInv(a)
        BY <2>2 DEF Lone, Inputs
      <3>2. CASE UNCHANGED vars
        <4>1. UNCHANGED <<stack, finishedProducers, runs>>
          BY <3>2 DEF vars, dataVars
        <4>2. \A d \in Inputs(a) : NProducers(d)' = NProducers(d)
          BY DEF NProducers, Producers
        <4> QED
          <5>1. AtMostOne(Start(a)) => AtMostOne(Start(a))'
            BY <4>1 DEF AtMostOne
          <5>2. Nowhere(Start(a))' <=> Nowhere(Start(a))
            BY <4>1 DEF Nowhere
          <5>3. Reported(a) => Reported(a)'
            BY <4>1, <4>2 DEF Reported
          <5> QED
            BY <3>1, <4>1, <5>1, <5>2, <5>3 DEF StartInv
      <3>3. ASSUME NEW t \in Thread, Step(t)
            PROVE  StartInv(a)'
        BY <3>1, <3>3, StepStart DEF Orderly
      <3> QED
        BY <3>2, <3>3 DEF Next, Done
    <2> QED
      BY <2>1, <2>2
  <1>3. Inv => LoneRunsOnce
    BY DEF LoneRunsOnce, StartInv
  <1> HIDE DEF Inv
  <1> QED
    BY <1>1, <1>2, <1>3, PTL DEF Spec

\* In a graph in which no app has two inputs, every app is executed at most
\* once, however the threads that deliver the notices interleave.
THEOREM RunsOnceInChains ==
  ASSUME Orderly, \A a \in App : Lone(a)
  PROVE  Spec => []RunsOnce
  <1>1. LoneRunsOnce => RunsOnce
    BY DEF LoneRunsOnce, RunsOnce
  <1> QED
    BY <1>1, LoneAppsRunOnce, PTL

(***************************************************************************)
(* What the counters of an app say about its inputs: the inputs it has not *)
(* heard of are exactly as many as the counters are short of.              *)
(***************************************************************************)
Unheard(a) == {d \in Inputs(a) : ~Heard(d, a)}

Counted == \A a \in App : Cardinality(Unheard(a)) + NHeard(a) = NInputs(a)

\* Appending to a list adds one member.
LEMMA AppendHas ==
  ASSUME NEW S, NEW s \in Seq(S), NEW e \in S, NEW d
  PROVE  (\E i \in DOMAIN Append(s, e) : Append(s, e)[i] = d)
           <=> ((\E i \in DOMAIN s : s[i] = d) \/ d = e)
  <1>1. /\ DOMAIN s = 1..Len(s) /\ Len(s) \in Nat
        /\ DOMAIN Append(s, e) = 1..Len(s) + 1 /\ Append(s, e)[Len(s) + 1] = e
        /\ \A i \in 1..Len(s) : Append(s, e)[i] = s[i]
    OBVIOUS
  <1>2. \A i \in 1..Len(s) + 1 : i \in 1..Len(s) \/ i = Len(s) + 1
    BY <1>1
  <1>3. Len(s) + 1 \in 1..Len(s) + 1 /\ \A i \in 1..Len(s) : i \in 1..Len(s) + 1
    BY <1>1
  <1> QED
    BY <1>1, <1>2, <1>3, Zenon

\* dropCompleted is called for an input the app has not heard of, and adds it
\* to one of the lists.
LEMMA HeardNext ==
  ASSUME OnceInv, NEW t \in Thread, Step(t), Lists' # Lists
  PROVE  \E a \in App : \E d \in Unheard(a) :
           /\ NHeard(a)' = NHeard(a) + 1
           /\ \A e \in Data : Heard(e, a)' <=> (Heard(e, a) \/ e = d)
           /\ \A b \in App \ {a} : \A p \in 1..3 : Lists'[p][b] = Lists[p][b]
  <1>1. At(t, "dropCompleted") /\ \E p \in 1..3 : Adds(p, Self(t), Head(stack[t]).from)
    BY StepLists, Zenon
  <1>2. /\ Self(t) \in App /\ Head(stack[t]).from \in Data
        /\ Head(stack[t]) \in SafeFrame /\ stack[t] # <<>>
    BY <1>1, TopCall DEF AppOp, OnceInv
  <1>3. PICK x \in App, e \in Data : x = Self(t) /\ e = Head(stack[t]).from
    BY <1>2
  <1> PICK p \in 1..3 : Adds(p, x, e)
    BY <1>1, <1>3, Zenon
  <1>4. Head(stack[t]) \in Notice(e, x) /\ e \in Inputs(x)
    BY <1>1, <1>2, <1>3 DEF At, Notice, SafeFrame, Self
  <1>5. ~Heard(e, x)
    BY <1>2, <1>4, TopSomewhere DEF OnceInv, OnItsWay, IInv
  <1>6. \A q \in 1..3 : Lists[q] \in [App -> Seq(Data)]
    BY DEF Lists, OnceInv, IInv, TypeOK
  <1>7. /\ Lists'[p][x] = Append(Lists[p][x], e)
        /\ \A q \in 1..3 : q # p => Lists'[q] = Lists[q]
        /\ \A b \in App \ {x} : \A q \in 1..3 : Lists'[q][b] = Lists[q][b]
    BY <1>6, Zenon DEF Adds
  <1>8. Lists[p][x] \in Seq(Data)
    BY <1>6
  <1>9. ASSUME NEW d \in Data
        PROVE  Heard(d, x)' <=> (Heard(d, x) \/ d = e)
    <2> DEFINE L == Lists[p][x]
               M == Lists'[p][x]
               Before(q) == \E i \in DOMAIN Lists[q][x] : Lists[q][x][i] = d
               After(q) == \E i \in DOMAIN Lists'[q][x] : Lists'[q][x][i] = d
    <2>1. /\ Heard(d, x) <=> \E q \in 1..3 : Before(q)
          /\ Heard(d, x)' <=> \E q \in 1..3 : After(q)
      BY Zenon DEF Heard
    <2>2. \A q \in 1..3 : q # p => (After(q) <=> Before(q))
      BY <1>7, Zenon
    <2>3. /\ Before(p) <=> \E i \in DOMAIN L : L[i] = d
          /\ After(p) <=> \E i \in DOMAIN M : M[i] = d
          /\ L \in Seq(Data) /\ M = Append(L, e)
      BY <1>7, <1>8
    <2> HIDE DEF L, M, Before, After
    <2>4. (\E i \in DOMAIN M : M[i] = d) <=> ((\E i \in DOMAIN L : L[i] = d) \/ d = e)
      BY <2>3, AppendHas
    <2> QED
      BY <2>1, <2>2, <2>3, <2>4, Zenon
  <1>10. NHeard(x)' = NHeard(x) + 1
    <2> DEFINE m(q) == Len(Lists[q][x])
               n(q) == Len(Lists'[q][x])
    <2>1. NHeard(x) = m(1) + m(2) + m(3) /\ NHeard(x)' = n(1) + n(2) + n(3)
      BY DEF NHeard, Lists
    <2>2. \A q \in 1..3 : m(q) \in Nat
      BY <1>6
    <2>3. n(p) = m(p) + 1
      BY <1>7, <1>8
    <2>4. \A q \in 1..3 : q # p => n(q) = m(q)
      BY <1>7, Zenon
    <2> HIDE DEF m, n
    <2>5. CASE p = 1
      BY <2>1, <2>2, <2>3, <2>4, <2>5
    <2>6. CASE p = 2
      BY <2>1, <2>2, <2>3, <2>4, <2>6
    <2>7. CASE p = 3
      BY <2>1, <2>2, <2>3, <2>4, <2>7
    <2> QED
      BY <2>5, <2>6, <2>7
  <1> QED
    BY <1>4, <1>5, <1>7, <1>9, <1>10, Zenon DEF Unheard

\* The sets that are counted are sets of drops.
LEMMA InputsDrops ==
  ASSUME NEW a \in App
  PROVE  Inputs(a) \in SUBSET Data /\ Inputs(a) \in SUBSET Drop /\ Unheard(a) \in SUBSET Drop
  BY DEF Inputs, Unheard, Drop

\* Every step keeps the count.
LEMMA StepCounted ==
  ASSUME OnceInv, Counted, NEW t \in Thread, Step(t)
  PROVE  Counted'
  <1> SUFFICES ASSUME NEW a \in App
               PROVE  Cardinality(Unheard(a))' + NHeard(a)' = NInputs(a)'
    BY Zenon DEF Counted
  <1>1. Inputs(a)' = Inputs(a) /\ NInputs(a)' = NInputs(a)
    BY DEF Inputs, NInputs
  <1>2. Cardinality(Unheard(a)) + NHeard(a) = NInputs(a)
    BY DEF Counted
  <1>3. CASE \A p \in 1..3 : Lists'[p][a] = Lists[p][a]
    <2>1. Unheard(a)' = Unheard(a)
      BY <1>1, <1>3, Zenon DEF Unheard, Heard
    <2>2. NHeard(a)' = NHeard(a)
      <3>1. Lists'[1][a] = Lists[1][a] /\ Lists'[2][a] = Lists[2][a] /\ Lists'[3][a] = Lists[3][a]
        <4>1. 1 \in 1..3 /\ 2 \in 1..3 /\ 3 \in 1..3
          OBVIOUS
        <4> QED
          BY <1>3, <4>1, Zenon
      <3> QED
        BY <3>1, Zenon DEF NHeard, Lists
    <2> QED
      BY <1>1, <1>2, <2>1, <2>2, Zenon
  <1>4. ASSUME NEW d \in Unheard(a), NHeard(a)' = NHeard(a) + 1,
               \A e \in Data : Heard(e, a)' <=> (Heard(e, a) \/ e = d)
        PROVE  Cardinality(Unheard(a))' + NHeard(a)' = NInputs(a)'
    <2>1. Unheard(a)' = Unheard(a) \ {d}
      BY <1>1, <1>4, InputsDrops DEF Unheard
    <2>2. /\ Cardinality(Unheard(a) \ {d}) = Cardinality(Unheard(a)) - 1
          /\ Cardinality(Unheard(a)) \in Nat
      BY InputsDrops, CountAssumption
    <2>3. NHeard(a) \in Nat
      BY DEF OnceInv, IInv, TypeOK, NHeard
    <2> QED
      BY <1>1, <1>2, <1>4, <2>1, <2>2, <2>3
  <1>5. CASE Lists' = Lists
    BY <1>3, <1>5
  <1>6. CASE Lists' # Lists
    BY <1>3, <1>4, <1>6, HeardNext, ZenonT(30)
  <1> QED
    BY <1>5, <1>6

\* The counters are right whatever the threads do.
LEMMA CountedAlways ==
  ASSUME Orderly
  PROVE  Spec => [](OnceInv /\ Counted)
  <1>1. Init => OnceInv /\ Counted
    <2> SUFFICES ASSUME Init
                 PROVE  OnceInv /\ Counted
      OBVIOUS
    <2>1. ASSUME NEW a \in App
          PROVE  NHeard(a) = 0 /\ \A d \in Data : ~Heard(d, a)
      BY <2>1 DEF Init, NHeard, Heard, Lists
    <2>2. ASSUME NEW a \in App
          PROVE  Unheard(a) = Inputs(a) /\ NInputs(a) \in Nat
      BY <2>1, <2>2, InputsDrops, CountAssumption DEF Unheard, NInputs
    <2>3. Counted
      BY <2>1, <2>2 DEF Counted, NInputs
    <2> QED
      BY <2>3, InitOnce DEF Orderly
  <1>2. (OnceInv /\ Counted) /\ [Next]_vars => (OnceInv /\ Counted)'
    <2> SUFFICES ASSUME OnceInv, Counted, [Next]_vars
                 PROVE  Counted'
      BY NextOnce
    <2>1. CASE UNCHANGED vars
      <3>1. Lists' = Lists /\ \A a \in App : NHeard(a)' = NHeard(a)
        BY <2>1, Zenon DEF vars, inputVars, Lists, NHeard
      <3>2. \A a \in App : Unheard(a)' = Unheard(a) /\ NInputs(a)' = NInputs(a)
        BY <3>1 DEF Unheard, Heard, NInputs, Inputs
      <3> QED
        BY <3>1, <3>2, Zenon DEF Counted
    <2> QED
      BY <2>1, StepCounted DEF Next, Done
  <1> QED
    BY <1>1, <1>2, PTL DEF Spec

\* An app hears of at most as many inputs as it has, and when it has heard of
\* as many, it has heard of every one.
LEMMA HeardCount ==
  ASSUME OnceInv, Counted, NEW a \in App
  PROVE  /\ NHeard(a) \in Nat /\ NInputs(a) \in Nat /\ NHeard(a) <= NInputs(a)
         /\ NHeard(a) = NInputs(a) => \A d \in Inputs(a) : Heard(d, a)
  <1>1. NHeard(a) \in Nat
    BY DEF OnceInv, IInv, TypeOK, NHeard
  <1>2. /\ Cardinality(Unheard(a)) \in Nat /\ NInputs(a) \in Nat
        /\ Cardinality(Unheard(a)) = 0 => Unheard(a) = {}
    BY InputsDrops, CountAssumption DEF NInputs
  <1>3. Cardinality(Unheard(a)) + NHeard(a) = NInputs(a)
    BY DEF Counted
  <1>4. Unheard(a) = {} => \A d \in Inputs(a) : Heard(d, a)
    BY DEF Unheard
  <1> QED
    BY <1>1, <1>2, <1>3, <1>4

\* An app that waits for all of its inputs and is not triggered by hand has
\* heard of every one of them when it is given a thread.
BarrierHeard ==
  \A a \in App :
    runs[a] > 0 /\ ~Triggered(a) /\ NEff(a) = NInputs(a) => \A d \in Inputs(a) : Heard(d, a)

\* The barrier compares nothing but counters (dropCompleted), and yet no
\* input is missing when it opens: the counters reach the number of inputs
\* only when every input has been heard of.
THEOREM BarrierHearsAll ==
  ASSUME Orderly
  PROVE  Spec => []BarrierHeard
  <1>1. OnceInv /\ Counted => BarrierHeard
    <2> SUFFICES ASSUME OnceInv, Counted, NEW a \in App,
                        runs[a] > 0, ~Triggered(a), NEff(a) = NInputs(a)
                 PROVE  \A d \in Inputs(a) : Heard(d, a)
      BY DEF BarrierHeard
    <2>1. NHeard(a) >= NEff(a)
      BY DEF OnceInv, IInv, EnoughInputs
    <2>2. /\ NHeard(a) \in Nat /\ NInputs(a) \in Nat /\ NHeard(a) <= NInputs(a)
          /\ NHeard(a) = NInputs(a) => \A d \in Inputs(a) : Heard(d, a)
      BY HeardCount
    <2> QED
      BY <2>1, <2>2
  <1> QED
    BY <1>1, CountedAlways, PTL

\* A step touches no stack but that of its own thread, or starts a new one.
LEMMA StepThreads ==
  ASSUME NEW t \in Thread, Step(t)
  PROVE  \/ /\ runs' = runs
            /\ \E fs : stack' = [stack EXCEPT ![t] = fs]
         \/ /\ (At(t, "trigger") /\ Self(t) \in App) \/ At(t, "evaluate")
            /\ AsyncExecute(t, Self(t))
  <1>1. \A fs : Return(t, fs) => \E gs : stack' = [stack EXCEPT ![t] = gs]
    BY Zenon DEF Return
  <1>2. Raise(t) => \E gs : stack' = [stack EXCEPT ![t] = gs]
    BY Zenon DEF Raise
  <1>3. CASE DropStep(t)
    BY <1>1, <1>2, <1>3, Zenon DEF DropStep, SetCompleted, MoveCompleted, SetError, MoveError,
       ProducerFinished, AllFinished, Skip, MoveSkipped, Trigger, End
  <1>4. CASE AppStep(t)
    BY <1>1, <1>2, <1>4, Zenon DEF AppStep, SkipApp, MarkSkipped, FireProducerFinished,
       DropCompleted, Evaluate, FailInputs, Execute, Run, Ran, RunRaised, Failed, MarkFinished,
       GiveUp, SetFinalStatus, Notify, MoveFinished
  <1>5. CASE Write(t) \/ IOWrite(t) \/ Wrote(t)
    BY <1>1, <1>2, <1>5, Zenon DEF Write, IOWrite, Wrote
  <1> QED
    BY <1>3, <1>4, <1>5 DEF Step

\* The threads not given yet stay idle.
LEMMA StepIdle ==
  ASSUME IInv, Idle, NEW t \in Thread, Step(t)
  PROVE  Idle'
  <1> SUFFICES ASSUME NEW a \in App, NEW k \in 1..MaxRuns, k > runs'[a]
               PROVE  stack'[<<a, k>>] = <<>>
    BY DEF Idle
  <1>1. /\ stack \in [Thread -> Seq(SafeFrame)] /\ stack[t] # <<>>
        /\ runs \in [App -> 0..MaxRuns] /\ <<a, k>> \in Thread /\ MaxRuns \in Nat
    BY StepBase, ThreadAssumption, Zenon DEF IInv, TypeOK, Thread, Worker
  <1>2. CASE runs' = runs /\ \E fs : stack' = [stack EXCEPT ![t] = fs]
    <2>1. stack[<<a, k>>] = <<>>
      BY <1>2 DEF Idle
    <2>2. <<a, k>> # t
      BY <1>1, <2>1, Zenon
    <2> QED
      BY <1>1, <1>2, <2>1, <2>2
  <1>3. CASE AsyncExecute(t, Self(t)) /\ Self(t) \in App
    <2> DEFINE b == Self(t)
    <2>1. /\ runs' = [runs EXCEPT ![b] = @ + 1]
          /\ stack' = [stack EXCEPT ![t] = Tail(@), ![<<b, runs[b] + 1>>] = <<Call("execute", b)>>]
      BY <1>3 DEF AsyncExecute
    <2> HIDE DEF b
    <2>2. k > runs[a] /\ (a = b => k # runs[b] + 1)
      BY <1>1, <2>1
    <2>3. stack[<<a, k>>] = <<>>
      BY <2>2 DEF Idle
    <2>4. <<a, k>> # t /\ <<a, k>> # <<b, runs[b] + 1>>
      BY <1>1, <2>2, <2>3, Zenon
    <2> QED
      BY <1>1, <2>1, <2>3, <2>4
  <1>4. At(t, "evaluate") => Self(t) \in App
    BY TopCall DEF AppOp
  <1> QED
    BY <1>2, <1>3, <1>4, StepThreads

\* An execution status is never set back to NOT_RUN.
LEMMA StepExec ==
  ASSUME IInv, NEW t \in Thread, Step(t), NEW a \in App, execStatus'[a] = "NOT_RUN"
  PROVE  execStatus[a] = "NOT_RUN"
  <1>1. execStatus \in [App -> AppDROPStates]
    BY DEF IInv, TypeOK
  <1>2. \/ execStatus' = execStatus
        \/ \E s \in {"SKIPPED", "ERROR", "RUNNING", "FINISHED"} : SetExec(Self(t), s)
    <2>1. CASE DropStep(t)
      BY <2>1, ZenonT(30) DEF DropStep, SetCompleted, MoveCompleted, SetError, MoveError, ProducerFinished,
         AllFinished, Skip, MoveSkipped, Trigger, End
    <2>2. CASE AppStep(t)
      BY <2>2, Zenon DEF AppStep, SkipApp, MarkSkipped, FireProducerFinished, DropCompleted, Evaluate,
         FailInputs, Execute, Run, Ran, RunRaised, Failed, MarkFinished, GiveUp, SetFinalStatus,
         Notify, MoveFinished
    <2>3. CASE Write(t) \/ IOWrite(t) \/ Wrote(t)
      BY <2>3, Zenon DEF Write, IOWrite, Wrote
    <2> QED
      BY <2>1, <2>2, <2>3 DEF Step
  <1> QED
    BY <1>1, <1>2 DEF SetExec

\* The call on top of a stack decides what a step does.
LEMMA StepIs ==
  ASSUME NEW t \in Thread, Step(t)
  PROVE  /\ At(t, "evaluate") => Evaluate(t)
         /\ At(t, "skip") => Skip(t)
         /\ At(t, "skipApp") => SkipApp(t)
         /\ At(t, "markSkipped") => MarkSkipped(t)
         /\ At(t, "execute") => Execute(t)
         /\ At(t, "moveSkipped") => MoveSkipped(t)
  <1>1. CASE DropStep(t)
    BY <1>1, ZenonT(30) DEF DropStep, SetCompleted, MoveCompleted, SetError, MoveError, ProducerFinished,
       AllFinished, Skip, MoveSkipped, Trigger, At
  <1>2. CASE AppStep(t)
    BY <1>2, Zenon DEF AppStep, SkipApp, MarkSkipped, FireProducerFinished, DropCompleted, Evaluate,
       FailInputs, Execute, Run, Ran, RunRaised, Failed, MarkFinished, GiveUp, SetFinalStatus,
       Notify, MoveFinished, At
  <1>3. CASE Write(t) \/ IOWrite(t) \/ Wrote(t)
    BY <1>3, Zenon DEF Write, IOWrite, Wrote, At
  <1> QED
    BY <1>1, <1>2, <1>3, Zenon DEF Step

\* The number of inputs an app has heard of changes with the call that tells
\* it, which goes on to compare the counters.
LEMMA StepHeard ==
  ASSUME IInv, NEW t \in Thread, Step(t), NEW a \in App
  PROVE  \/ NHeard(a)' = NHeard(a)
         \/ Self(t) = a /\ Return(t, <<Call("evaluate", a)>>)
  <1>1. CASE Lists' = Lists
    <2>1. UNCHANGED <<completedInputs, errorInputs, skippedInputs>>
      BY <1>1 DEF Lists
    <2> QED
      BY <2>1, Zenon DEF NHeard
  <1>2. CASE DropCompleted(t)
    <2>1. CASE UNCHANGED inputVars
      BY <2>1, Zenon DEF NHeard, inputVars
    <2>2. CASE Self(t) # a
      <3>1. /\ completedInputs \in [App -> Seq(Data)] /\ errorInputs \in [App -> Seq(Data)]
            /\ skippedInputs \in [App -> Seq(Data)]
        BY DEF IInv, TypeOK
      <3>2. /\ completedInputs'[a] = completedInputs[a] /\ errorInputs'[a] = errorInputs[a]
            /\ skippedInputs'[a] = skippedInputs[a]
        BY <1>2, <2>2, <3>1 DEF DropCompleted, inputVars
      <3> QED
        BY <3>2, Zenon DEF NHeard
    <2> QED
      BY <1>2, <2>1, <2>2, Zenon DEF DropCompleted
  <1> QED
    BY <1>1, <1>2, StepCounts

\* A thread that acts on an app goes on acting, or sets its execution status.
LEMMA StepActs ==
  ASSUME IInv, NEW t \in Thread, Step(t), NEW a \in App, Acts(t, a),
         NHeard(a) = NEff(a), execStatus[a] = "NOT_RUN", execStatus'[a] = "NOT_RUN"
  PROVE  \E u \in Thread : Acts(u, a)'
  <1>1. /\ stack \in [Thread -> Seq(SafeFrame)] /\ stack[t] # <<>> /\ Self(t) = a
        /\ execStatus \in [App -> AppDROPStates]
    BY StepBase, Zenon DEF Acts, IInv, TypeOK
  <1>2. /\ Call("skip", a) \in SafeFrame /\ Call("skipApp", a) \in SafeFrame
        /\ Call("moveSkipped", a) \in SafeFrame
        /\ [Call("markSkipped", a) EXCEPT !.n = 0] \in SafeFrame
        /\ [Call("markSkipped", a) EXCEPT !.n = 1] \in SafeFrame
    BY GraphAssumption, Zenon DEF SafeFrame, Frame, Call, AppOp, DataOp, DropOp, EndOp, Drop, DROPStates
  <1>3. ASSUME NEW op, Return(t, <<Call(op, a)>>), Call(op, a) \in SafeFrame,
               op \in {"evaluate", "skip", "skipApp", "markSkipped", "execute"}
        PROVE  Acts(t, a)'
    <2>1. stack'[t] # <<>> /\ Head(stack'[t]) = Call(op, a)
      BY <1>1, <1>3, ReturnedOne, Zenon
    <2> QED
      BY <1>3, <2>1, CallActs, Zenon
  <1>4. CASE At(t, "evaluate")
    <2>1. Evaluate(t)
      BY <1>4, StepIs, Zenon
    <2>2. CASE Return(t, <<Call("skip", a)>>)
      BY <1>2, <1>3, <2>2
    <2>3. CASE AsyncExecute(t, a)
      <3>1. PICK u \in Thread : stack'[u] # <<>> /\ Head(stack'[u]) = Call("execute", a)
        BY <2>3, AsyncStarts, Zenon
      <3>2. Acts(u, a)'
        BY <3>1, CallActs, Zenon
      <3> QED
        BY <3>2, Zenon
    <2> QED
      BY <1>1, <2>1, <2>2, <2>3, ZenonT(30) DEF Evaluate, AllHeard, SetExec
  <1>5. CASE At(t, "skip")
    <2>1. Skip(t)
      BY <1>5, StepIs, ZenonT(30)
    <2>2. AppPart("skipApp", a) = <<Call("skipApp", a)>>
      BY DEF AppPart
    <2>3. \/ Return(t, <<Call("moveSkipped", a)>> \o <<Call("skipApp", a)>>)
          \/ Return(t, <<Call("skipApp", a)>>)
      BY <1>1, <2>1, <2>2, Zenon DEF Skip
    <2>4. CASE Return(t, <<Call("skipApp", a)>>)
      BY <1>2, <1>3, <2>4, Zenon
    <2>5. CASE Return(t, <<Call("moveSkipped", a)>> \o <<Call("skipApp", a)>>)
      <3>1. <<Call("skipApp", a)>> \in Seq(SafeFrame)
        BY <1>2
      <3>2. /\ stack'[t] # <<>> /\ Head(stack'[t]) = Call("moveSkipped", a)
            /\ Tail(stack'[t]) = <<Call("skipApp", a)>> \o Tail(stack[t])
        BY <1>1, <1>2, <2>5, <3>1, Returned, Zenon
      <3>3. Tail(stack'[t]) # <<>> /\ Head(Tail(stack'[t])) = Call("skipApp", a)
        <4>1. Tail(stack[t]) \in Seq(SafeFrame)
          BY <1>1
        <4>2. Call("skipApp", a) \in SafeFrame
          BY <1>2, Zenon
        <4> QED
          BY <3>2, <4>1, <4>2, HeadFirst, Zenon
      <3>4. /\ Call("moveSkipped", a).op = "moveSkipped" /\ Call("moveSkipped", a).drop = a
            /\ Call("skipApp", a).op = "skipApp" /\ Call("skipApp", a).drop = a
        BY DEF Call
      <3>5. Acts(t, a)'
        BY <3>2, <3>3, <3>4, ZenonT(30) DEF Acts, Self
      <3> QED
        BY <3>5, Zenon
    <2> QED
      BY <2>3, <2>4, <2>5, ZenonT(30)
  <1>6. CASE At(t, "skipApp")
    <2>1. PICK m \in {0, 1} : Return(t, <<[Call("markSkipped", a) EXCEPT !.n = m]>>)
      BY <1>1, <1>6, StepIs DEF SkipApp
    <2> DEFINE f == [Call("markSkipped", a) EXCEPT !.n = m]
    <2>2. f \in SafeFrame /\ f.op = "markSkipped" /\ f.drop = a
      BY <1>2 DEF Call
    <2> HIDE DEF f
    <2>3. stack'[t] # <<>> /\ Head(stack'[t]) = f
      BY <1>1, <2>1, <2>2, ReturnedOne, Zenon DEF f
    <2> QED
      BY <2>2, <2>3, TopActs, Zenon
  <1>7. CASE At(t, "markSkipped")
    BY <1>1, <1>7, StepIs, Zenon DEF MarkSkipped, SetExec
  <1>8. CASE At(t, "execute")
    BY <1>1, <1>8, StepIs, Zenon DEF Execute, SetExec
  <1>9. CASE /\ At(t, "moveSkipped") /\ Tail(stack[t]) # <<>>
             /\ Head(Tail(stack[t])).op = "skipApp" /\ Head(Tail(stack[t])).drop = a
    <2>1. Return(t, <<>>)
      BY <1>9, StepIs, ZenonT(30) DEF MoveSkipped
    <2>2. stack'[t] = Tail(stack[t])
      <3>1. Tail(stack[t]) \in Seq(SafeFrame)
        BY <1>1
      <3>2. stack'[t] = <<>> \o Tail(stack[t])
        BY <1>1, <2>1 DEF Return
      <3> QED
        BY <3>1, <3>2
    <2> QED
      BY <1>9, <2>2, ZenonT(30) DEF Acts, Self
  <1> QED
    BY <1>1, <1>4, <1>5, <1>6, <1>7, <1>8, <1>9, Zenon DEF Acts, At

\* No step leaves a full barrier that has not run without a thread on it.
LEMMA StepFull ==
  ASSUME IInv, Idle, NEW t \in Thread, Step(t), NEW a \in App, FullStarts(a)
  PROVE  FullStarts(a)'
  <1> SUFFICES ASSUME NHeard(a)' = NEff(a)', NEff(a)' > 0, execStatus'[a] = "NOT_RUN"
               PROVE  \E u \in Thread : Acts(u, a)'
    BY DEF FullStarts
  <1>1. stack \in [Thread -> Seq(SafeFrame)] /\ stack[t] # <<>>
    BY StepBase
  <1>2. execStatus[a] = "NOT_RUN"
    BY StepExec, Zenon
  <1>3. NEff(a)' = NEff(a) /\ NInputs(a)' = NInputs(a)
    BY DEF NEff, NInputs, Inputs
  <1>4. CASE Return(t, <<Call("evaluate", a)>>)
    <2>1. Call("evaluate", a) \in SafeFrame
      BY GraphAssumption, Zenon DEF SafeFrame, Frame, Call, AppOp, DataOp, DropOp, EndOp, Drop, DROPStates
    <2>2. stack'[t] # <<>> /\ Head(stack'[t]) = Call("evaluate", a)
      BY <1>1, <1>4, <2>1, ReturnedOne
    <2>3. Acts(t, a)'
      BY <2>2, CallActs, Zenon
    <2> QED
      BY <2>3
  <1>5. CASE NHeard(a)' = NHeard(a)
    <2>1. PICK u \in Thread : Acts(u, a)
      BY <1>2, <1>3, <1>5 DEF FullStarts
    <2>2. CASE u = t
      BY <1>2, <1>3, <1>5, <2>1, <2>2, StepActs, Zenon
    <2>3. CASE u # t
      <3>1. stack'[u] = stack[u]
        <4>1. CASE \E fs : stack' = [stack EXCEPT ![t] = fs]
          BY <1>1, <2>3, <4>1
        <4>2. CASE AsyncExecute(t, Self(t)) /\ Self(t) \in App
          <5> DEFINE b == Self(t)
          <5>1. /\ stack' = [stack EXCEPT ![t] = Tail(@), ![<<b, runs[b] + 1>>] = <<Call("execute", b)>>]
                /\ runs[b] + 1 \in 1..MaxRuns /\ runs[b] + 1 > runs[b]
            BY <4>2, ThreadAssumption DEF AsyncExecute, IInv, TypeOK
          <5>2. stack[<<b, runs[b] + 1>>] = <<>>
            BY <4>2, <5>1, Zenon DEF Idle
          <5>3. u # <<b, runs[b] + 1>>
            BY <2>1, <5>2, Zenon DEF Acts
          <5> HIDE DEF b
          <5> QED
            BY <1>1, <2>3, <5>1, <5>3, Zenon
        <4>3. At(t, "evaluate") => Self(t) \in App
          BY TopCall, Zenon DEF AppOp
        <4> QED
          BY <4>1, <4>2, <4>3, StepThreads
      <3>2. Acts(u, a)'
        BY <2>1, <3>1, Zenon DEF Acts, Self
      <3> QED
        BY <3>2
    <2> QED
      BY <2>2, <2>3
  <1> QED
    BY <1>4, <1>5, StepHeard, Zenon

\* When everything has stopped, an app that waits for all of its inputs and
\* has heard of them has been started, skipped or failed.
BarrierOpens ==
  Quiet => \A a \in App :
    NEff(a) = NInputs(a) /\ NInputs(a) > 0 /\ NHeard(a) >= NEff(a) => execStatus[a] # "NOT_RUN"

\* The notification that fills a barrier is never lost between the threads
\* that deliver the notifications: dropCompleted counts the inputs without a
\* lock, but the last thread to append finds the counters equal.
THEOREM FullBarrierOpens ==
  ASSUME Orderly
  PROVE  Spec => []BarrierOpens
  <1> DEFINE Inv == IInv /\ Idle /\ \A a \in App : FullStarts(a)
  <1>1. Init => Inv
    BY InitSafe, InitFull
  <1>2. Inv /\ [Next]_vars => Inv'
    <2> SUFFICES ASSUME Inv, [Next]_vars
                 PROVE  Inv'
      OBVIOUS
    <2>1. IInv'
      BY NextSafe
    <2>2. CASE UNCHANGED vars
      BY <2>1, <2>2, IdleFull, Zenon
    <2>3. ASSUME NEW t \in Thread, Step(t)
          PROVE  Inv'
      BY <2>1, <2>3, StepIdle, StepFull
    <2> QED
      BY <2>2, <2>3 DEF Next, Done
  <1>3. Inv /\ OnceInv /\ Counted => BarrierOpens
    <2> SUFFICES ASSUME Inv, OnceInv, Counted, Quiet, NEW a \in App,
                        NEff(a) = NInputs(a), NInputs(a) > 0, NHeard(a) >= NEff(a)
                 PROVE  execStatus[a] # "NOT_RUN"
      BY DEF BarrierOpens
    <2>1. NHeard(a) \in Nat /\ NInputs(a) \in Nat /\ NHeard(a) <= NInputs(a)
      BY HeardCount
    <2> QED
      BY <2>1, QuietFull, Zenon
  <1> HIDE DEF Inv
  <1> QED
    BY <1>1, <1>2, <1>3, CountedAlways, PTL DEF Spec

\* In a graph whose apps all wait for all of their inputs (the default), an
\* app that has heard of its inputs is started, skipped or failed.
THEOREM EnoughMeansStartedAlways ==
  ASSUME Orderly, \A a \in App : NEffective[a] = -1
  PROVE  Spec => []EnoughMeansStarted
  <1>1. BarrierOpens => EnoughMeansStarted
    BY DEF BarrierOpens, EnoughMeansStarted, NEff
  <1> QED
    BY <1>1, FullBarrierOpens, PTL
=============================================================================
