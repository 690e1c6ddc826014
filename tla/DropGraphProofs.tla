-------------------------- MODULE DropGraphProofs ---------------------------
(***************************************************************************)
(* Theorems about DropGraph, for every graph, every number of threads and  *)
(* every bound.                                                            *)
(***************************************************************************)
EXTENDS DropGraph, TLAPS

(***************************************************************************)
(* The inductive invariant: besides the types, a call that triggers a drop *)
(* is only ever found where a caller was asked to trigger that drop, only  *)
(* data is completed or failed as a drop, and an app only hears of inputs. *)
(***************************************************************************)
EndOp == {"setCompleted", "moveCompleted", "setError", "moveError"}

SafeFrame ==
  {f \in Frame :
     /\ f.op = "trigger" => Triggered(f.drop)
     /\ f.op \in EndOp => f.drop \in Data
     /\ f.op = "dropCompleted" => f.from \in Inputs(f.drop)}

IInv ==
  /\ TypeOK
  /\ stack \in [Thread -> Seq(SafeFrame)]
  /\ EnoughInputs

\* A call of any method but trigger, on a drop that has it, is a safe frame.
LEMMA CallType ==
  ASSUME NEW op, NEW x,
         \/ op \in AppOp \ {"dropCompleted"} /\ x \in App
         \/ op \in DataOp /\ x \in Data
         \/ op \in EndOp /\ x \in Data
         \/ op \in {"skip", "moveSkipped", "cancel", "moveCancelled", "leaf"} /\ x \in Drop
  PROVE  Call(op, x) \in SafeFrame
  BY DEF SafeFrame, Frame, Call, AppOp, DataOp, DropOp, EndOp, Drop, DROPStates

\* Pushing safe calls on a safe stack gives a safe stack.
LEMMA ConcatType ==
  ASSUME NEW fs \in Seq(SafeFrame), NEW s \in Seq(SafeFrame)
  PROVE  fs \o s \in Seq(SafeFrame)
  OBVIOUS

\* One safe call is a safe stack.
LEMMA SingleType ==
  ASSUME NEW f \in SafeFrame
  PROVE  <<f>> \in Seq(SafeFrame)
  OBVIOUS

\* A list given element by element.
LEMMA ListType ==
  ASSUME NEW S, NEW n \in Nat, NEW f, f = [i \in 1..n |-> f[i]], \A i \in 1..n : f[i] \in S
  PROVE  f \in Seq(S)
  OBVIOUS

\* Appending to one of the lists of a function of lists.
LEMMA AppendType ==
  ASSUME NEW S, NEW T, NEW f \in [S -> Seq(T)], NEW y \in S, NEW e \in T
  PROVE  Append(f[y], e) \in Seq(T)
  <1>1. f[y] \in Seq(T)
    OBVIOUS
  <1> QED
    BY <1>1

\* The call of an app goes on as another call of that app.
LEMMA RenameType ==
  ASSUME NEW f \in SafeFrame, f.drop \in App, NEW op \in AppOp \ {"dropCompleted"}
  PROVE  [f EXCEPT !.op = op] \in SafeFrame
  <1>1. op \notin DataOp /\ op \notin EndOp /\ op # "trigger"
    BY DEF AppOp, DataOp, EndOp
  <1> QED
    BY <1>1 DEF SafeFrame, Frame

\* The method a thread executes belongs to a drop, and its callers are safe frames.
LEMMA TopType ==
  ASSUME stack \in [Thread -> Seq(SafeFrame)], NEW t \in Thread, stack[t] # <<>>
  PROVE  /\ Head(stack[t]) \in SafeFrame
         /\ Tail(stack[t]) \in Seq(SafeFrame)
         /\ Self(t) \in Drop
         /\ Head(stack[t]).st \in DROPStates
         /\ Head(stack[t]).n \in Nat
  <1>1. stack[t] \in Seq(SafeFrame)
    OBVIOUS
  <1>2. Head(stack[t]) \in SafeFrame /\ Tail(stack[t]) \in Seq(SafeFrame)
    BY <1>1
  <1> QED
    BY <1>2 DEF Self, SafeFrame, Frame

\* Returning from a method, with the calls it makes, leaves a safe stack.
LEMMA ReturnType ==
  ASSUME stack \in [Thread -> Seq(SafeFrame)], NEW t \in Thread, stack[t] # <<>>,
         NEW fs \in Seq(SafeFrame), Return(t, fs)
  PROVE  stack' \in [Thread -> Seq(SafeFrame)]
  <1>1. fs \o Tail(stack[t]) \in Seq(SafeFrame)
    BY TopType, ConcatType
  <1> QED
    BY <1>1 DEF Return

\* An exception unwound to its handler leaves a safe stack.
LEMMA UnwoundType ==
  ASSUME NEW s \in Seq(SafeFrame), NEW u \in Unwound(s)
  PROVE  u \in Seq(SafeFrame)
  <1>1. CASE u = <<>>
    BY <1>1
  <1>2. ASSUME NEW h \in DOMAIN s, s[h].op \in {"run", "ran"},
               u = <<[s[h] EXCEPT !.op = "failed"]>> \o SubSeq(s, h + 1, Len(s))
        PROVE  u \in Seq(SafeFrame)
    <2>1. h \in 1..Len(s) /\ s[h] \in SafeFrame
      OBVIOUS
    <2>2. [s[h] EXCEPT !.op = "failed"] \in SafeFrame
      BY <1>2, <2>1, Zenon DEF SafeFrame, Frame, AppOp, DataOp, EndOp
    <2>3. SubSeq(s, h + 1, Len(s)) \in Seq(SafeFrame)
      BY <2>1
    <2> QED
      BY <1>2, <2>2, <2>3, SingleType, ConcatType
  <1> QED
    BY <1>1, <1>2, Zenon DEF Unwound

\* Raising leaves a safe stack.
LEMMA RaiseType ==
  ASSUME stack \in [Thread -> Seq(SafeFrame)], NEW t \in Thread, stack[t] # <<>>,
         Raise(t)
  PROVE  stack' \in [Thread -> Seq(SafeFrame)]
  <1>1. PICK s \in Unwound(Tail(stack[t])) : stack' = [stack EXCEPT ![t] = s]
    BY Zenon DEF Raise
  <1>2. s \in Seq(SafeFrame)
    BY TopType, UnwoundType, Zenon
  <1> QED
    BY <1>1, <1>2

\* The empty stack is safe.
LEMMA EmptyType == <<>> \in Seq(SafeFrame)
  OBVIOUS

\* What a drop calls on its session's leaf listener is safe.
LEMMA LeafCallType ==
  ASSUME NEW x \in Drop
  PROVE  LeafCall(x) \in Seq(SafeFrame)
  BY CallType, SingleType, EmptyType DEF LeafCall

\* The dropCompleted events a drop fires are safe calls.
LEMMA FireCompletedType ==
  ASSUME NEW x \in Drop, NEW s \in DROPStates
  PROVE  FireCompleted(x, s) \in Seq(SafeFrame)
  <1>1. CASE x \in Data
    <2> DEFINE call(i) == [op |-> "dropCompleted", drop |-> Consumers[x][i],
                           from |-> x, st |-> s, n |-> 0]
    <2>1. Consumers[x] \in Seq(App)
      BY <1>1, GraphAssumption
    <2>2. \A i \in 1..Len(Consumers[x]) : call(i) \in SafeFrame
      <3> TAKE i \in 1..Len(Consumers[x])
      <3>1. Consumers[x][i] \in App /\ i \in DOMAIN Consumers[x]
        BY <2>1
      <3>2. x \in Inputs(Consumers[x][i])
        BY <1>1, <3>1 DEF Inputs
      <3> QED
        BY <1>1, <3>1, <3>2 DEF SafeFrame, Frame, AppOp, DataOp, EndOp, Drop
    <2>3. [i \in 1..Len(Consumers[x]) |-> call(i)] \in Seq(SafeFrame)
      BY <2>1, <2>2, ListType
    <2>4. FireCompleted(x, s) = [i \in 1..Len(Consumers[x]) |-> call(i)] \o LeafCall(x)
      BY <1>1 DEF FireCompleted, TellConsumers
    <2> QED
      BY <2>3, <2>4, LeafCallType, ConcatType
  <1>2. CASE x \notin Data
    BY <1>2, EmptyType DEF FireCompleted
  <1> QED
    BY <1>1, <1>2

\* The producerFinished events an application fires are safe calls.
LEMMA FireFinishedType ==
  ASSUME NEW a \in App, NEW s \in DROPStates
  PROVE  FireFinished(a, s) \in Seq(SafeFrame)
  <1> DEFINE call(i) == [op |-> "producerFinished", drop |-> Outputs[a][i],
                         from |-> a, st |-> s, n |-> 0]
  <1>1. Outputs[a] \in Seq(Data)
    BY GraphAssumption
  <1>2. \A i \in 1..Len(Outputs[a]) : call(i) \in SafeFrame
    BY <1>1 DEF SafeFrame, Frame, AppOp, DataOp, EndOp, Drop
  <1>3. [i \in 1..Len(Outputs[a]) |-> call(i)] \in Seq(SafeFrame)
    BY <1>1, <1>2, ListType
  <1>4. FireFinished(a, s) = [i \in 1..Len(Outputs[a]) |-> call(i)] \o LeafCall(a)
    BY DEF FireFinished
  <1> QED
    BY <1>3, <1>4, LeafCallType, ConcatType DEF Drop

\* The calls a run makes are skips of, and writes into, the app's outputs.
LEMMA RunCallsType ==
  ASSUME NEW a \in App, NEW calls \in RunCalls(a)
  PROVE  calls \in Seq(SafeFrame)
  <1>1. Outputs[a] \in Seq(Data) /\ MaxWrites \in Nat
    BY GraphAssumption, ThreadAssumption
  <1>2. \A i \in DOMAIN Outputs[a] :
          Call("write", Outputs[a][i]) \in SafeFrame /\ Call("skip", Outputs[a][i]) \in SafeFrame
    BY <1>1, CallType DEF DataOp, Drop
  <1>3. CASE a \in Branches
    <2>1. PICK i \in {1, 2} :
            calls = <<Call("skip", Outputs[a][i]), Call("write", Outputs[a][3 - i])>>
      BY <1>3 DEF RunCalls
    <2>2. i \in DOMAIN Outputs[a] /\ 3 - i \in DOMAIN Outputs[a]
      BY <1>1, <1>3, GraphAssumption
    <2> QED
      BY <1>2, <2>1, <2>2
  <1>4. CASE a \notin Branches
    <2>1. PICK k \in 0..MaxWrites : \E w \in [1..k -> DOMAIN Outputs[a]] :
            calls = [i \in DOMAIN w |-> Call("write", Outputs[a][w[i]])]
      BY <1>4 DEF RunCalls
    <2>2. k \in Nat /\ \E w \in [1..k -> DOMAIN Outputs[a]] :
            calls = [i \in 1..k |-> Call("write", Outputs[a][w[i]])]
      BY <1>1, <2>1
    <2> QED
      BY <1>2, <2>2, ListType
  <1> QED
    BY <1>3, <1>4

\* A safe stack is a well-typed stack.
LEMMA StackTypeOK ==
  ASSUME stack' \in [Thread -> Seq(SafeFrame)]
  PROVE  stack' \in [Thread -> Seq(Frame)]
  <1>1. Seq(SafeFrame) \subseteq Seq(Frame)
    BY DEF SafeFrame
  <1> QED
    BY <1>1

\* The number of inputs an application waits for is an integer.
LEMMA NEffType ==
  ASSUME NEW a \in App
  PROVE  NEff(a) \in Int
  <1>1. Inputs(a) \in SUBSET Drop
    BY DEF Inputs, Drop
  <1> QED
    BY <1>1, AppAssumption, CountAssumption DEF NEff, NInputs

\* A step that leaves the inputs heard of and the runs alone keeps EnoughInputs.
LEMMA Frozen ==
  ASSUME EnoughInputs, UNCHANGED <<inputVars, runs>>
  PROVE  EnoughInputs'
  BY Zenon DEF EnoughInputs, inputVars, NHeard, Triggered

\* What is known of the call on top of a thread's stack.
LEMMA TopCall ==
  ASSUME IInv, NEW t \in Thread, NEW op, At(t, op)
  PROVE  /\ stack \in [Thread -> Seq(SafeFrame)] /\ stack[t] # <<>>
         /\ Head(stack[t]) \in SafeFrame /\ Head(stack[t]).op = op
         /\ Self(t) \in Drop
         /\ Head(stack[t]).st \in DROPStates /\ Head(stack[t]).n \in Nat
         /\ op \in AppOp => Self(t) \in App
         /\ op \in DataOp => Self(t) \in Data
         /\ op = "dropCompleted" => Head(stack[t]).from \in Data
         /\ op = "dropCompleted" => Head(stack[t]).from \in Inputs(Self(t))
         /\ op \in EndOp => Self(t) \in Data
         /\ op = "trigger" => Triggered(Self(t))
  <1>1. stack \in [Thread -> Seq(SafeFrame)] /\ stack[t] # <<>>
    BY DEF IInv, At
  <1>2. Head(stack[t]) \in SafeFrame /\ Head(stack[t]).op = op
    BY <1>1, TopType DEF At
  <1> QED
    BY <1>1, <1>2, TopType DEF SafeFrame, Frame, Self

\* Starting an application keeps the stacks safe and the run count bounded.
LEMMA AsyncExecuteType ==
  ASSUME stack \in [Thread -> Seq(SafeFrame)], NEW t \in Thread, stack[t] # <<>>,
         runs \in [App -> 0..MaxRuns], NEW a \in App, AsyncExecute(t, a)
  PROVE  stack' \in [Thread -> Seq(SafeFrame)] /\ runs' \in [App -> 0..MaxRuns]
  <1>1. Tail(stack[t]) \in Seq(SafeFrame)
    BY TopType
  <1>2. <<Call("execute", a)>> \in Seq(SafeFrame)
    BY CallType, SingleType DEF AppOp
  <1>3. runs[a] + 1 \in 0..MaxRuns
    BY ThreadAssumption DEF AsyncExecute
  <1> QED
    BY <1>1, <1>2, <1>3, Zenon DEF AsyncExecute

(***************************************************************************)
(* Every step leaves well-formed calls on the stacks.                      *)
(***************************************************************************)
LEMMA StepStack ==
  ASSUME IInv, NEW t \in Thread, Step(t) \/ CancelStep(t)
  PROVE  stack' \in [Thread -> Seq(SafeFrame)]
  <1> DEFINE x == Self(t)
             top == Head(stack[t])
  <1>1. CASE SetCompleted(t)
    BY <1>1, TopCall, CallType, SingleType, EmptyType, FireCompletedType,
       ReturnType, RaiseType, Zenon
       DEF SetCompleted, EndOp, DROPStates
  <1>2. CASE MoveCompleted(t)
    BY <1>2, TopCall, FireCompletedType, ReturnType DEF MoveCompleted, DROPStates
  <1>3. CASE SetError(t)
    BY <1>3, TopCall, CallType, SingleType, EmptyType, ReturnType, Zenon
       DEF SetError, EndOp
  <1>4. CASE MoveError(t)
    BY <1>4, TopCall, FireCompletedType, ReturnType DEF MoveError, DROPStates
  <1>5. CASE ProducerFinished(t)
    BY <1>5, TopCall, CallType, SingleType, EmptyType, ReturnType, RaiseType, Zenon
       DEF ProducerFinished, DataOp
  <1>6. CASE AllFinished(t)
    BY <1>6, TopCall, CallType, SingleType, ReturnType, Zenon
       DEF AllFinished, DataOp, EndOp
  <1>7. CASE Skip(t)
    BY <1>7, TopCall, CallType, SingleType, EmptyType, ConcatType, ReturnType, Zenon
       DEF Skip, AppPart, AppOp
  <1>8. CASE MoveSkipped(t)
    BY <1>8, TopCall, EmptyType, ReturnType, Zenon DEF MoveSkipped
  <1>9. CASE Cancel(t)
    BY <1>9, TopCall, CallType, SingleType, EmptyType, ConcatType, ReturnType, Zenon
       DEF Cancel, AppPart, AppOp
  <1>10. CASE MoveCancelled(t)
    BY <1>10, TopCall, EmptyType, ReturnType, Zenon DEF MoveCancelled
  <1>11. CASE CancelApp(t)
    BY <1>11, TopCall, EmptyType, ReturnType, Zenon DEF CancelApp
  <1>12. CASE SkipApp(t)
    <2> DEFINE f == [Call("markSkipped", x) EXCEPT
                       !.n = IF execStatus[x] = "NOT_RUN" THEN 1 ELSE 0]
    <2>1. x \in App
      BY <1>12, TopCall DEF SkipApp, AppOp
    <2>2. f \in SafeFrame
      BY <2>1 DEF Call, SafeFrame, Frame, AppOp, DataOp, EndOp, Drop, DROPStates
    <2> QED
      BY <1>12, <2>2, TopCall, SingleType, ReturnType, Zenon DEF SkipApp
  <1>13. CASE MarkSkipped(t)
    <2> DEFINE skips == [i \in 1..Len(Outputs[x]) |-> Call("skip", Outputs[x][i])]
               rest == IF top.n = 1 THEN <<Call("fireFinished", x)>> ELSE <<>>
    <2>1. x \in App
      BY <1>13, TopCall DEF MarkSkipped, AppOp
    <2>2. Outputs[x] \in Seq(Data)
      BY <2>1, GraphAssumption
    <2>3. \A i \in 1..Len(Outputs[x]) : Call("skip", Outputs[x][i]) \in SafeFrame
      BY <2>2, CallType DEF Drop
    <2>4. skips \in Seq(SafeFrame)
      BY <2>2, <2>3, ListType
    <2>5. rest \in Seq(SafeFrame)
      BY <2>1, CallType, SingleType, EmptyType DEF AppOp
    <2>6. skips \o rest \in Seq(SafeFrame)
      BY <2>4, <2>5, ConcatType
    <2>7. Return(t, skips \o rest)
      BY <1>13 DEF MarkSkipped
    <2> QED
      BY <1>13, <2>6, <2>7, TopCall, ReturnType, Zenon DEF MarkSkipped
  <1>14. CASE FireProducerFinished(t)
    BY <1>14, TopCall, FireFinishedType, ReturnType
       DEF FireProducerFinished, AppOp, IInv, TypeOK, Drop
  <1>15. CASE DropCompleted(t)
    BY <1>15, TopCall, CallType, SingleType, ReturnType, RaiseType, Zenon
       DEF DropCompleted, AppOp
  <1>16. CASE FailInputs(t)
    BY <1>16, TopCall, CallType, SingleType, ReturnType, Zenon DEF FailInputs, AppOp
  <1>17. CASE Execute(t)
    BY <1>17, TopCall, CallType, SingleType, ReturnType, Zenon DEF Execute, AppOp
  <1>18. CASE Run(t)
    <2>1. x \in App
      BY <1>18, TopCall DEF Run, AppOp
    <2>2. PICK calls \in RunCalls(x) : Return(t, calls \o <<[top EXCEPT !.op = "ran"]>>)
      BY <1>18 DEF Run
    <2>3. [top EXCEPT !.op = "ran"] \in SafeFrame
      <3>1. top \in SafeFrame /\ top.drop \in App
        BY <1>18, <2>1, TopCall DEF Run, Self
      <3> QED
        BY <3>1, RenameType DEF AppOp
    <2>4. calls \o <<[top EXCEPT !.op = "ran"]>> \in Seq(SafeFrame)
      BY <2>1, <2>3, RunCallsType, SingleType, ConcatType
    <2> QED
      BY <1>18, <2>2, <2>4, TopCall, ReturnType, Zenon DEF Run
  <1>19. CASE Ran(t)
    BY <1>19, TopCall, CallType, SingleType, EmptyType, ReturnType, Zenon DEF Ran, AppOp
  <1>20. CASE RunRaised(t)
    <2>1. PICK op \in {"run", "ran"} : At(t, op)
      BY <1>20 DEF RunRaised
    <2>2. x \in App
      BY <2>1, TopCall DEF AppOp
    <2>3. [top EXCEPT !.op = "failed"] \in SafeFrame
      <3>1. top \in SafeFrame /\ top.drop \in App
        BY <2>1, <2>2, TopCall DEF Self
      <3> QED
        BY <3>1, RenameType DEF AppOp
    <2>4. Call("giveUp", x) \in SafeFrame
      BY <2>2, CallType DEF AppOp
    <2> QED
      BY <1>20, <2>1, <2>3, <2>4, TopCall, SingleType, ReturnType, Zenon DEF RunRaised
  <1>21. CASE Failed(t)
    <2>1. x \in App /\ top.n + 1 \in Nat
      BY <1>21, TopCall DEF Failed, AppOp
    <2>2. [Call("run", x) EXCEPT !.n = top.n + 1] \in SafeFrame
      BY <2>1 DEF Call, SafeFrame, Frame, AppOp, DataOp, EndOp, Drop, DROPStates
    <2>3. Call("giveUp", x) \in SafeFrame
      BY <2>1, CallType DEF AppOp
    <2> QED
      BY <1>21, <2>2, <2>3, TopCall, SingleType, EmptyType, ReturnType, Zenon DEF Failed
  <1>22. CASE MarkFinished(t)
    <2>1. x \in App
      BY <1>22, TopCall DEF MarkFinished, AppOp
    <2>2. [Call("setStatus", x) EXCEPT !.st = "COMPLETED"] \in SafeFrame
      BY <2>1 DEF Call, SafeFrame, Frame, AppOp, DataOp, EndOp, Drop, DROPStates
    <2> QED
      BY <1>22, <2>2, TopCall, SingleType, ReturnType, Zenon DEF MarkFinished
  <1>23. CASE GiveUp(t)
    <2>1. x \in App
      BY <1>23, TopCall DEF GiveUp, AppOp
    <2>2. [Call("setStatus", x) EXCEPT !.st = "ERROR"] \in SafeFrame
      BY <2>1 DEF Call, SafeFrame, Frame, AppOp, DataOp, EndOp, Drop, DROPStates
    <2> QED
      BY <1>23, <2>2, TopCall, SingleType, ReturnType, Zenon DEF GiveUp
  <1>24. CASE SetFinalStatus(t)
    BY <1>24, TopCall, CallType, SingleType, ReturnType, Zenon DEF SetFinalStatus, AppOp
  <1>25. CASE Notify(t)
    <2> DEFINE f == [Call("moveFinished", x) EXCEPT
                       !.st = IF execStatus[x] = "ERROR" THEN "ERROR" ELSE "COMPLETED"]
    <2>1. x \in App
      BY <1>25, TopCall DEF Notify, AppOp
    <2>2. f \in SafeFrame
      BY <2>1 DEF Call, SafeFrame, Frame, AppOp, DataOp, EndOp, Drop, DROPStates
    <2> QED
      BY <1>25, <2>2, TopCall, SingleType, ReturnType, Zenon DEF Notify
  <1>26. CASE MoveFinished(t)
    BY <1>26, TopCall, CallType, SingleType, ReturnType, Zenon DEF MoveFinished, AppOp
  <1>27. CASE Write(t)
    BY <1>27, TopCall, CallType, SingleType, EmptyType, ReturnType, Zenon DEF Write, DataOp
  <1>28. CASE Wrote(t)
    BY <1>28, TopCall, CallType, SingleType, EmptyType, ReturnType, Zenon
       DEF Wrote, DataOp, EndOp
  <1>29. CASE Trigger(t)
    <2>1. CASE x \in App /\ AsyncExecute(t, x)
      BY <1>29, <2>1, TopCall, AsyncExecuteType, Zenon DEF Trigger, IInv, TypeOK
    <2>2. CASE x \in Data /\ Return(t, <<Call("setCompleted", x)>>)
      BY <1>29, <2>2, TopCall, CallType, SingleType, ReturnType, Zenon
         DEF Trigger, EndOp
    <2> QED
      BY <1>29, <2>1, <2>2 DEF Trigger
  <1>30. CASE Evaluate(t)
    <2>1. x \in App
      BY <1>30, TopCall DEF Evaluate, AppOp
    <2>2. CASE AsyncExecute(t, x)
      BY <1>30, <2>1, <2>2, TopCall, AsyncExecuteType, Zenon DEF Evaluate, IInv, TypeOK
    <2>3. CASE \/ Return(t, <<>>) \/ Return(t, <<Call("failInputs", x)>>)
               \/ Return(t, <<Call("notify", x)>>) \/ Return(t, <<Call("skip", x)>>)
      BY <1>30, <2>1, <2>3, TopCall, CallType, SingleType, EmptyType, ReturnType, Zenon
         DEF Evaluate, AppOp
    <2> QED
      BY <1>30, <2>2, <2>3 DEF Evaluate
  <1>31. CASE IOWrite(t)
    BY <1>31, TopCall, CallType, SingleType, ReturnType, RaiseType, Zenon DEF IOWrite, DataOp
  <1> QED
    BY <1>1, <1>2, <1>3, <1>4, <1>5, <1>6, <1>7, <1>8, <1>9, <1>10, <1>11, <1>12,
       <1>13, <1>14, <1>15, <1>16, <1>17, <1>18, <1>19, <1>20, <1>21, <1>22, <1>23,
       <1>24, <1>25, <1>26, <1>27, <1>28, <1>29, <1>30, <1>31
       DEF Step, DropStep, AppStep, CancelStep

(***************************************************************************)
(* Every step keeps the types of the other variables.  Only the steps that *)
(* assign one of them need an argument.                                    *)
(***************************************************************************)
LEMMA StepTypes ==
  ASSUME IInv, NEW t \in Thread, Step(t) \/ CancelStep(t)
  PROVE  TypeOK'
  <1> DEFINE x == Self(t)
             top == Head(stack[t])
  <1> USE DEF IInv, TypeOK, dataVars, inputVars
  <1>0. stack' \in [Thread -> Seq(Frame)]
    BY StepStack, StackTypeOK
  <1>1. CASE SetCompleted(t) \/ SetError(t) \/ AllFinished(t) \/ Cancel(t) \/ SkipApp(t)
    BY <1>0, <1>1, Zenon DEF SetCompleted, SetError, AllFinished, Cancel, SkipApp
  <1>2. CASE FireProducerFinished(t) \/ Run(t) \/ Ran(t) \/ RunRaised(t) \/ Failed(t) \/ Notify(t)
    BY <1>0, <1>2 DEF FireProducerFinished, Run, Ran, RunRaised, Failed, Notify
  <1>3. CASE MoveCompleted(t) \/ MoveError(t) \/ MoveSkipped(t) \/ MoveCancelled(t)
    BY <1>0, <1>3, Zenon DEF MoveCompleted, MoveError, MoveSkipped, MoveCancelled, End,
       SetStatus, DROPStates
  <1>4. CASE FailInputs(t)
    BY <1>0, <1>4, Zenon DEF FailInputs, SetStatus, DROPStates
  <1>5. CASE SetFinalStatus(t) \/ MoveFinished(t)
    <2>1. top.st \in DROPStates
      BY <1>5, TopCall, Zenon DEF SetFinalStatus, MoveFinished
    <2>2. status' \in [Drop -> DROPStates]
      BY <1>5, <2>1, Zenon DEF SetFinalStatus, MoveFinished, SetStatus
    <2>3. UNCHANGED <<execStatus, dataVars, inputVars, runs>>
      BY <1>5 DEF SetFinalStatus, MoveFinished
    <2> QED
      BY <1>0, <2>2, <2>3
  <1>6. CASE CancelApp(t) \/ MarkSkipped(t) \/ Execute(t) \/ MarkFinished(t) \/ GiveUp(t)
    BY <1>0, <1>6, Zenon DEF CancelApp, MarkSkipped, Execute, MarkFinished, GiveUp, SetExec, AppDROPStates
  <1>7. CASE ProducerFinished(t)
    <2>1. x \in Data /\ top.st \in DROPStates
      BY <1>7, TopCall DEF ProducerFinished, DataOp
    <2>2. Append(finishedProducers[x], top.st) \in Seq(DROPStates)
      BY <2>1, AppendType
    <2>3. finishedProducers' \in [Data -> Seq(DROPStates)]
      BY <1>7, <2>2, Zenon DEF ProducerFinished
    <2>4. refCount' \in [Drop -> Int]
      BY <1>7, <2>1 DEF ProducerFinished, Drop
    <2> QED
      BY <1>0, <1>7, <2>3, <2>4 DEF ProducerFinished
  <1>8. CASE Skip(t)
    BY <1>0, <1>8 DEF Skip
  <1>9. CASE DropCompleted(t)
    <2>1. x \in App /\ top.from \in Data
      BY <1>9, TopCall DEF DropCompleted, AppOp
    <2>2. Append(errorInputs[x], top.from) \in Seq(Data)
      BY <2>1, AppendType
    <2>3. Append(completedInputs[x], top.from) \in Seq(Data)
      BY <2>1, AppendType
    <2>4. Append(skippedInputs[x], top.from) \in Seq(Data)
      BY <2>1, AppendType
    <2> QED
      BY <1>0, <1>9, <2>2, <2>3, <2>4, Zenon DEF DropCompleted
  <1>10. CASE Evaluate(t)
    <2>1. runs' \in [App -> 0..MaxRuns]
      BY <1>10, TopCall, AsyncExecuteType, Zenon DEF Evaluate, AppOp
    <2> QED
      BY <1>0, <1>10, <2>1, Zenon DEF Evaluate, SetExec, AppDROPStates
  <1>11. CASE Trigger(t)
    <2>1. runs' \in [App -> 0..MaxRuns]
      BY <1>11, TopCall, AsyncExecuteType, Zenon DEF Trigger
    <2> QED
      BY <1>0, <1>11, <2>1, Zenon DEF Trigger
  <1>12. CASE IOWrite(t)
    <2>1. status' \in [Drop -> DROPStates]
      BY <1>12 DEF IOWrite, SetStatus, DROPStates
    <2>2. size' \in [Data -> Nat]
      BY <1>12 DEF IOWrite
    <2>3. writer' \in [Drop -> {"none", "open", "broken"}]
      BY <1>12, Zenon DEF IOWrite
    <2> QED
      BY <1>0, <1>12, <2>1, <2>2, <2>3 DEF IOWrite
  <1>13. CASE Wrote(t)
    BY <1>0, <1>13 DEF Wrote, SetStatus, DROPStates
  <1>14. CASE Write(t)
    BY <1>0, <1>14 DEF Write
  <1> QED
    BY <1>1, <1>2, <1>3, <1>4, <1>5, <1>6, <1>7, <1>8, <1>9, <1>10, <1>11, <1>12, <1>13, <1>14, Zenon
       DEF Step, DropStep, AppStep, CancelStep

(***************************************************************************)
(* A thread is given to an app by Evaluate, which has just counted enough  *)
(* inputs, or by Trigger; and no step makes an app forget an input.        *)
(***************************************************************************)
LEMMA StepEnough ==
  ASSUME IInv, NEW t \in Thread, Step(t) \/ CancelStep(t)
  PROVE  EnoughInputs'
  <1> DEFINE x == Self(t)
  <1>1. CASE UNCHANGED <<inputVars, runs>>
    BY <1>1, Frozen DEF IInv
  <1>2. CASE DropCompleted(t)
    <2> DEFINE d == Head(stack[t]).from
    <2>1. x \in App /\ d \in Data
      BY <1>2, TopCall DEF DropCompleted, AppOp
    <2>2. \A list \in Seq(Data) : Len(list) \in Nat /\ Len(Append(list, d)) = Len(list) + 1
      BY <2>1
    <2>3. /\ completedInputs \in [App -> Seq(Data)]
          /\ errorInputs \in [App -> Seq(Data)]
          /\ skippedInputs \in [App -> Seq(Data)]
      BY DEF IInv, TypeOK
    <2>4. \A a \in App : /\ NHeard(a)' \in Int /\ NHeard(a) \in Int
                         /\ NHeard(a)' >= NHeard(a)
      <3> DEFINE Heard(old, new) == new = old \/ new = [old EXCEPT ![x] = Append(@, d)]
                 Grown(old, new) == \A a \in App : /\ Len(old[a]) \in Nat /\ Len(new[a]) \in Nat
                                                   /\ Len(new[a]) >= Len(old[a])
      <3>1. /\ Heard(completedInputs, completedInputs')
            /\ Heard(errorInputs, errorInputs')
            /\ Heard(skippedInputs, skippedInputs')
        BY <1>2 DEF DropCompleted, inputVars
      <3>2. ASSUME NEW old \in [App -> Seq(Data)], NEW new, Heard(old, new)
            PROVE  Grown(old, new)
        BY <2>1, <2>2, <3>2
      <3>3. /\ Grown(completedInputs, completedInputs')
            /\ Grown(errorInputs, errorInputs')
            /\ Grown(skippedInputs, skippedInputs')
        BY <2>3, <3>1, <3>2, Zenon
      <3> HIDE DEF Grown
      <3>4. ASSUME NEW a \in App
            PROVE  NHeard(a)' \in Int /\ NHeard(a) \in Int /\ NHeard(a)' >= NHeard(a)
        <4> DEFINE p == Len(completedInputs[a])   p1 == Len(completedInputs'[a])
                   q == Len(errorInputs[a])       q1 == Len(errorInputs'[a])
                   r == Len(skippedInputs[a])     r1 == Len(skippedInputs'[a])
        <4>1. p \in Nat /\ p1 \in Nat /\ p1 >= p
          BY <3>3 DEF Grown
        <4>2. q \in Nat /\ q1 \in Nat /\ q1 >= q
          BY <3>3 DEF Grown
        <4>3. r \in Nat /\ r1 \in Nat /\ r1 >= r
          BY <3>3 DEF Grown
        <4>4. NHeard(a) = p + q + r /\ NHeard(a)' = p1 + q1 + r1
          BY DEF NHeard
        <4> HIDE DEF p, p1, q, q1, r, r1
        <4> QED
          BY <4>1, <4>2, <4>3, <4>4
      <3> QED
        BY <3>4
    <2>5. runs' = runs
      BY <1>2 DEF DropCompleted
    <2>6. ASSUME NEW a \in App, runs'[a] > 0, ~Triggered(a)
          PROVE  NHeard(a)' >= NEff(a)
      <3>1. NHeard(a) >= NEff(a)
        BY <2>5, <2>6 DEF IInv, EnoughInputs
      <3>2. NEff(a) \in Int
        BY NEffType
      <3> QED
        BY <2>4, <3>1, <3>2
    <2> QED
      BY <2>6, Zenon DEF EnoughInputs, Triggered
  <1>3. CASE Evaluate(t)
    <2>1. CASE UNCHANGED runs
      BY <1>1, <1>3, <2>1, Zenon DEF Evaluate, inputVars
    <2>2. CASE NHeard(x) = NEff(x) /\ AsyncExecute(t, x)
      <3>1. \A a \in App : NHeard(a)' = NHeard(a)
        BY <1>3 DEF Evaluate, inputVars, NHeard
      <3>2. \A a \in App \ {x} : runs'[a] = runs[a]
        BY <2>2 DEF AsyncExecute, IInv, TypeOK
      <3>3. \A a \in App : NEff(a) \in Int
        BY NEffType
      <3>4. ASSUME NEW a \in App, runs'[a] > 0, ~Triggered(a)
            PROVE  NHeard(a)' >= NEff(a)
        <4>1. CASE a = x
          BY <2>2, <3>1, <3>3, <4>1
        <4>2. CASE a # x
          BY <3>1, <3>2, <3>4, <4>2 DEF IInv, EnoughInputs
        <4> QED
          BY <4>1, <4>2
      <3> QED
        BY <3>4 DEF EnoughInputs, Triggered
    <2> QED
      BY <1>3, <2>1, <2>2, Zenon DEF Evaluate, AllHeard
  <1>4. CASE Trigger(t)
    <2>1. CASE UNCHANGED runs
      BY <1>1, <1>4, <2>1 DEF Trigger, inputVars
    <2>2. CASE AsyncExecute(t, x)
      <3>1. \A a \in App : NHeard(a)' = NHeard(a)
        BY <1>4 DEF Trigger, inputVars, NHeard
      <3>2. \A a \in App \ {x} : runs'[a] = runs[a]
        BY <2>2 DEF AsyncExecute, IInv, TypeOK
      <3>3. Triggered(x)
        BY <1>4, TopCall DEF Trigger
      <3> QED
        BY <3>1, <3>2, <3>3 DEF EnoughInputs, IInv, Triggered
    <2> QED
      BY <1>4, <2>1, <2>2 DEF Trigger
  <1>5. CASE ~(DropCompleted(t) \/ Evaluate(t) \/ Trigger(t))
    <2>1. UNCHANGED <<inputVars, runs>>
      BY <1>5, Zenon DEF Step, DropStep, AppStep, CancelStep, SetCompleted, MoveCompleted, SetError, MoveError,
         ProducerFinished, AllFinished, Skip, MoveSkipped, Cancel, MoveCancelled, CancelApp,
         SkipApp, MarkSkipped, FireProducerFinished, FailInputs, Execute, Run, Ran, RunRaised,
         Failed, MarkFinished, GiveUp, SetFinalStatus, Notify, MoveFinished, Write, IOWrite,
         Wrote, End, inputVars
    <2> QED
      BY <1>1, <2>1
  <1> QED
    BY <1>2, <1>3, <1>4, <1>5

(***************************************************************************)
(* The theorems.                                                           *)
(***************************************************************************)
LEMMA InitSafe == Init => IInv
  <1> SUFFICES ASSUME Init
               PROVE  IInv
    OBVIOUS
  <1>1. \A c \in Callers :
          [i \in DOMAIN Triggers[c] |-> Call("trigger", Triggers[c][i])] \in Seq(SafeFrame)
    <2> SUFFICES ASSUME NEW c \in Callers
                 PROVE  [i \in DOMAIN Triggers[c] |-> Call("trigger", Triggers[c][i])]
                          \in Seq(SafeFrame)
      OBVIOUS
    <2>1. Triggers[c] \in Seq(Drop)
      BY ThreadAssumption
    <2>2. \A i \in DOMAIN Triggers[c] : Call("trigger", Triggers[c][i]) \in SafeFrame
      BY <2>1 DEF SafeFrame, Frame, Call, AppOp, DataOp, DropOp, EndOp, DROPStates, Triggered
    <2>3. DOMAIN Triggers[c] = 1..Len(Triggers[c]) /\ Len(Triggers[c]) \in Nat
      BY <2>1
    <2> QED
      BY <2>2, <2>3, ListType
  <1>2. stack \in [Thread -> Seq(SafeFrame)]
    BY <1>1, EmptyType DEF Init
  <1>3. stack \in [Thread -> Seq(Frame)]
    <2>1. Seq(SafeFrame) \subseteq Seq(Frame)
      BY DEF SafeFrame
    <2> QED
      BY <1>2, <2>1
  <1>4. TypeOK
    <2>1. "INITIALIZED" \in DROPStates /\ "NOT_RUN" \in AppDROPStates
      BY DEF DROPStates, AppDROPStates
    <2>2. 0 \in 0..MaxRuns
      BY ThreadAssumption
    <2>3. /\ status \in [Drop -> DROPStates] /\ execStatus \in [App -> AppDROPStates]
          /\ refCount \in [Drop -> Int] /\ size \in [Data -> Nat] /\ runs \in [App -> 0..MaxRuns]
      BY <2>1, <2>2 DEF Init
    <2>4. /\ finishedProducers \in [Data -> Seq(DROPStates)]
          /\ writer \in [Drop -> {"none", "open", "broken"}]
      BY DEF Init
    <2>5. /\ completedInputs \in [App -> Seq(Data)] /\ errorInputs \in [App -> Seq(Data)]
          /\ skippedInputs \in [App -> Seq(Data)]
      BY DEF Init
    <2> QED
      BY <1>3, <2>3, <2>4, <2>5 DEF TypeOK
  <1>5. EnoughInputs
    BY DEF Init, EnoughInputs
  <1> QED
    BY <1>2, <1>4, <1>5 DEF IInv

\* Every step of every thread preserves the inductive invariant.
LEMMA NextSafe == IInv /\ [Next]_vars => IInv'
  <1> SUFFICES ASSUME IInv, [Next]_vars
               PROVE  IInv'
    OBVIOUS
  <1>1. CASE UNCHANGED vars
    BY <1>1 DEF vars, dataVars, inputVars, IInv, TypeOK, EnoughInputs, NHeard, Triggered
  <1>2. ASSUME NEW t \in Thread, Step(t)
        PROVE  IInv'
    BY <1>2, StepStack, StepTypes, StepEnough DEF IInv
  <1> QED
    BY <1>1, <1>2 DEF Next, Done

\* The variables keep their types in every execution of every graph, and
\* in particular no call is ever made on a drop of the wrong kind.
THEOREM TypeCorrect == Spec => []TypeOK
  <1>1. IInv => TypeOK
    BY DEF IInv
  <1> QED
    BY <1>1, InitSafe, NextSafe, PTL DEF Spec

\* InputFiredAppDROP.dropCompleted starts no app too early: in every graph,
\* with any number of threads delivering notifications concurrently, an app
\* that nobody triggers by hand gets a thread only after hearing from its
\* effective number of inputs.
THEOREM NoEarlyExecution == Spec => []EnoughInputs
  <1>1. IInv => EnoughInputs
    BY DEF IInv
  <1> QED
    BY <1>1, InitSafe, NextSafe, PTL DEF Spec

\* A step is the one of the call on top of the thread's stack.
LEMMA StepBase ==
  ASSUME IInv, NEW t \in Thread, Step(t)
  PROVE  /\ stack \in [Thread -> Seq(SafeFrame)] /\ stack[t] # <<>>
         /\ stack' \in [Thread -> Seq(SafeFrame)]
         /\ Head(stack[t]) \in SafeFrame /\ Head(stack[t]) \in Frame
  <1>1. stack \in [Thread -> Seq(SafeFrame)] /\ stack[t] # <<>>
    BY Zenon DEF IInv, Step, DropStep, AppStep, SetCompleted, MoveCompleted, SetError, MoveError,
       ProducerFinished, AllFinished, Skip, MoveSkipped, Trigger, SkipApp, MarkSkipped,
       FireProducerFinished, DropCompleted, Evaluate, FailInputs, Execute, Run, Ran, RunRaised,
       Failed, MarkFinished, GiveUp, SetFinalStatus, Notify, MoveFinished, Write, IOWrite, Wrote, At
  <1>2. stack' \in [Thread -> Seq(SafeFrame)]
    BY StepStack
  <1>3. Head(stack[t]) \in SafeFrame
    BY <1>1, TopType
  <1> QED
    BY <1>1, <1>2, <1>3, Zenon DEF SafeFrame

-----------------------------------------------------------------------------
\* addConsumer subscribes a consumer once.
SubscribedOnce ==
  \A d \in Data : \A i, j \in DOMAIN Consumers[d] : Consumers[d][i] = Consumers[d][j] => i = j

\* The drops that are triggered are roots of the graph, each triggered once.
RootsTriggered ==
  /\ \A c, e \in Callers : \A i \in DOMAIN Triggers[c], j \in DOMAIN Triggers[e] :
       Triggers[c][i] = Triggers[e][j] => c = e /\ i = j
  /\ \A d \in Data : Triggered(d) => Producers(d) = {}
  /\ \A a \in App : Triggered(a) => Inputs(a) = {}

\* No DataDROP completes itself because it has its expected size, the default.
SizesUnknown == \A d \in Data : ExpectedSize[d] <= 0

Orderly == SubscribedOnce /\ RootsTriggered /\ SizesUnknown

(***************************************************************************)
(* What a step does to the stacks.                                         *)
(***************************************************************************)
\* The calls on the way from the production of a DataDROP to its consumers.
NoticeOp == {"trigger", "allFinished", "dropCompleted", "evaluate"} \cup EndOp

\* What a call made by the method on top of t's stack says about that method.
Called(t, f) ==
  LET top == Head(stack[t]) IN
  /\ f.op # "trigger"
  /\ f.op = "allFinished" => /\ top.op = "producerFinished" /\ f.drop = top.drop
                             /\ Len(finishedProducers[f.drop]) + 1 = NProducers(f.drop)
  /\ f.op = "setCompleted" => top.op \in {"trigger", "allFinished"} /\ f.drop = top.drop
  /\ f.op = "setError" => top.op = "allFinished" /\ f.drop = top.drop
  /\ f.op = "moveCompleted" => top.op = "setCompleted" /\ f.drop = top.drop
  /\ f.op = "moveError" => top.op = "setError" /\ f.drop = top.drop
  /\ f.op = "dropCompleted" =>
       top.op \in {"setCompleted", "moveCompleted", "moveError"} /\ f.from = top.drop
  /\ f.op = "evaluate" => top.op = "dropCompleted" /\ f.drop = top.drop

\* The first n calls on t's stack are new, the others are left from before,
\* k places further down; only a run that starts or fails appears elsewhere.
Moves(t, n, k) ==
  \A u \in Thread : \A j \in DOMAIN stack'[u] :
    \/ u # t /\ j \in DOMAIN stack[u] /\ stack'[u][j] = stack[u][j]
    \/ u = t /\ j <= n /\ Called(t, stack'[u][j])
    \/ u = t /\ j > n /\ j + k \in 2..Len(stack[t]) /\ stack'[u][j] = stack[t][j + k]
    \/ stack'[u][j].op \in {"execute", "failed"}

\* No two of the new calls are the same notice to the same drop.
Apart(t, n) ==
  \A i, j \in DOMAIN stack'[t] :
    /\ i <= n /\ j <= n
    /\ stack'[t][i].op \in NoticeOp /\ stack'[t][j].op \in NoticeOp
    => /\ stack'[t][i].op = stack'[t][j].op
       /\ stack'[t][i].drop = stack'[t][j].drop => i = j

Effect(t) == \E n \in Nat, k \in Int : Moves(t, n, k) /\ Apart(t, n)

\* A write completes no DataDROP by itself.
LEMMA NeverFull ==
  ASSUME SizesUnknown, NEW d \in Data
  PROVE  ~(ExpectedSize[d] > 0)
  BY GraphAssumption DEF SizesUnknown

\* A method that returns replaces itself by the calls it makes.
LEMMA ReturnMoves ==
  ASSUME stack \in [Thread -> Seq(SafeFrame)], NEW t \in Thread, stack[t] # <<>>,
         NEW T, NEW fs \in Seq(T), Return(t, fs),
         \A i \in DOMAIN fs : Called(t, fs[i]),
         \A i, j \in DOMAIN fs : fs[i].op \in NoticeOp /\ fs[j].op \in NoticeOp
            => fs[i].op = fs[j].op /\ (fs[i].drop = fs[j].drop => i = j)
  PROVE  Effect(t)
  <1> DEFINE n == Len(fs)
             s == stack[t]
             m == fs \o Tail(s)
  <1>1. /\ stack'[t] = m
        /\ \A u \in Thread : u # t => stack'[u] = stack[u]
    BY DEF Return
  <1>2. n \in Nat /\ Len(s) \in Nat /\ Len(Tail(s)) = Len(s) - 1 /\ DOMAIN fs = 1..n
        /\ \A j \in 1..Len(s) - 1 : Tail(s)[j] = s[j + 1]
    <2>1. s \in Seq(SafeFrame)
      OBVIOUS
    <2> HIDE DEF s
    <2>2. Tail(s) \in Seq(SafeFrame) /\ Len(s) \in Nat /\ s # <<>>
      BY <2>1 DEF s
    <2> QED
      BY <2>1, <2>2
  <1>3. /\ DOMAIN m = 1..n + (Len(s) - 1)
        /\ \A j \in 1..n + (Len(s) - 1) :
             m[j] = IF j <= n THEN fs[j] ELSE Tail(s)[j - n]
    BY <1>2
  <1> HIDE DEF s, m, n
  <1>4. ASSUME NEW j \in DOMAIN m
        PROVE  \/ j <= n /\ j \in DOMAIN fs /\ m[j] = fs[j]
               \/ j > n /\ j + (1 - n) \in 2..Len(s) /\ m[j] = s[j + (1 - n)]
    BY <1>2, <1>3
  <1>5. Moves(t, n, 1 - n)
    <2> SUFFICES ASSUME NEW u \in Thread, NEW j \in DOMAIN stack'[u]
                 PROVE  \/ u # t /\ j \in DOMAIN stack[u] /\ stack'[u][j] = stack[u][j]
                        \/ u = t /\ j <= n /\ Called(t, stack'[u][j])
                        \/ /\ u = t /\ j > n /\ j + (1 - n) \in 2..Len(stack[t])
                           /\ stack'[u][j] = stack[t][j + (1 - n)]
      BY Zenon DEF Moves
    <2>1. CASE u = t
      BY <1>1, <1>4, <2>1, Zenon DEF s
    <2>2. CASE u # t
      BY <1>1, <2>2, Zenon
    <2> QED
      BY <2>1, <2>2
  <1>6. Apart(t, n)
    <2> SUFFICES ASSUME NEW i \in DOMAIN m, NEW j \in DOMAIN m, i <= n, j <= n,
                        m[i].op \in NoticeOp, m[j].op \in NoticeOp
                 PROVE  m[i].op = m[j].op /\ (m[i].drop = m[j].drop => i = j)
      BY <1>1, ZenonT(30) DEF Apart
    <2>1. i \in DOMAIN fs /\ m[i] = fs[i] /\ j \in DOMAIN fs /\ m[j] = fs[j]
      BY <1>2, <1>3
    <2> QED
      BY <2>1, Zenon
  <1> QED
    BY <1>2, <1>5, <1>6 DEF Effect

\* A method may return without making a call.
LEMMA ReturnNone ==
  ASSUME stack \in [Thread -> Seq(SafeFrame)], NEW t \in Thread, stack[t] # <<>>, Return(t, <<>>)
  PROVE  Effect(t)
  <1>1. <<>> \in Seq({}) /\ DOMAIN <<>> = {}
    OBVIOUS
  <1> QED
    BY <1>1, ReturnMoves, Zenon

\* A method may make one call.
LEMMA ReturnOne ==
  ASSUME stack \in [Thread -> Seq(SafeFrame)], NEW t \in Thread, stack[t] # <<>>,
         NEW f, Return(t, <<f>>), Called(t, f)
  PROVE  Effect(t)
  <1>1. <<f>> \in Seq({f}) /\ DOMAIN <<f>> = {1} /\ <<f>>[1] = f
    OBVIOUS
  <1>2. \A i, j \in {1} : i = j
    OBVIOUS
  <1> DEFINE fs == <<f>>
  <1>3. fs \in Seq({f}) /\ DOMAIN fs = {1} /\ fs[1] = f /\ Return(t, fs)
    BY <1>1
  <1> HIDE DEF fs
  <1>4. /\ \A i \in DOMAIN fs : Called(t, fs[i])
        /\ \A i, j \in DOMAIN fs : fs[i].op = fs[j].op /\ i = j
    BY <1>3, Zenon
  <1> QED
    BY <1>3, <1>4, ReturnMoves, Zenon

\* Calls that are no notices.
Plain(fs) == fs \in Seq(SafeFrame) /\ \A i \in DOMAIN fs : fs[i].op \notin NoticeOp

\* One call that is no notice is plain.
LEMMA PlainOne ==
  ASSUME NEW f \in SafeFrame, f.op \notin NoticeOp
  PROVE  Plain(<<f>>)
  BY DEF Plain

\* No calls are plain.
LEMMA PlainNone == Plain(<<>>)
  BY DEF Plain

\* Plain calls followed by plain calls are plain.
LEMMA PlainConcat ==
  ASSUME NEW fs, NEW gs, Plain(fs), Plain(gs)
  PROVE  Plain(fs \o gs)
  <1>1. fs \o gs \in Seq(SafeFrame) /\ Len(fs) \in Nat
    BY ConcatType DEF Plain
  <1>2. \A i \in DOMAIN (fs \o gs) :
          \/ i \in DOMAIN fs /\ (fs \o gs)[i] = fs[i]
          \/ i - Len(fs) \in DOMAIN gs /\ (fs \o gs)[i] = gs[i - Len(fs)]
    BY DEF Plain
  <1> QED
    BY <1>1, <1>2, Zenon DEF Plain

\* A list of calls of the same method is plain when the method is no notice.
LEMMA PlainCalls ==
  ASSUME NEW n \in Nat, NEW fs, DOMAIN fs = 1..n, fs \in Seq(SafeFrame),
         \A i \in 1..n : fs[i].op \notin NoticeOp
  PROVE  Plain(fs)
  BY Zenon DEF Plain

\* The call of any method that is no notice is plain.
LEMMA PlainCall ==
  ASSUME NEW op, NEW x, Call(op, x) \in SafeFrame, op \notin NoticeOp
  PROVE  Plain(<<Call(op, x)>>)
  <1>1. Call(op, x).op = op
    BY DEF Call
  <1> QED
    BY <1>1, PlainOne, Zenon

\* A method may make calls that are no notices.
LEMMA ReturnPlain ==
  ASSUME stack \in [Thread -> Seq(SafeFrame)], NEW t \in Thread, stack[t] # <<>>,
         NEW fs, Plain(fs), Return(t, fs)
  PROVE  Effect(t)
  <1>1. \A i \in DOMAIN fs : Called(t, fs[i])
    <2>1. ASSUME NEW f, f.op \notin NoticeOp
          PROVE  Called(t, f)
      BY <2>1 DEF Called, NoticeOp, EndOp
    <2> QED
      BY <2>1, Zenon DEF Plain
  <1> QED
    BY <1>1, ReturnMoves, Zenon DEF Plain

\* A DataDROP that ends tells each of its consumers once.
LEMMA ReturnFire ==
  ASSUME SubscribedOnce, stack \in [Thread -> Seq(SafeFrame)], NEW t \in Thread, stack[t] # <<>>,
         Head(stack[t]).op \in {"setCompleted", "moveCompleted", "moveError"},
         Self(t) \in Data, NEW s \in DROPStates, Return(t, FireCompleted(Self(t), s))
  PROVE  Effect(t)
  <1> DEFINE x == Self(t)
             n == Len(Consumers[x])
             tells == TellConsumers(x, s)
             fs == FireCompleted(x, s)
  <1>1. Consumers[x] \in Seq(App) /\ n \in Nat /\ DOMAIN Consumers[x] = 1..n
    BY GraphAssumption
  <1>2. fs \in Seq(SafeFrame)
    BY FireCompletedType DEF Drop
  <1>3. fs = tells \o LeafCall(x)
    BY DEF FireCompleted
  <1>4. \A i \in 1..n : /\ tells[i].op = "dropCompleted" /\ tells[i].from = x
                         /\ tells[i].drop = Consumers[x][i]
    BY DEF TellConsumers
  <1>5. Len(tells) = n /\ tells \in Seq(SafeFrame)
    <2> DEFINE call(i) == [op |-> "dropCompleted", drop |-> Consumers[x][i],
                           from |-> x, st |-> s, n |-> 0]
    <2>1. \A i \in 1..n : call(i) \in SafeFrame
      <3> TAKE i \in 1..n
      <3>1. Consumers[x][i] \in App /\ x \in Inputs(Consumers[x][i])
        BY <1>1 DEF Inputs
      <3> QED
        BY <3>1, ZenonT(30) DEF SafeFrame, Frame, AppOp, DataOp, EndOp, Drop
    <2>2. tells = [i \in 1..n |-> call(i)]
      BY DEF TellConsumers
    <2> HIDE DEF call, n, tells
    <2> QED
      BY <1>1, <2>1, <2>2, ListType, SMTT(30)
  <1>6. LeafCall(x) \in Seq(SafeFrame) /\ \A i \in DOMAIN LeafCall(x) : LeafCall(x)[i].op = "leaf"
    BY LeafCallType DEF LeafCall, Call, Drop
  <1> HIDE DEF tells, fs, n
  <1>7. \A i \in DOMAIN fs : (i \in 1..n /\ fs[i] = tells[i]) \/ fs[i].op = "leaf"
    <2> DEFINE l == LeafCall(x)
    <2> HIDE DEF l
    <2>1. l \in Seq(SafeFrame) /\ \A i \in DOMAIN l : l[i].op = "leaf"
      BY <1>6 DEF l
    <2>2. fs = tells \o l
      BY <1>3 DEF l
    <2>3. \A i \in DOMAIN fs : (i \in 1..n /\ fs[i] = tells[i])
                               \/ (i - n \in DOMAIN l /\ fs[i] = l[i - n])
      BY <1>1, <1>5, <2>1, <2>2
    <2> QED
      BY <2>1, <2>3
  <1>8. \A i \in DOMAIN fs : Called(t, fs[i])
    BY <1>4, <1>7, Zenon DEF Called, Self
  <1>9. ASSUME NEW i \in DOMAIN fs, NEW j \in DOMAIN fs, fs[i].op \in NoticeOp, fs[j].op \in NoticeOp
        PROVE  fs[i].op = fs[j].op /\ (fs[i].drop = fs[j].drop => i = j)
    <2>1. i \in 1..n /\ j \in 1..n /\ fs[i] = tells[i] /\ fs[j] = tells[j]
      BY <1>7, <1>9 DEF NoticeOp, EndOp
    <2>2. Consumers[x][i] = Consumers[x][j] => i = j
      BY <1>1, <2>1 DEF SubscribedOnce
    <2> QED
      BY <1>4, <2>1, <2>2
  <1> QED
    BY <1>2, <1>8, <1>9, ReturnMoves, Zenon DEF fs

\* Where a call below the handler, h deep of n, is found once the rest is gone.
LEMMA BelowHandler ==
  ASSUME NEW n \in Nat, NEW h \in 1..n, NEW j \in 1..1 + (n - h), j # 1
  PROVE  /\ j \in Int /\ j > 0 /\ j > 1 /\ j - 1 \in 1..n - h
         /\ h + (j - 1) \in 1..n /\ (h + (j - 1)) + 1 = j + h
         /\ j + h \in 2..n + 1
  OBVIOUS

\* An exception leaves calls from below the handler, and the failed run.
LEMMA RaiseMoves ==
  ASSUME stack \in [Thread -> Seq(SafeFrame)], NEW t \in Thread, stack[t] # <<>>, Raise(t)
  PROVE  Effect(t)
  <1> DEFINE s == Tail(stack[t])
  <1>1. PICK r \in Unwound(s) : stack' = [stack EXCEPT ![t] = r]
    BY Zenon DEF Raise
  <1>2. stack'[t] = r /\ \A u \in Thread : u # t => stack'[u] = stack[u]
    BY <1>1
  <1>3. Apart(t, 0)
    <2>1. stack' \in [Thread -> Seq(SafeFrame)]
      BY RaiseType
    <2>2. \A j \in DOMAIN stack'[t] : ~(j <= 0)
      BY <2>1
    <2> QED
      BY <2>2, Zenon DEF Apart
  <1>4. CASE r = <<>>
    <2>1. Moves(t, 0, 1)
      BY <1>2, <1>4 DEF Moves
    <2> QED
      BY <1>3, <2>1 DEF Effect
  <1>5. ASSUME NEW h \in DOMAIN s, r = <<[s[h] EXCEPT !.op = "failed"]>> \o SubSeq(s, h + 1, Len(s))
        PROVE  Effect(t)
    <2>1. /\ s \in Seq(SafeFrame) /\ Len(s) = Len(stack[t]) - 1 /\ Len(stack[t]) \in Nat
          /\ \A i \in 1..Len(s) : s[i] = stack[t][i + 1]
      <3>1. stack[t] \in Seq(SafeFrame)
        OBVIOUS
      <3> QED
        BY <3>1
    <2> DEFINE g == [s[h] EXCEPT !.op = "failed"]
               rest == SubSeq(s, h + 1, Len(s))
    <2>3. stack'[t] = <<g>> \o rest
      BY <1>2, <1>5
    <2> HIDE DEF s
    <2>4. h \in 1..Len(s) /\ Len(s) \in Nat /\ s[h] \in SafeFrame
      BY <2>1
    <2>5. g.op = "failed"
      BY <2>4 DEF SafeFrame, Frame
    <2>6. /\ rest \in Seq(SafeFrame) /\ Len(rest) = Len(s) - h
          /\ \A i \in 1..Len(s) - h : rest[i] = s[h + i]
      <3>1. \A i \in h + 1 .. Len(s) : s[i] \in SafeFrame
        BY <2>1, <2>4
      <3> QED
        BY <2>1, <2>4, <3>1
    <2> HIDE DEF g, rest
    <2>7. ASSUME NEW j \in DOMAIN stack'[t]
          PROVE  \/ j > 0 /\ j + h \in 2..Len(stack[t]) /\ stack'[t][j] = stack[t][j + h]
                 \/ stack'[t][j].op = "failed"
      <3>1. /\ DOMAIN stack'[t] = 1..1 + Len(rest)
            /\ stack'[t][1] = g
            /\ \A i \in 1..1 + Len(rest) : i > 1 => stack'[t][i] = rest[i - 1]
        BY <2>3, <2>6
      <3>2. CASE j = 1
        BY <2>5, <3>1, <3>2
      <3>3. CASE j # 1
        <4>1. j \in 1..1 + (Len(s) - h)
          BY <2>6, <3>1, Zenon
        <4>2. /\ j \in Int /\ j > 0 /\ j > 1 /\ j - 1 \in 1..Len(s) - h
              /\ h + (j - 1) \in 1..Len(s) /\ (h + (j - 1)) + 1 = j + h
              /\ j + h \in 2..Len(s) + 1
          BY <2>4, <3>3, <4>1, BelowHandler, Zenon
        <4>3. stack'[t][j] = s[h + (j - 1)]
          BY <2>6, <3>1, <4>2, Zenon
        <4>4. stack'[t][j] = stack[t][j + h]
          BY <2>1, <4>2, <4>3, Zenon
        <4>5. j + h \in 2..Len(stack[t])
          <5>1. Len(stack[t]) = Len(s) + 1
            BY <2>1
          <5> QED
            BY <4>2, <5>1, Zenon
        <4> QED
          BY <4>2, <4>4, <4>5
      <3> QED
        BY <3>2, <3>3
    <2>8. Moves(t, 0, h)
      BY <1>2, <2>7, Zenon DEF Moves
    <2> QED
      BY <1>3, <2>4, <2>8 DEF Effect
  <1> QED
    BY <1>1, <1>4, <1>5, Zenon DEF Unwound

\* The thread of a run starts with its execution.
LEMMA AsyncMoves ==
  ASSUME stack \in [Thread -> Seq(SafeFrame)], NEW t \in Thread, stack[t] # <<>>,
         NEW a \in App, AsyncExecute(t, a), runs \in [App -> 0..MaxRuns]
  PROVE  Effect(t)
  <1> DEFINE w == <<a, runs[a] + 1>>
  <1>1. w \in Thread
    BY ThreadAssumption DEF AsyncExecute, Thread, Worker
  <1> HIDE DEF w
  <1>2. stack' = [stack EXCEPT ![t] = Tail(@), ![w] = <<Call("execute", a)>>]
    BY DEF AsyncExecute, w
  <1>3. \A j \in DOMAIN stack'[w] : stack'[w][j].op = "execute"
    BY <1>1, <1>2 DEF Call
  <1>4. \A u \in Thread : u # w /\ u # t => stack'[u] = stack[u]
    BY <1>2
  <1>5. ASSUME t # w, NEW j \in DOMAIN stack'[t]
        PROVE  j > 0 /\ j + 1 \in 2..Len(stack[t]) /\ stack'[t][j] = stack[t][j + 1]
    <2>1. stack[t] \in Seq(SafeFrame) /\ stack'[t] = Tail(stack[t])
      BY <1>2, <1>5
    <2> QED
      BY <2>1
  <1>6. Moves(t, 0, 1)
    BY <1>3, <1>4, <1>5 DEF Moves
  <1>7. Apart(t, 0)
    <2>1. stack' \in [Thread -> Seq(SafeFrame)]
      BY AsyncExecuteType
    <2>2. \A j \in DOMAIN stack'[t] : ~(j <= 0)
      BY <2>1
    <2> QED
      BY <2>2, Zenon DEF Apart
  <1> QED
    BY <1>6, <1>7 DEF Effect

\* The calls on an app's outputs when it has finished are plain.
LEMMA FinishedPlain ==
  ASSUME NEW a \in App, NEW s \in DROPStates
  PROVE  Plain(FireFinished(a, s))
  <1> DEFINE call(i) == [op |-> "producerFinished", drop |-> Outputs[a][i],
                         from |-> a, st |-> s, n |-> 0]
             fs == [i \in 1..Len(Outputs[a]) |-> call(i)]
  <1>1. Outputs[a] \in Seq(Data) /\ Len(Outputs[a]) \in Nat
    BY GraphAssumption
  <1>2. \A i \in 1..Len(Outputs[a]) : call(i) \in SafeFrame /\ call(i).op \notin NoticeOp
    BY <1>1 DEF SafeFrame, Frame, AppOp, DataOp, EndOp, Drop, NoticeOp
  <1>3. fs \in Seq(SafeFrame)
    BY <1>1, <1>2, ListType
  <1>4. Plain(fs)
    <2>1. \A i \in 1..Len(Outputs[a]) : fs[i] = call(i)
      OBVIOUS
    <2>2. DOMAIN fs = 1..Len(Outputs[a])
      OBVIOUS
    <2> QED
      BY <1>1, <1>2, <1>3, <2>1, <2>2, PlainCalls
  <1>5. Plain(LeafCall(a))
    BY CallType, PlainCall, PlainNone DEF LeafCall, NoticeOp, EndOp, Drop
  <1>6. FireFinished(a, s) = fs \o LeafCall(a)
    BY DEF FireFinished
  <1> QED
    BY <1>4, <1>5, <1>6, PlainConcat

\* The calls a run makes are plain.
LEMMA RunCallsPlain ==
  ASSUME NEW a \in App, NEW calls \in RunCalls(a)
  PROVE  Plain(calls)
  <1>1. calls \in Seq(SafeFrame)
    BY RunCallsType
  <1>2. CASE a \in Branches
    <2>1. PICK i \in {1, 2} :
            calls = <<Call("skip", Outputs[a][i]), Call("write", Outputs[a][3 - i])>>
      BY <1>2 DEF RunCalls
    <2>2. \A j \in DOMAIN calls : calls[j].op \in {"skip", "write"}
      BY <2>1 DEF Call
    <2> QED
      BY <1>1, <2>2 DEF Plain, NoticeOp, EndOp
  <1>3. CASE a \notin Branches
    <2>1. PICK k \in 0..MaxWrites : \E w \in [1..k -> DOMAIN Outputs[a]] :
            calls = [i \in DOMAIN w |-> Call("write", Outputs[a][w[i]])]
      BY <1>3 DEF RunCalls
    <2>2. \A j \in DOMAIN calls : calls[j].op = "write"
      BY <2>1 DEF Call
    <2> QED
      BY <1>1, <2>2 DEF Plain, NoticeOp, EndOp
  <1> QED
    BY <1>2, <1>3

(***************************************************************************)
(* Every step replaces the call on top of its thread's stack by calls that *)
(* follow from it.                                                         *)
(***************************************************************************)
LEMMA StepEffect ==
  ASSUME SubscribedOnce, SizesUnknown, IInv, NEW t \in Thread, Step(t)
  PROVE  Effect(t)
  <1> DEFINE x == Self(t)
             top == Head(stack[t])
  <1>0. \A op : At(t, op) =>
          /\ stack \in [Thread -> Seq(SafeFrame)] /\ stack[t] # <<>>
          /\ top \in SafeFrame /\ top.op = op /\ top.drop = x /\ x \in Drop
          /\ op \in AppOp => x \in App
          /\ op \in DataOp \cup EndOp => x \in Data
    BY TopCall DEF Self
  <1>1. CASE SetCompleted(t)
    <2>1. /\ stack \in [Thread -> Seq(SafeFrame)] /\ stack[t] # <<>>
          /\ top.op = "setCompleted" /\ top.drop = x /\ x \in Data
      BY <1>0, <1>1 DEF SetCompleted, EndOp
    <2>2. Called(t, Call("moveCompleted", x))
      BY <2>1 DEF Called, Call
    <2>3. "COMPLETED" \in DROPStates /\ "SKIPPED" \in DROPStates
      BY DEF DROPStates
    <2>4. \/ Return(t, <<Call("moveCompleted", x)>>) \/ Return(t, FireCompleted(x, "COMPLETED"))
          \/ Return(t, <<>>) \/ Return(t, FireCompleted(x, "SKIPPED")) \/ Raise(t)
      BY <1>1, Zenon DEF SetCompleted
    <2> QED
      BY <2>1, <2>2, <2>3, <2>4, ReturnOne, ReturnNone, ReturnFire, RaiseMoves, Zenon
  <1>2. CASE MoveCompleted(t) \/ MoveError(t)
    <2>1. /\ stack \in [Thread -> Seq(SafeFrame)] /\ stack[t] # <<>>
          /\ top.op \in {"moveCompleted", "moveError"} /\ top.drop = x /\ x \in Data
      BY <1>0, <1>2 DEF MoveCompleted, MoveError, EndOp
    <2>2. "COMPLETED" \in DROPStates /\ "ERROR" \in DROPStates
      BY DEF DROPStates
    <2>3. Return(t, FireCompleted(x, "COMPLETED")) \/ Return(t, FireCompleted(x, "ERROR"))
      BY <1>2, Zenon DEF MoveCompleted, MoveError
    <2> QED
      BY <2>1, <2>2, <2>3, ReturnFire
  <1>3. CASE SetError(t)
    <2>1. /\ stack \in [Thread -> Seq(SafeFrame)] /\ stack[t] # <<>>
          /\ top.op = "setError" /\ top.drop = x
      BY <1>0, <1>3, ZenonT(30) DEF SetError
    <2>2. Called(t, Call("moveError", x))
      BY <2>1, Zenon DEF Called, Call
    <2>3. Return(t, <<>>) \/ Return(t, <<Call("moveError", x)>>)
      BY <1>3, Zenon DEF SetError
    <2> QED
      BY <2>1, <2>2, <2>3, ReturnOne, ReturnNone, ZenonT(30)
  <1>4. CASE ProducerFinished(t)
    <2>1. /\ stack \in [Thread -> Seq(SafeFrame)] /\ stack[t] # <<>>
          /\ top.op = "producerFinished" /\ top.drop = x
      BY <1>0, <1>4, Zenon DEF ProducerFinished
    <2>2. Return(t, <<>>) \/ Raise(t)
          \/ (/\ Return(t, <<Call("allFinished", x)>>)
              /\ Len(finishedProducers[x]) + 1 = NProducers(x))
      BY <1>4, ZenonT(30) DEF ProducerFinished
    <2>3. Len(finishedProducers[x]) + 1 = NProducers(x) => Called(t, Call("allFinished", x))
      BY <2>1, Zenon DEF Called, Call
    <2> QED
      BY <2>1, <2>2, <2>3, ReturnOne, ReturnNone, RaiseMoves, ZenonT(30)
  <1>5. CASE AllFinished(t)
    <2>1. /\ stack \in [Thread -> Seq(SafeFrame)] /\ stack[t] # <<>>
          /\ top.op = "allFinished" /\ top.drop = x
      BY <1>0, <1>5, Zenon DEF AllFinished
    <2>2. Called(t, Call("setError", x)) /\ Called(t, Call("setCompleted", x))
      BY <2>1, Zenon DEF Called, Call
    <2>3. Return(t, <<Call("setError", x)>>) \/ Return(t, <<Call("setCompleted", x)>>)
      BY <1>5, Zenon DEF AllFinished
    <2> QED
      BY <2>1, <2>2, <2>3, ReturnOne, Zenon
  <1>6. CASE Trigger(t)
    <2>1. /\ stack \in [Thread -> Seq(SafeFrame)] /\ stack[t] # <<>>
          /\ top.op = "trigger" /\ top.drop = x
      BY <1>0, <1>6, Zenon DEF Trigger
    <2>2. Called(t, Call("setCompleted", x))
      BY <2>1 DEF Called, Call
    <2>3. (x \in App /\ AsyncExecute(t, x)) \/ Return(t, <<Call("setCompleted", x)>>)
      BY <1>6, Zenon DEF Trigger
    <2> QED
      BY <2>1, <2>2, <2>3, ReturnOne, AsyncMoves, Zenon DEF IInv, TypeOK
  <1>7. CASE DropCompleted(t)
    <2>1. /\ stack \in [Thread -> Seq(SafeFrame)] /\ stack[t] # <<>>
          /\ top.op = "dropCompleted" /\ top.drop = x
      BY <1>0, <1>7, ZenonT(30) DEF DropCompleted
    <2>2. Called(t, Call("evaluate", x))
      BY <2>1, Zenon DEF Called, Call
    <2>3. Raise(t) \/ Return(t, <<Call("evaluate", x)>>)
      BY <1>7, Zenon DEF DropCompleted
    <2> QED
      BY <2>1, <2>2, <2>3, ReturnOne, RaiseMoves, ZenonT(30)
  <1>8. ASSUME NEW fs, Plain(fs), Return(t, fs), stack[t] # <<>>
        PROVE  Effect(t)
    BY <1>8, ReturnPlain DEF IInv
  <1>9. /\ x \in App => \A op \in AppOp \ {"dropCompleted", "evaluate"} : Plain(<<Call(op, x)>>)
        /\ x \in Data => Plain(<<Call("ioWrite", x)>>) /\ Plain(<<Call("wrote", x)>>)
        /\ x \in Drop => Plain(<<Call("skip", x)>>) /\ Plain(<<Call("moveSkipped", x)>>)
        /\ Plain(<<>>)
    <2>1. \A op \in AppOp \ {"dropCompleted", "evaluate"} : op \notin NoticeOp
      BY DEF AppOp, NoticeOp, EndOp
    <2>2. {"ioWrite", "wrote", "skip", "moveSkipped"} \cap NoticeOp = {} /\ {"ioWrite", "wrote"} \subseteq DataOp
      BY DEF NoticeOp, EndOp, DataOp
    <2> QED
      BY <2>1, <2>2, CallType, PlainCall, PlainNone
  <1>10. ASSUME NEW op \in AppOp \ {"dropCompleted", "evaluate"}, NEW f, x \in App,
                \/ \E m \in Nat : f = [Call(op, x) EXCEPT !.n = m]
                \/ \E s \in DROPStates : f = [Call(op, x) EXCEPT !.st = s]
         PROVE  Plain(<<f>>)
    <2>1. Call(op, x) \in SafeFrame /\ op \notin NoticeOp
      BY <1>10, CallType DEF AppOp, NoticeOp, EndOp
    <2>2. f \in SafeFrame /\ f.op = op
      BY <1>10, <2>1 DEF Call, SafeFrame, Frame
    <2> QED
      BY <2>1, <2>2, PlainOne
  <1>11. CASE Skip(t)
    <2>1. stack[t] # <<>> /\ x \in Drop
      BY <1>0, <1>11, Zenon DEF Skip
    <2>2. Plain(AppPart("skipApp", x))
      BY <1>9 DEF AppPart, AppOp
    <2>3. Plain(<<Call("moveSkipped", x)>> \o AppPart("skipApp", x))
      BY <1>9, <2>1, <2>2, PlainConcat, Zenon
    <2>4. \/ Return(t, <<Call("moveSkipped", x)>> \o AppPart("skipApp", x))
          \/ Return(t, AppPart("skipApp", x))
      BY <1>11, Zenon DEF Skip
    <2> QED
      BY <1>8, <2>1, <2>2, <2>3, <2>4, ZenonT(30)
  <1>12. CASE MoveSkipped(t)
    BY <1>0, <1>8, <1>9, <1>12, Zenon DEF MoveSkipped
  <1>13. CASE SkipApp(t) \/ Notify(t) \/ MarkFinished(t) \/ GiveUp(t)
    <2> DEFINE f == [Call("markSkipped", x) EXCEPT !.n = IF execStatus[x] = "NOT_RUN" THEN 1 ELSE 0]
               g == [Call("moveFinished", x) EXCEPT !.st = IF execStatus[x] = "ERROR" THEN "ERROR" ELSE "COMPLETED"]
               h(s) == [Call("setStatus", x) EXCEPT !.st = s]
    <2>1. stack[t] # <<>> /\ x \in App
      BY <1>0, <1>13 DEF SkipApp, Notify, MarkFinished, GiveUp, AppOp
    <2>2. Plain(<<f>>)
      <3>1. (IF execStatus[x] = "NOT_RUN" THEN 1 ELSE 0) \in Nat /\ "markSkipped" \in AppOp \ {"dropCompleted", "evaluate"}
        BY DEF AppOp
      <3> QED
        BY <1>10, <2>1, <3>1, Zenon
    <2>3. Plain(<<g>>)
      <3>1. /\ (IF execStatus[x] = "ERROR" THEN "ERROR" ELSE "COMPLETED") \in DROPStates
            /\ "moveFinished" \in AppOp \ {"dropCompleted", "evaluate"}
        BY DEF AppOp, DROPStates
      <3> QED
        BY <1>10, <2>1, <3>1, Zenon
    <2>4. Plain(<<h("COMPLETED")>>) /\ Plain(<<h("ERROR")>>)
      <3>1. /\ "COMPLETED" \in DROPStates /\ "ERROR" \in DROPStates
            /\ "setStatus" \in AppOp \ {"dropCompleted", "evaluate"}
        BY DEF AppOp, DROPStates
      <3> QED
        BY <1>10, <2>1, <3>1, Zenon
    <2>5. Return(t, <<f>>) \/ Return(t, <<g>>) \/ Return(t, <<h("COMPLETED")>>) \/ Return(t, <<h("ERROR")>>)
      BY <1>13, Zenon DEF SkipApp, Notify, MarkFinished, GiveUp
    <2> HIDE DEF f, g, h
    <2> QED
      BY <1>8, <2>1, <2>2, <2>3, <2>4, <2>5, Zenon
  <1>14. CASE MarkSkipped(t)
    <2> DEFINE skips == [i \in 1..Len(Outputs[x]) |-> Call("skip", Outputs[x][i])]
               rest == IF top.n = 1 THEN <<Call("fireFinished", x)>> ELSE <<>>
    <2>1. stack[t] # <<>> /\ x \in App
      BY <1>0, <1>14 DEF MarkSkipped, AppOp
    <2>2. Outputs[x] \in Seq(Data) /\ Len(Outputs[x]) \in Nat
      BY <2>1, GraphAssumption
    <2>3. \A i \in 1..Len(Outputs[x]) : Call("skip", Outputs[x][i]) \in SafeFrame
      BY <2>2, CallType DEF Drop
    <2>4. skips \in Seq(SafeFrame)
      BY <2>2, <2>3, ListType
    <2>5. DOMAIN skips = 1..Len(Outputs[x]) /\ \A i \in 1..Len(Outputs[x]) : skips[i].op \notin NoticeOp
      BY DEF Call, NoticeOp, EndOp
    <2>6. Plain(skips)
      BY <2>2, <2>4, <2>5, PlainCalls, Zenon
    <2>7. Plain(rest)
      BY <1>9, <2>1 DEF AppOp
    <2>8. Return(t, skips \o rest)
      BY <1>14 DEF MarkSkipped
    <2> HIDE DEF skips, rest
    <2> QED
      BY <1>8, <2>1, <2>6, <2>7, <2>8, PlainConcat, Zenon
  <1>15. CASE FireProducerFinished(t)
    <2>1. stack[t] # <<>> /\ x \in App
      BY <1>0, <1>15, Zenon DEF FireProducerFinished, AppOp
    <2>2. Plain(FireFinished(x, status[x]))
      BY <2>1, FinishedPlain DEF IInv, TypeOK, Drop
    <2> QED
      BY <1>8, <1>15, <2>1, <2>2, ZenonT(30) DEF FireProducerFinished
  <1>16. CASE Evaluate(t)
    <2>1. stack[t] # <<>> /\ x \in App /\ x \in Drop
      BY <1>0, <1>16, Zenon DEF Evaluate, AppOp
    <2>2. \/ Return(t, <<>>) \/ Return(t, <<Call("failInputs", x)>>)
          \/ Return(t, <<Call("notify", x)>>) \/ Return(t, <<Call("skip", x)>>) \/ AsyncExecute(t, x)
      BY <1>16, Zenon DEF Evaluate
    <2>3. Plain(<<Call("failInputs", x)>>) /\ Plain(<<Call("notify", x)>>)
      BY <1>9, <2>1 DEF AppOp
    <2> QED
      BY <1>8, <1>9, <2>1, <2>2, <2>3, AsyncMoves, ZenonT(30) DEF IInv, TypeOK
  <1>17. CASE FailInputs(t) \/ Execute(t) \/ SetFinalStatus(t) \/ MoveFinished(t) \/ Ran(t)
    <2>1. stack[t] # <<>> /\ x \in App
      BY <1>0, <1>17 DEF FailInputs, Execute, SetFinalStatus, MoveFinished, Ran, AppOp
    <2>2. \/ Return(t, <<Call("notify", x)>>) \/ Return(t, <<Call("run", x)>>) \/ Return(t, <<>>)
          \/ Return(t, <<Call("fireFinished", x)>>) \/ Return(t, <<Call("markFinished", x)>>)
      BY <1>17, ZenonT(30) DEF FailInputs, Execute, SetFinalStatus, MoveFinished, Ran
    <2>3. /\ Plain(<<Call("notify", x)>>) /\ Plain(<<Call("run", x)>>)
          /\ Plain(<<Call("fireFinished", x)>>) /\ Plain(<<Call("markFinished", x)>>)
      BY <1>9, <2>1 DEF AppOp
    <2> QED
      BY <1>8, <1>9, <2>1, <2>2, <2>3, ZenonT(30)
  <1>18. CASE Run(t) \/ RunRaised(t)
    <2>1. stack[t] # <<>> /\ x \in App /\ top \in SafeFrame /\ top.drop \in App
      BY <1>0, <1>18 DEF Run, RunRaised, AppOp
    <2>2. ASSUME NEW op \in {"ran", "failed"}
          PROVE  Plain(<<[top EXCEPT !.op = op]>>)
      <3>1. op \in AppOp \ {"dropCompleted"} /\ op \notin NoticeOp
        BY DEF AppOp, NoticeOp, EndOp
      <3>2. [top EXCEPT !.op = op] \in SafeFrame
        BY <2>1, <3>1, RenameType
      <3>3. [top EXCEPT !.op = op].op = op
        BY <2>1 DEF SafeFrame, Frame
      <3> QED
        BY <3>1, <3>2, <3>3, PlainOne, Zenon
    <2>3. CASE Run(t)
      <3>1. PICK calls \in RunCalls(x) : Return(t, calls \o <<[top EXCEPT !.op = "ran"]>>)
        BY <2>3 DEF Run
      <3>2. Plain(calls \o <<[top EXCEPT !.op = "ran"]>>)
        BY <2>1, <2>2, RunCallsPlain, PlainConcat
      <3> QED
        BY <1>8, <2>1, <3>1, <3>2, Zenon
    <2>4. CASE RunRaised(t)
      <3>1. Return(t, <<Call("giveUp", x)>>) \/ Return(t, <<[top EXCEPT !.op = "failed"]>>)
        BY <2>4, Zenon DEF RunRaised
      <3>2. Plain(<<Call("giveUp", x)>>)
        BY <1>9, <2>1 DEF AppOp
      <3> QED
        BY <1>8, <2>1, <2>2, <3>1, <3>2, Zenon
    <2> QED
      BY <1>18, <2>3, <2>4
  <1>19. CASE Failed(t)
    <2>1. stack[t] # <<>> /\ x \in App /\ top.n + 1 \in Nat
      BY <1>0, <1>19, TopCall DEF Failed, AppOp
    <2>2. Plain(<<[Call("run", x) EXCEPT !.n = top.n + 1]>>) /\ Plain(<<Call("giveUp", x)>>)
      <3>1. "run" \in AppOp \ {"dropCompleted", "evaluate"} /\ "giveUp" \in AppOp \ {"dropCompleted", "evaluate"}
        BY DEF AppOp
      <3> QED
        BY <1>9, <1>10, <2>1, <3>1, Zenon
    <2>3. \/ Return(t, <<>>) \/ Return(t, <<Call("giveUp", x)>>)
          \/ Return(t, <<[Call("run", x) EXCEPT !.n = top.n + 1]>>)
      BY <1>19, Zenon DEF Failed
    <2> QED
      BY <1>8, <1>9, <2>1, <2>2, <2>3, Zenon
  <1>20. CASE Write(t) \/ IOWrite(t) \/ Wrote(t)
    <2>1. stack[t] # <<>> /\ x \in Data
      BY <1>0, <1>20, Zenon DEF Write, IOWrite, Wrote, DataOp
    <2>2. Return(t, <<>>) \/ Return(t, <<Call("ioWrite", x)>>) \/ Return(t, <<Call("wrote", x)>>) \/ Raise(t)
      <3>1. ~(ExpectedSize[x] > 0)
        BY <2>1, NeverFull, Zenon
      <3> QED
        BY <1>20, <3>1, ZenonT(30) DEF Write, IOWrite, Wrote
    <2> QED
      BY <1>8, <1>9, <2>1, <2>2, RaiseMoves, ZenonT(30) DEF IInv
  <1> QED
    BY <1>1, <1>2, <1>3, <1>4, <1>5, <1>6, <1>7, <1>11, <1>12, <1>13, <1>14, <1>15, <1>16,
       <1>17, <1>18, <1>19, <1>20, ZenonT(30)
       DEF Step, DropStep, AppStep
=============================================================================
