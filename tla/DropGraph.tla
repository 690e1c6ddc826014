----------------------------- MODULE DropGraph ------------------------------
(***************************************************************************)
(* The execution of a graph of DROPs: drop.py, apps/app_base.py,           *)
(* data/drops/data_base.py, apps/branch.py.                                *)
(*                                                                         *)
(* DROPs drive each other by firing events, and firing an event is a       *)
(* synchronous call of every listener's handleEvent (event.py).  A thread  *)
(* is therefore a stack of calls still to be made, the next one first:     *)
(* one step of a thread performs the call on top, up to the next read or   *)
(* write of state that another thread may touch, and replaces it by the    *)
(* calls it makes.  An exception unwinds the stack (Raise).                *)
(*                                                                         *)
(* Threads are the Callers (the threads that trigger the root drops) and   *)
(* one daemon thread per async_execute of an application.                  *)
(***************************************************************************)
EXTENDS Integers, Sequences, FiniteSets, DropStates

CONSTANTS
  Data, App,        \* the DataDROPs and the (input fired) AppDROPs
  Consumers,        \* DataDROP -> its consumers, in order of subscription
  Outputs,          \* AppDROP -> its outputs, in order of subscription
  Leaves,           \* drops with a LeavesCompletionListener subscribed
  NEffective,       \* n_effective_inputs of an app (-1: all of them)
  ErrorThreshold,   \* input_error_threshold of an app
  NTries,           \* n_tries of an app
  BlockSkip,        \* drops created with block_skip
  Branches,         \* the apps that are Branch apps
  Files,            \* the DataDROPs that are FileDROPs
  ExpectedSize,     \* expectedSize of a DataDROP in writes (-1: unknown)
  Callers,          \* threads that trigger drops
  Triggers,         \* Caller -> the drops it triggers, in order
  Outcomes,         \* App -> how its run may end
  IOFaults,         \* may the storage of a DataDROP fail?
  MaxWrites,        \* bound: writes a run makes into one output
  MaxRuns           \* bound: daemon threads one app may be given

Drop == Data \cup App
Worker == App \X (1..MaxRuns)
Thread == Callers \cup Worker
RunOutcomes == {"ok", "managed", "exception"}

ASSUME GraphAssumption ==
  /\ Data \cap App = {} /\ IsFiniteSet(Data) /\ IsFiniteSet(App)
  /\ Consumers \in [Data -> Seq(App)]
  /\ Outputs \in [App -> Seq(Data)]
  /\ Leaves \subseteq Drop
  /\ BlockSkip \subseteq Drop
  /\ Branches \subseteq App /\ Files \subseteq Data
  /\ \A a \in Branches : Len(Outputs[a]) = 2
  /\ ExpectedSize \in [Data -> Int]

\* What a finite graph means for counting its drops.
ASSUME CountAssumption ==
  \A S \in SUBSET Drop :
    /\ Cardinality(S) \in Nat
    /\ Cardinality(S) = 0 <=> S = {}
    /\ \A x \in S : Cardinality(S \ {x}) = Cardinality(S) - 1

ASSUME AppAssumption ==
  /\ NEffective \in [App -> Int]
  /\ ErrorThreshold \in [App -> 0..100]
  /\ NTries \in [App -> Nat \ {0}]

ASSUME ThreadAssumption ==
  /\ Callers \cap Worker = {}
  /\ Triggers \in [Callers -> Seq(Drop)]
  /\ Outcomes \in [App -> SUBSET RunOutcomes]
  /\ IOFaults \in BOOLEAN
  /\ MaxWrites \in Nat
  /\ MaxRuns \in Nat \ {0}

Inputs(a) == {d \in Data : \E i \in DOMAIN Consumers[d] : Consumers[d][i] = a}
Producers(d) == {a \in App : \E i \in DOMAIN Outputs[a] : Outputs[a][i] = d}

VARIABLES
  status,             \* the status of every drop
  execStatus,         \* the execution status of every app
  finishedProducers,  \* states reported to a DataDROP by its producers
  refCount,           \* _refCount of every drop
  size,               \* writes a DataDROP has taken
  writer,             \* the writing IO object (_wio) of every drop
  completedInputs, errorInputs, skippedInputs,  \* what an app has heard
  runs,               \* daemon threads given to an app so far
  stack               \* the calls each thread still has to make

inputVars == <<completedInputs, errorInputs, skippedInputs>>
dataVars == <<finishedProducers, refCount, size, writer>>
vars == <<status, execStatus, dataVars, inputVars, runs, stack>>

(***************************************************************************)
(* Calls.  drop is the receiver; from, st and n are the arguments of the   *)
(* calls that have any.                                                    *)
(***************************************************************************)
AppOp ==
  {"cancelApp", "skipApp", "markSkipped", "fireFinished", "dropCompleted",
   "evaluate", "failInputs", "execute", "run", "ran", "markFinished",
   "failed", "giveUp", "setStatus", "notify", "moveFinished"}
DataOp == {"producerFinished", "allFinished", "write", "ioWrite", "wrote"}
DropOp ==
  {"trigger", "setCompleted", "moveCompleted", "setError", "moveError",
   "skip", "moveSkipped", "cancel", "moveCancelled", "leaf"}

Frame ==
  {f \in [op : AppOp \cup DataOp \cup DropOp, drop : Drop, from : Drop,
          st : DROPStates, n : Nat] :
     /\ f.op \in AppOp => f.drop \in App
     /\ f.op \in DataOp => f.drop \in Data
     /\ f.op = "dropCompleted" => f.from \in Data}

Call(op, x) == [op |-> op, drop |-> x, from |-> x, st |-> "INITIALIZED", n |-> 0]

At(t, op) == stack[t] # <<>> /\ Head(stack[t]).op = op
Self(t) == Head(stack[t]).drop

\* The call on top of t's stack returns after making the calls in fs.
Return(t, fs) == stack' = [stack EXCEPT ![t] = fs \o Tail(@)]

\* An exception leaves every call up to the run of an app, which execute
\* catches; without one the thread dies (_execute_and_log_exception).  The
\* set holds the one stack that is left.
Unwound(s) ==
  LET handlers == {i \in DOMAIN s : s[i].op \in {"run", "ran"}}
      nearest == {i \in handlers : \A j \in handlers : i <= j}
  IN  IF handlers = {}
      THEN {<<>>}
      ELSE {<<[s[h] EXCEPT !.op = "failed"]>> \o SubSeq(s, h + 1, Len(s)) : h \in nearest}

Raise(t) == \E s \in Unwound(Tail(stack[t])) : stack' = [stack EXCEPT ![t] = s]

LeafCall(x) == IF x \in Leaves THEN <<Call("leaf", x)>> ELSE <<>>

\* The consumers of a DataDROP hear of its end, one after the other.
TellConsumers(x, s) ==
  [i \in 1..Len(Consumers[x]) |->
     [op |-> "dropCompleted", drop |-> Consumers[x][i], from |-> x,
      st |-> s, n |-> 0]]

\* Mutant: consumers are subscribed twice.
FireCompletedTwice(x, s) ==
  IF x \in Data THEN TellConsumers(x, s) \o TellConsumers(x, s) \o LeafCall(x) ELSE <<>>

\* _fire("dropCompleted"): only DataDROPs have listeners for it.
FireCompleted(x, s) ==
  IF x \in Data THEN TellConsumers(x, s) \o LeafCall(x) ELSE <<>>

\* _fire("producerFinished"): heard by the outputs of an app.
FireFinished(a, s) ==
  [i \in 1..Len(Outputs[a]) |->
     [op |-> "producerFinished", drop |-> Outputs[a][i], from |-> a,
      st |-> s, n |-> 0]] \o LeafCall(a)

\* async_execute: a new daemon thread runs execute; the caller goes on.
AsyncExecute(t, a) ==
  /\ runs[a] < MaxRuns
  /\ runs' = [runs EXCEPT ![a] = @ + 1]
  /\ stack' = [stack EXCEPT ![t] = Tail(@),
                            ![<<a, runs[a] + 1>>] = <<Call("execute", a)>>]

-----------------------------------------------------------------------------
(***************************************************************************)
(* AbstractDROP (drop.py)                                                  *)
(***************************************************************************)
NProducers(x) == IF x \in Data THEN Cardinality(Producers(x)) ELSE 0

SetStatus(x, s) == status' = [status EXCEPT ![x] = s]
SetExec(a, s) == execStatus' = [execStatus EXCEPT ![a] = s]

\* The drop ends: _closeWriters, and then the new status.
End(x, s) ==
  /\ writer' = [writer EXCEPT ![x] = "none"]
  /\ SetStatus(x, s)
  /\ UNCHANGED <<execStatus, finishedProducers, refCount, size, inputVars, runs>>

\* trigger_drops on one drop: applications are executed, data is completed.
Trigger(t) ==
  /\ At(t, "trigger")
  /\ \/ Self(t) \in App /\ AsyncExecute(t, Self(t))
     \/ Self(t) \in Data /\ Return(t, <<Call("setCompleted", Self(t))>>) /\ UNCHANGED runs
  /\ UNCHANGED <<status, execStatus, dataVars, inputVars>>

\* Mutant: a drop in ERROR is completed.
SetCompletedUnchecked(t) ==
  LET x == Self(t) IN
  /\ At(t, "setCompleted")
  /\ Return(t, IF status[x] \in {"CANCELLED", "COMPLETED"} THEN <<>>
               ELSE IF status[x] = "SKIPPED" THEN FireCompleted(x, "SKIPPED")
               ELSE <<Call("moveCompleted", x)>>)
  /\ UNCHANGED <<status, execStatus, dataVars, inputVars, runs>>

\* _setCompletedStateCheck, on the status read once at its start.  The one
\* in FileDROP.setCompleted lets a COMPLETED drop through: its writers are
\* closed, and its consumers told, once more.
SetCompleted(t) ==
  LET x == Self(t) IN
  /\ At(t, "setCompleted")
  /\ \/ status[x] \in Pending /\ Return(t, <<Call("moveCompleted", x)>>)
     \/ status[x] = "COMPLETED" /\ x \in Files /\ Return(t, FireCompleted(x, "COMPLETED"))
     \/ /\ status[x] = "CANCELLED" \/ (status[x] = "COMPLETED" /\ x \notin Files)
        /\ Return(t, <<>>)
     \/ status[x] = "SKIPPED" /\ Return(t, FireCompleted(x, "SKIPPED"))
     \/ status[x] \in {"ERROR", "EXPIRED", "DELETED"} /\ Raise(t)
  /\ writer' = [writer EXCEPT ![x] = IF status[x] = "COMPLETED" /\ x \in Files THEN "none" ELSE @]
  /\ UNCHANGED <<status, execStatus, finishedProducers, refCount, size, inputVars, runs>>

\* Mutant: the consumers are told, but the status is not set.
MoveCompletedNoStatus(t) ==
  /\ At(t, "moveCompleted")
  /\ Return(t, FireCompleted(Self(t), "COMPLETED"))
  /\ UNCHANGED <<status, execStatus, dataVars, inputVars, runs>>

\* A FileDROP nothing was written to is created, and ends in ERROR if that
\* fails; its consumers are told that it is COMPLETED all the same.
MoveCompleted(t) ==
  LET x == Self(t) IN
  /\ At(t, "moveCompleted")
  /\ \/ End(x, "COMPLETED")
     \/ IOFaults /\ x \in Files /\ size[x] = 0 /\ End(x, "ERROR")
  /\ Return(t, FireCompleted(x, "COMPLETED"))

SetError(t) ==
  /\ At(t, "setError")
  /\ Return(t, IF status[Self(t)] \in {"CANCELLED", "SKIPPED"}
               THEN <<>> ELSE <<Call("moveError", Self(t))>>)
  /\ UNCHANGED <<status, execStatus, dataVars, inputVars, runs>>

\* Mutant: the consumers are not told of an error.
MoveErrorSilent(t) ==
  /\ At(t, "moveError")
  /\ End(Self(t), "ERROR")
  /\ Return(t, LeafCall(Self(t)))

MoveError(t) ==
  /\ At(t, "moveError")
  /\ End(Self(t), "ERROR")
  /\ Return(t, FireCompleted(Self(t), "ERROR"))

\* The part of producerFinished under _finishedProducersLock.
ProducerFinished(t) ==
  LET d == Self(t)
      nFinished == Len(finishedProducers[d]) + 1
  IN
  /\ At(t, "producerFinished")
  /\ finishedProducers' = [finishedProducers EXCEPT ![d] = Append(@, Head(stack[t]).st)]
  /\ refCount' = [refCount EXCEPT ![d] = @ - 1]
  /\ \/ nFinished < NProducers(d) /\ Return(t, <<>>)
     \/ nFinished = NProducers(d) /\ Return(t, <<Call("allFinished", d)>>)
     \/ nFinished > NProducers(d) /\ Raise(t)
  /\ UNCHANGED <<status, execStatus, size, writer, inputVars, runs>>

\* Mutant: only the last producer to finish counts.
AllFinishedLast(t) ==
  LET d == Self(t)
      last == finishedProducers[d][Len(finishedProducers[d])]
  IN
  /\ At(t, "allFinished")
  /\ Return(t, <<Call(IF last = "ERROR" THEN "setError" ELSE "setCompleted", d)>>)
  /\ UNCHANGED <<status, execStatus, dataVars, inputVars, runs>>

\* ... and what follows once the lock is released.
AllFinished(t) ==
  LET d == Self(t)
      anyError == \E i \in DOMAIN finishedProducers[d] : finishedProducers[d][i] = "ERROR"
  IN
  /\ At(t, "allFinished")
  /\ Return(t, <<Call(IF anyError THEN "setError" ELSE "setCompleted", d)>>)
  /\ UNCHANGED <<status, execStatus, dataVars, inputVars, runs>>

\* Mutant: block_skip is taken to be always on.
MaySkipBlocked(x) == NProducers(x) = 1 \/ (NProducers(x) > 1 /\ refCount[x] = 1)

\* AbstractDROP.skip; an AppDROP goes on with the rest of AppDROP.skip.
MaySkip(x) ==
  \/ x \notin BlockSkip
  \/ NProducers(x) = 1
  \/ NProducers(x) > 1 /\ refCount[x] = 1

AppPart(op, x) == IF x \in App THEN <<Call(op, x)>> ELSE <<>>

Skip(t) ==
  LET x == Self(t)
      rest == AppPart("skipApp", x)
  IN
  /\ At(t, "skip")
  /\ \/ /\ status[x] \in Pending /\ MaySkip(x)
        /\ Return(t, <<Call("moveSkipped", x)>> \o rest)
        /\ UNCHANGED refCount
     \/ /\ status[x] \in Pending /\ ~MaySkip(x)
        /\ refCount' = [refCount EXCEPT ![x] = @ - 1]
        /\ Return(t, rest)
     \/ /\ status[x] \notin Pending
        /\ Return(t, rest)
        /\ UNCHANGED refCount
  /\ UNCHANGED <<status, execStatus, finishedProducers, size, writer, inputVars, runs>>

MoveSkipped(t) ==
  /\ At(t, "moveSkipped")
  /\ End(Self(t), "SKIPPED")
  /\ Return(t, <<>>)

\* cancel, called by a session on every drop that has not ended.
Cancel(t) ==
  LET x == Self(t) IN
  /\ At(t, "cancel")
  /\ Return(t, (IF status[x] \in Pending THEN <<Call("moveCancelled", x)>> ELSE <<>>)
               \o AppPart("cancelApp", x))
  /\ UNCHANGED <<status, execStatus, dataVars, inputVars, runs>>

MoveCancelled(t) ==
  /\ At(t, "moveCancelled")
  /\ End(Self(t), "CANCELLED")
  /\ Return(t, <<>>)

-----------------------------------------------------------------------------
(***************************************************************************)
(* AppDROP and InputFiredAppDROP (apps/app_base.py)                        *)
(***************************************************************************)
CancelApp(t) ==
  /\ At(t, "cancelApp")
  /\ SetExec(Self(t), "CANCELLED")
  /\ Return(t, <<>>)
  /\ UNCHANGED <<status, dataVars, inputVars, runs>>

\* AppDROP.skip after super().skip(): the former execStatus is read first.
SkipApp(t) ==
  /\ At(t, "skipApp")
  /\ Return(t, <<[Call("markSkipped", Self(t)) EXCEPT
                    !.n = IF execStatus[Self(t)] = "NOT_RUN" THEN 1 ELSE 0]>>)
  /\ UNCHANGED <<status, execStatus, dataVars, inputVars, runs>>

MarkSkipped(t) ==
  LET a == Self(t) IN
  /\ At(t, "markSkipped")
  /\ SetExec(a, "SKIPPED")
  /\ Return(t, [i \in 1..Len(Outputs[a]) |-> Call("skip", Outputs[a][i])]
               \o (IF Head(stack[t]).n = 1 THEN <<Call("fireFinished", a)>> ELSE <<>>))
  /\ UNCHANGED <<status, dataVars, inputVars, runs>>

\* Mutant: the execution status is announced instead of the status.
FireExecStatus(t) ==
  /\ At(t, "fireFinished")
  /\ Return(t, FireFinished(Self(t), execStatus[Self(t)]))
  /\ UNCHANGED <<status, execStatus, dataVars, inputVars, runs>>

FireProducerFinished(t) ==
  /\ At(t, "fireFinished")
  /\ Return(t, FireFinished(Self(t), status[Self(t)]))
  /\ UNCHANGED <<status, execStatus, dataVars, inputVars, runs>>

NInputs(a) == Cardinality(Inputs(a))
NEff(a) == IF NEffective[a] = -1 THEN NInputs(a) ELSE NEffective[a]

\* dropCompleted up to the append: the lists are not protected by a lock.
DropCompleted(t) ==
  LET a == Self(t)
      d == Head(stack[t]).from
      s == Head(stack[t]).st
      heard(list) == [list EXCEPT ![a] = Append(@, d)]
  IN
  /\ At(t, "dropCompleted")
  /\ \/ /\ NEff(a) > NInputs(a) \/ s \notin {"ERROR", "COMPLETED", "SKIPPED"}
        /\ Raise(t)
        /\ UNCHANGED inputVars
     \/ /\ NEff(a) <= NInputs(a)
        /\ \/ /\ s = "ERROR"
              /\ errorInputs' = heard(errorInputs)
              /\ UNCHANGED <<completedInputs, skippedInputs>>
           \/ /\ s = "COMPLETED"
              /\ completedInputs' = heard(completedInputs)
              /\ UNCHANGED <<errorInputs, skippedInputs>>
           \/ /\ s = "SKIPPED"
              /\ skippedInputs' = heard(skippedInputs)
              /\ UNCHANGED <<completedInputs, errorInputs>>
        /\ Return(t, <<Call("evaluate", a)>>)
  /\ UNCHANGED <<status, execStatus, dataVars, runs>>

NHeard(a) == Len(completedInputs[a]) + Len(errorInputs[a]) + Len(skippedInputs[a])

\* Mutants: any input is enough; as many inputs or more; more inputs.
AnyHeard(a) == NHeard(a) >= 1
EnoughHeard(a) == NHeard(a) >= NEff(a)
MoreHeard(a) == NHeard(a) > NEff(a)

AllHeard(a) == NHeard(a) = NEff(a)

PercentFailed(a) == (100 * Len(errorInputs[a])) \div NEff(a)
SkipInputs(a) ==
  IF a \in BlockSkip
  THEN Len(skippedInputs[a]) = NEff(a)
  ELSE Len(skippedInputs[a]) > 0

\* The rest of dropCompleted, from the reading of the lists' lengths.
Evaluate(t) ==
  LET a == Self(t) IN
  /\ At(t, "evaluate")
  /\ \/ /\ ~AllHeard(a)
        /\ Return(t, <<>>)
        /\ UNCHANGED <<execStatus, runs>>
     \/ /\ AllHeard(a)
        /\ PercentFailed(a) > ErrorThreshold[a]
        /\ SetExec(a, "ERROR")
        /\ Return(t, <<Call("failInputs", a)>>)
        /\ UNCHANGED runs
     \/ /\ AllHeard(a)
        /\ PercentFailed(a) <= ErrorThreshold[a]
        /\ \/ /\ execStatus[a] = "ERROR"
              /\ Return(t, <<Call("notify", a)>>)
              /\ UNCHANGED runs
           \/ /\ execStatus[a] # "ERROR"
              /\ SkipInputs(a)
              /\ Return(t, <<Call("skip", a)>>)
              /\ UNCHANGED runs
           \/ /\ execStatus[a] # "ERROR"
              /\ ~SkipInputs(a)
              /\ AsyncExecute(t, a)
        /\ UNCHANGED execStatus
  /\ UNCHANGED <<status, dataVars, inputVars>>

FailInputs(t) ==
  /\ At(t, "failInputs")
  /\ SetStatus(Self(t), "ERROR")
  /\ Return(t, <<Call("notify", Self(t))>>)
  /\ UNCHANGED <<execStatus, dataVars, inputVars, runs>>

Execute(t) ==
  /\ At(t, "execute")
  /\ SetExec(Self(t), "RUNNING")
  /\ Return(t, <<Call("run", Self(t))>>)
  /\ UNCHANGED <<status, dataVars, inputVars, runs>>

\* What one run does to the outputs: a Branch skips one of its two outputs
\* and writes into the other, any other app writes where it likes.
RunCalls(a) ==
  IF a \in Branches
  THEN {<<Call("skip", Outputs[a][i]), Call("write", Outputs[a][3 - i])>> : i \in {1, 2}}
  ELSE {[i \in DOMAIN w |-> Call("write", Outputs[a][w[i]])] :
          w \in UNION {[1..k -> DOMAIN Outputs[a]] : k \in 0..MaxWrites}}

Run(t) ==
  /\ At(t, "run")
  /\ \E calls \in RunCalls(Self(t)) :
        Return(t, calls \o <<[Head(stack[t]) EXCEPT !.op = "ran"]>>)
  /\ UNCHANGED <<status, execStatus, dataVars, inputVars, runs>>

\* run came back, and execute looks for a cancellation.
Ran(t) ==
  /\ At(t, "ran")
  /\ "ok" \in Outcomes[Self(t)]
  /\ Return(t, IF execStatus[Self(t)] = "CANCELLED"
               THEN <<>> ELSE <<Call("markFinished", Self(t))>>)
  /\ UNCHANGED <<status, execStatus, dataVars, inputVars, runs>>

\* run raised: either an ErrorManagerCaughtException or anything else.
RunRaised(t) ==
  /\ At(t, "run") \/ At(t, "ran")
  /\ \/ /\ "managed" \in Outcomes[Self(t)]
        /\ Return(t, <<Call("giveUp", Self(t))>>)
     \/ /\ "exception" \in Outcomes[Self(t)]
        /\ Return(t, <<[Head(stack[t]) EXCEPT !.op = "failed"]>>)
  /\ UNCHANGED <<status, execStatus, dataVars, inputVars, runs>>

\* The handler of any other exception: one more try, unless cancelled.
Failed(t) ==
  LET a == Self(t)
      tries == Head(stack[t]).n + 1
  IN
  /\ At(t, "failed")
  /\ Return(t, IF execStatus[a] = "CANCELLED" THEN <<>>
               ELSE IF tries = NTries[a] THEN <<Call("giveUp", a)>>
               ELSE <<[Call("run", a) EXCEPT !.n = tries]>>)
  /\ UNCHANGED <<status, execStatus, dataVars, inputVars, runs>>

MarkFinished(t) ==
  /\ At(t, "markFinished")
  /\ SetExec(Self(t), "FINISHED")
  /\ Return(t, <<[Call("setStatus", Self(t)) EXCEPT !.st = "COMPLETED"]>>)
  /\ UNCHANGED <<status, dataVars, inputVars, runs>>

GiveUp(t) ==
  /\ At(t, "giveUp")
  /\ SetExec(Self(t), "ERROR")
  /\ Return(t, <<[Call("setStatus", Self(t)) EXCEPT !.st = "ERROR"]>>)
  /\ UNCHANGED <<status, dataVars, inputVars, runs>>

SetFinalStatus(t) ==
  /\ At(t, "setStatus")
  /\ SetStatus(Self(t), Head(stack[t]).st)
  /\ Return(t, <<Call("notify", Self(t))>>)
  /\ UNCHANGED <<execStatus, dataVars, inputVars, runs>>

\* _notifyAppIsFinished: is_error is read, the status set, then announced.
Notify(t) ==
  LET s == IF execStatus[Self(t)] = "ERROR" THEN "ERROR" ELSE "COMPLETED" IN
  /\ At(t, "notify")
  /\ Return(t, <<[Call("moveFinished", Self(t)) EXCEPT !.st = s]>>)
  /\ UNCHANGED <<status, execStatus, dataVars, inputVars, runs>>

MoveFinished(t) ==
  /\ At(t, "moveFinished")
  /\ SetStatus(Self(t), Head(stack[t]).st)
  /\ Return(t, <<Call("fireFinished", Self(t))>>)
  /\ UNCHANGED <<execStatus, dataVars, inputVars, runs>>

-----------------------------------------------------------------------------
(***************************************************************************)
(* DataDROP.write (data/drops/data_base.py): the status is checked, the    *)
(* data goes to the IO object, which is opened if there is none, and then  *)
(* the status follows.                                                     *)
(***************************************************************************)
Write(t) ==
  /\ At(t, "write")
  /\ Return(t, IF status[Self(t)] \in Pending THEN <<Call("ioWrite", Self(t))>> ELSE <<>>)
  /\ UNCHANGED <<status, execStatus, dataVars, inputVars, runs>>

\* A failure to open leaves an IO object behind that was never opened, and
\* which the next write that gets here trips over.
IOWrite(t) ==
  LET d == Self(t) IN
  /\ At(t, "ioWrite")
  /\ \/ /\ writer[d] # "broken"
        /\ writer' = [writer EXCEPT ![d] = "open"]
        /\ size' = [size EXCEPT ![d] = @ + 1]
        /\ Return(t, <<Call("wrote", d)>>)
        /\ UNCHANGED status
     \/ /\ writer[d] = "none" /\ IOFaults
        /\ writer' = [writer EXCEPT ![d] = "broken"]
        /\ SetStatus(d, "ERROR")
        /\ Raise(t)
        /\ UNCHANGED size
     \/ /\ writer[d] = "broken"
        /\ Raise(t)
        /\ UNCHANGED <<writer, size, status>>
  /\ UNCHANGED <<execStatus, finishedProducers, refCount, inputVars, runs>>

\* The end of write, where the status follows the amount of data.
Wrote(t) ==
  LET d == Self(t) IN
  /\ At(t, "wrote")
  /\ \/ /\ ExpectedSize[d] > 0 /\ size[d] >= ExpectedSize[d]
        /\ Return(t, <<Call("setCompleted", d)>>)
        /\ UNCHANGED status
     \/ /\ ~(ExpectedSize[d] > 0 /\ size[d] >= ExpectedSize[d])
        /\ SetStatus(d, "WRITING")
        /\ Return(t, <<>>)
  /\ UNCHANGED <<execStatus, dataVars, inputVars, runs>>

-----------------------------------------------------------------------------
Init ==
  /\ status = [x \in Drop |-> "INITIALIZED"]
  /\ execStatus = [a \in App |-> "NOT_RUN"]
  /\ finishedProducers = [d \in Data |-> <<>>]
  /\ refCount = [x \in Drop |-> 0]
  /\ size = [d \in Data |-> 0]
  /\ writer = [x \in Drop |-> "none"]
  /\ completedInputs = [a \in App |-> <<>>]
  /\ errorInputs = [a \in App |-> <<>>]
  /\ skippedInputs = [a \in App |-> <<>>]
  /\ runs = [a \in App |-> 0]
  /\ stack = [t \in Thread |->
                IF t \in Callers
                THEN [i \in DOMAIN Triggers[t] |-> Call("trigger", Triggers[t][i])]
                ELSE <<>>]

DropStep(t) ==
  \/ SetCompleted(t) \/ MoveCompleted(t) \/ SetError(t) \/ MoveError(t)
  \/ ProducerFinished(t) \/ AllFinished(t) \/ Skip(t) \/ MoveSkipped(t)
  \/ Trigger(t)

AppStep(t) ==
  \/ SkipApp(t) \/ MarkSkipped(t) \/ FireProducerFinished(t)
  \/ DropCompleted(t) \/ Evaluate(t) \/ FailInputs(t) \/ Execute(t)
  \/ Run(t) \/ Ran(t) \/ RunRaised(t) \/ Failed(t) \/ MarkFinished(t)
  \/ GiveUp(t) \/ SetFinalStatus(t) \/ Notify(t) \/ MoveFinished(t)

\* Drops are only cancelled by a session, which makes the first of these calls.
CancelStep(t) == Cancel(t) \/ MoveCancelled(t) \/ CancelApp(t)

Step(t) == DropStep(t) \/ AppStep(t) \/ Write(t) \/ IOWrite(t) \/ Wrote(t)

\* Every call has returned: nothing happens any more.
Quiet == \A t \in Thread : stack[t] = <<>>
Done == Quiet /\ UNCHANGED vars

Next == (\E t \in Thread : Step(t)) \/ Done

Spec == Init /\ [][Next]_vars

\* Every thread gets to run: the interpreter and the operating system
\* schedule all of them, and a run of an application comes to an end.
FairSpec == Spec /\ \A t \in Thread : WF_vars(Step(t))

-----------------------------------------------------------------------------
(***************************************************************************)
(* Properties                                                              *)
(***************************************************************************)
\* The type invariant: every variable keeps the shape the code gives it.
TypeOK ==
  /\ status \in [Drop -> DROPStates]
  /\ execStatus \in [App -> AppDROPStates]
  /\ finishedProducers \in [Data -> Seq(DROPStates)]
  /\ refCount \in [Drop -> Int]
  /\ size \in [Data -> Nat]
  /\ writer \in [Drop -> {"none", "open", "broken"}]
  /\ completedInputs \in [App -> Seq(Data)]
  /\ errorInputs \in [App -> Seq(Data)]
  /\ skippedInputs \in [App -> Seq(Data)]
  /\ runs \in [App -> 0..MaxRuns]
  /\ stack \in [Thread -> Seq(Frame)]

Triggered(x) == \E c \in Callers : \E i \in DOMAIN Triggers[c] : Triggers[c][i] = x
Ended == {"COMPLETED", "ERROR", "SKIPPED"}

\* Whatever the interleaving of its producers' threads, an application that
\* nobody triggers by hand is only given a thread (async_execute) once it
\* has heard from its effective number of inputs.
EnoughInputs ==
  \A a \in App : runs[a] > 0 /\ ~Triggered(a) => NHeard(a) >= NEff(a)

\* No input is counted twice towards the effective inputs of an app: a
\* DataDROP announces the end of its production once, even when one of its
\* producers is executed more than once.
HeardOnce ==
  \A a \in App :
    LET heard == completedInputs[a] \o errorInputs[a] \o skippedInputs[a]
    IN  \A i, j \in DOMAIN heard : heard[i] = heard[j] => i = j

\* An application that waits for all of its inputs finds every one of them
\* COMPLETED, ERROR or SKIPPED when it executes (the promise BarrierAppDROP
\* makes), although it only ever compares counters.
BarrierInputsEnded ==
  \A a \in App :
    runs[a] > 0 /\ ~Triggered(a) /\ NEff(a) = NInputs(a)
      => \A d \in Inputs(a) : status[d] \in Ended

\* An application is executed once: the notification that completes its set
\* of inputs is seen by one thread only.
RunsOnce == \A a \in App : runs[a] <= 1

\* An application that has heard from enough inputs is started, skipped or
\* failed: whichever thread delivers the notification that completes the
\* set, one of them acts on it.
EnoughMeansStarted ==
  Quiet => \A a \in App : NHeard(a) >= NEff(a) /\ NInputs(a) > 0 => execStatus[a] # "NOT_RUN"

\* When everything has stopped, every consumer of a DataDROP that is
\* COMPLETED or in ERROR has been told (addConsumer).
ConsumersTold ==
  Quiet => \A d \in Data : status[d] \in {"COMPLETED", "ERROR"} =>
    \A i \in DOMAIN Consumers[d] :
      LET a == Consumers[d][i]
      IN  \E list \in {completedInputs[a], errorInputs[a]} :
            \E j \in DOMAIN list : list[j] = d

\* A skipped application is SKIPPED in both of its states (AppDROP.skip).
SkipsAgree ==
  Quiet => \A a \in App : execStatus[a] = "SKIPPED" => status[a] = "SKIPPED"

\* When all the producers of a DataDROP were skipped, so is the DataDROP, and
\* the skipping goes on downstream (skip).
SkippedTogether ==
  Quiet => \A d \in Data :
    Producers(d) # {} /\ (\A a \in Producers(d) : execStatus[a] = "SKIPPED")
      => status[d] = "SKIPPED"

\* When everything has stopped, a DataDROP is in ERROR exactly when one of
\* its producers is (producerFinished), and hence its consumers know.
ErrorsPropagate ==
  Quiet => \A d \in Data :
    status[d] = "ERROR" <=> \E a \in Producers(d) : status[a] = "ERROR"

\* A DataDROP in ERROR stays there, although a failed write and the end of
\* its producers both decide its status (write, setError, setCompleted).
ErrorSticks == [][\A d \in Data : status[d] = "ERROR" => status'[d] = "ERROR"]_vars

\* The execution of a graph comes to rest, with every drop in a final state:
\* no notification is lost and no consumer waits for ever.
Settles == <>[](Quiet /\ \A x \in Drop : status[x] \in Ended)

=============================================================================
