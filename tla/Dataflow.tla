------------------------------ MODULE Dataflow ------------------------------
(***************************************************************************)
(* What the execution of a graph promises, with threads, notifications and *)
(* counters taken away: the fate of every drop is decided once, from the   *)
(* decided fates of the drops it depends on, and never revised.            *)
(***************************************************************************)
EXTENDS Integers, FiniteSets

CONSTANTS
  Data, App,          \* the drops
  Inputs(_),          \* the inputs of an app
  Producers(_),       \* the producers of a data drop
  Needed(_),          \* how many inputs an app waits for
  ErrorThreshold,     \* percentage of them an app accepts in error
  Branches            \* apps that may skip one of their outputs

VARIABLE fate

Drop == Data \cup App
Fates == {"pending", "ok", "error", "skipped"}
Are(S, f) == {x \in S : fate[x] = f}
Decided(S) == S \ Are(S, "pending")

Decide(x, f) == fate[x] = "pending" /\ fate' = [fate EXCEPT ![x] = f]

\* Data nobody in the graph produces is there when somebody says so.
Arrive(d) == Producers(d) = {} /\ Decide(d, "ok")

\* All producers are done, and the error of one is the error of the data.
Produce(d) ==
  /\ Producers(d) # {}
  /\ Decided(Producers(d)) = Producers(d)
  /\ Decide(d, IF Are(Producers(d), "error") # {} THEN "error" ELSE "ok")

\* Data is skipped by a branch that goes the other way, or after a producer.
SkipData(d) ==
  /\ Producers(d) \cap Branches # {} \/ Are(Producers(d), "skipped") # {}
  /\ Decide(d, "skipped")

Ready(a) == Cardinality(Decided(Inputs(a))) >= Needed(a)

\* Too many inputs in error, when the app has heard from all of them.
Hopeless(a) ==
  /\ Needed(a) = Cardinality(Inputs(a))
  /\ 100 * Cardinality(Are(Inputs(a), "error")) >= (ErrorThreshold[a] + 1) * Needed(a)

Succeed(a) == Ready(a) /\ ~Hopeless(a) /\ Decide(a, "ok")
Fail(a) == Ready(a) /\ Decide(a, "error")
SkipApp(a) == Ready(a) /\ Are(Inputs(a), "skipped") # {} /\ Decide(a, "skipped")

Init == fate = [x \in Drop |-> "pending"]

Next ==
  \/ \E d \in Data : Arrive(d) \/ Produce(d) \/ SkipData(d)
  \/ \E a \in App : Succeed(a) \/ Fail(a) \/ SkipApp(a)

Spec == Init /\ [][Next]_fate
=============================================================================
