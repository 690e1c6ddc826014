---------------------------- MODULE SessionMonitor --------------------------
(***************************************************************************)
(* The page of a session in a browser (dm.js): it polls the manager until  *)
(* the session runs, then polls the state of the drops until all of them   *)
(* have ended, and lets the user cancel or delete the session.  The        *)
(* manager asks its nodes one by one while they go on, and a client        *)
(* (directRestDeploy of main.js) creates, fills and deploys the session.   *)
(***************************************************************************)
EXTENDS Integers, Sequences

CONSTANTS
  Node,     \* the nodes of the manager
  MaxAsks   \* bound: times the user presses a button

\* The values of SESSION_STATUS; null is the status of a node without the session.
Null == -2
Indeterminate == -1
Pristine == 0
Building == 1
Deploying == 2
Running == 3
Finished == 4
Cancelled == 5
Failed == 6
Started == Running..Failed
Blank == -3    \* what the page shows before the first answer

Ops == {"create", "append", "deploy", "cancel", "destroy"}
Deployment == <<"create", "append", "deploy">>

ASSUME MonitorAssumption == Node # {} /\ MaxAsks \in Nat

VARIABLES
  status,   \* of the session on a node
  ended,    \* nodes all of whose drops have ended
  closing,  \* nodes in the middle of finish()
  known,    \* the manager knows the relationships of the graph (_drop_rels)
  jobs,     \* what the manager was told to do: nodes still to do, and the outcome
  client,   \* how far the client's deployment is
  timer,    \* the function the page's d3 timer calls
  polls,    \* requests of the polling page that are not answered
  shown,    \* the status the page shows
  drawn,    \* it draws all drops as ended
  chain,    \* "closed", "open", "over" or "broken", by a rejected promise
  ask,      \* the request of a button
  asks

server == <<status, ended, closing, known>>
page == <<timer, polls, shown, drawn, chain>>
user == <<ask, asks>>
vars == <<server, jobs, client, page, user>>

Job(posted, nodes) == [posted |-> posted, todo |-> nodes, refused |-> FALSE]
Query(kind) == [kind |-> kind, todo |-> Node, got |-> <<>>, refused |-> FALSE]
NoQuery == Query("none")

Init ==
  /\ status = [n \in Node |-> Null]
  /\ ended = {} /\ closing = {} /\ known = FALSE
  /\ jobs = [op \in Ops |-> Job(FALSE, {})]
  /\ client = 0
  /\ timer = "none" /\ polls = <<>> /\ shown = Blank /\ drawn = FALSE /\ chain = "closed"
  /\ ask = NoQuery /\ asks = 0

-----------------------------------------------------------------------------
(***************************************************************************)
(* The manager and its nodes.                                              *)
(***************************************************************************)
Answered(op) == jobs[op].posted /\ jobs[op].todo = {}

\* What a node makes of an operation: its statuses after it, none if it refuses.
Effect(op, st) ==
  CASE op = "create" -> IF st = Null THEN {Pristine} ELSE {}
    [] op = "append" -> IF st \in {Pristine, Building} THEN {Building} ELSE {}
    [] op = "deploy" -> IF st = Building THEN {Deploying}
                        ELSE IF st = Pristine THEN {Finished}
                        ELSE IF st = Deploying THEN {Running, Failed} ELSE {}
    [] op = "cancel" -> IF st \in {Running, Cancelled} THEN {Cancelled} ELSE {}
    [] op = "destroy" -> IF st # Null THEN {Null} ELSE {}

\* One node does its part of an operation.  A node that fails to load its drops
\* ends them, and so does a cancellation.
Do(op, n) ==
  /\ n \in jobs[op].todo
  /\ LET after == Effect(op, status[n]) IN
     IF after = {}
     THEN /\ jobs' = [jobs EXCEPT ![op].todo = @ \ {n}, ![op].refused = TRUE]
          /\ UNCHANGED <<status, ended>>
     ELSE \E st \in after :
          /\ status' = [status EXCEPT ![n] = st]
          /\ ended' = IF st \in {Finished, Cancelled, Failed} THEN ended \cup {n} ELSE ended
          /\ jobs' = [jobs EXCEPT ![op].todo = IF st = Deploying THEN @ ELSE @ \ {n}]
  /\ UNCHANGED <<closing, known, client, page, user>>

\* The drops of a node end, once the roots were triggered.
EndDrops(n) ==
  /\ status[n] = Running /\ n \notin ended
  /\ Answered("deploy") /\ ~jobs["deploy"].refused
  /\ ended' = ended \cup {n}
  /\ UNCHANGED <<status, closing, known, jobs, client, page, user>>

\* finish: the session is FINISHED, until an errored drop is found among its drops.
Finish(n) ==
  /\ \/ /\ status[n] = Running /\ n \in ended
        /\ status' = [status EXCEPT ![n] = Finished]
        /\ closing' = closing \cup {n}
     \/ /\ n \in closing
        /\ closing' = closing \ {n}
        /\ \E st \in {Finished, Failed} :
             status' = [status EXCEPT ![n] = IF @ = Finished THEN st ELSE @]
  /\ UNCHANGED <<ended, known, jobs, client, page, user>>

\* addGraphSpec keeps the relationships before any node has the graph.
Post(op) ==
  /\ jobs' = [jobs EXCEPT ![op] = Job(TRUE, Node)]
  /\ known' = (known \/ op = "append")

\* The client posts the next step of a deployment when the last one is answered,
\* whether it was refused or not, and then opens the page.
Deploy ==
  /\ client < 3 /\ (client > 0 => Answered(Deployment[client]))
  /\ client' = client + 1
  /\ Post(Deployment[client + 1])
  /\ UNCHANGED <<status, ended, closing, page, user>>

-----------------------------------------------------------------------------
(***************************************************************************)
(* Reducing the statuses of the nodes, in the order they answered in.      *)
(***************************************************************************)
\* Mutant: any status counts that somebody has reached.
ReducePairEager(prev, v) == IF v > prev THEN v ELSE prev

ReducePair(prev, v) ==
  IF prev = Indeterminate THEN Indeterminate
  ELSE IF <<prev, v>> \in {<<Running, Finished>>, <<Finished, Running>>, <<Running, Failed>>}
       THEN Running
  ELSE IF {prev, v} = {Finished, Failed} THEN Failed
  ELSE IF prev = v THEN v ELSE Indeterminate

UniqueSessionStatus(got) ==
  LET reduced[i \in 1..Len(got)] ==
        IF i = 1 THEN got[1] ELSE ReducePair(reduced[i - 1], got[i])
  IN  reduced[Len(got)]

\* null passes for an object when it comes first, and cannot be reduced.
Reducible(got) == Head(got) # Null

-----------------------------------------------------------------------------
(***************************************************************************)
(* Polling.                                                                *)
(***************************************************************************)
OpenPage ==
  /\ chain' = "open" /\ timer' = "graph"
  /\ UNCHANGED <<polls, shown, drawn>>

\* The page opens at the end of the client's deployment, or from the list of
\* sessions.
Open ==
  /\ chain = "closed"
  /\ \/ client = 3 /\ Answered("deploy") /\ client' = 4
     \/ Answered("create") /\ UNCHANGED client
  /\ OpenPage
  /\ UNCHANGED <<server, jobs, user>>

Polling(kind) == polls' = Append(polls, Query(kind))

\* Mutant: the timer is not stopped, and goes on calling the function.
TickOn ==
  /\ timer # "none" /\ Len(polls) < 2
  /\ Polling(IF timer = "graph" THEN "info" ELSE "states")
  /\ UNCHANGED <<server, jobs, client, timer, shown, drawn, chain, user>>

\* Mutant: the timer is set for updateStates, and never calls it.
TickGraphOnly ==
  /\ timer = "graph"
  /\ Polling("info")
  /\ timer' = "none"
  /\ UNCHANGED <<server, jobs, client, shown, drawn, chain, user>>

\* updateGraph and updateStates send their request and stop the timer.
Tick ==
  /\ timer # "none"
  /\ Polling(IF timer = "graph" THEN "info" ELSE "states")
  /\ timer' = "none"
  /\ UNCHANGED <<server, jobs, client, shown, drawn, chain, user>>

\* What one node contributes to the answer of a query.
Asked(q, n) ==
  [q EXCEPT !.todo = @ \ {n},
            !.got = Append(@, IF q.kind = "states" THEN IF n \in ended THEN 1 ELSE 0
                              ELSE status[n]),
            !.refused = @ \/ (q.kind = "states" /\ status[n] \notin Started)]

NodeAnswers(i, n) ==
  /\ n \in polls[i].todo
  /\ polls' = [polls EXCEPT ![i] = Asked(@, n)]
  /\ UNCHANGED <<server, jobs, client, timer, shown, drawn, chain, user>>

\* A sequence without its k-th element.
RemoveAt(s, k) == SubSeq(s, 1, k - 1) \o SubSeq(s, k + 1, Len(s))

Back(i, kind) == polls[i].kind = kind /\ polls[i].todo = {}
NextPoll(i, t) == timer' = t /\ polls' = RemoveAt(polls, i)
Break(i) ==
  /\ chain' = "broken" /\ polls' = RemoveAt(polls, i)
  /\ UNCHANGED <<timer, shown, drawn>>

\* getSessionInformation reads the graph after the statuses, and fails without
\* it; as long as there are no relationships the session is Pristine.
Information(q) ==
  IF (\E n \in Node : status[n] = Null) \/ (known /\ ~Reducible(q.got)) THEN {}
  ELSE {IF known THEN UniqueSessionStatus(q.got) ELSE Pristine}

\* The answer to updateGraph.  While the session is Deploying the drops are drawn
\* from the session's status, 2, which is "completed" for a drop.
GraphAnswer(i) ==
  /\ Back(i, "info")
  /\ LET u == Information(polls[i]) IN
     \/ u = {} /\ Break(i)
     \/ \E st \in u :
        /\ shown' = st
        /\ drawn' = (drawn \/ st = Deploying)
        /\ NextPoll(i, IF st \in Started THEN "states" ELSE "graph")
        /\ UNCHANGED chain
  /\ UNCHANGED <<server, jobs, client, user>>

AllEnded(q) == \A k \in DOMAIN q.got : q.got[k] = 1

\* The answer to updateStates: poll again, or read the status a last time.
StatesAnswer(i) ==
  /\ Back(i, "states")
  /\ \/ polls[i].refused /\ Break(i)
     \/ /\ ~polls[i].refused
        /\ drawn' = AllEnded(polls[i])
        /\ IF AllEnded(polls[i])
           THEN polls' = [polls EXCEPT ![i] = Query("final")] /\ UNCHANGED timer
           ELSE NextPoll(i, "states")
        /\ UNCHANGED <<shown, chain>>
  /\ UNCHANGED <<server, jobs, client, user>>

FinalAnswer(i) ==
  /\ Back(i, "final")
  /\ IF Reducible(polls[i].got)
     THEN /\ shown' = UniqueSessionStatus(polls[i].got)
          /\ chain' = "over" /\ polls' = RemoveAt(polls, i)
          /\ UNCHANGED <<timer, drawn>>
     ELSE Break(i)
  /\ UNCHANGED <<server, jobs, client, user>>

-----------------------------------------------------------------------------
(***************************************************************************)
(* The buttons: the status is checked first, the order is given later.     *)
(***************************************************************************)
Press(what) ==
  /\ chain # "closed" /\ ask.kind = "none" /\ asks < MaxAsks /\ ~jobs[what].posted
  /\ asks' = asks + 1
  /\ ask' = Query(what)
  /\ UNCHANGED <<server, jobs, client, page>>

AskAnswers(n) ==
  /\ ask.kind \in {"cancel", "destroy"} /\ n \in ask.todo
  /\ ask' = Asked(ask, n)
  /\ UNCHANGED <<server, jobs, client, page, asks>>

\* What is Running may be cancelled, and anything else deleted.
Checked(what) ==
  /\ ask.kind = what /\ ask.todo = {}
  /\ \E st \in Information(ask) : (st = Running) <=> (what = "cancel")

\* The answer to the check of a button that rejects the order: a message.
Denied ==
  /\ ask.kind \in {"cancel", "destroy"} /\ ask.todo = {}
  /\ ~Checked(ask.kind)
  /\ ask' = NoQuery
  /\ UNCHANGED <<server, jobs, client, page, asks>>

\* does_status_allow_cancel: the order is sent, and the page shows the result
\* without waiting for it.
Cancel ==
  /\ Checked("cancel")
  /\ Post("cancel")
  /\ shown' = Cancelled
  /\ ask' = NoQuery
  /\ UNCHANGED <<status, ended, closing, client, timer, polls, drawn, chain, asks>>

\* A dialog asks for confirmation.
Confirm ==
  /\ Checked("destroy")
  /\ ask' = [NoQuery EXCEPT !.kind = "confirm"]
  /\ UNCHANGED <<server, jobs, client, page, asks>>

Delete ==
  /\ ask.kind = "confirm"
  /\ \/ Post("destroy")
     \/ UNCHANGED <<jobs, known>>
  /\ ask' = NoQuery
  /\ UNCHANGED <<status, ended, closing, client, page, asks>>

-----------------------------------------------------------------------------
Work ==
  \/ \E op \in Ops, n \in Node : Do(op, n)
  \/ \E n \in Node : EndDrops(n) \/ Finish(n)
  \/ Deploy

Browse ==
  \/ Tick
  \/ \E i \in DOMAIN polls :
       \/ \E n \in Node : NodeAnswers(i, n)
       \/ GraphAnswer(i) \/ StatesAnswer(i) \/ FinalAnswer(i)

Buttons ==
  \/ \E what \in {"cancel", "destroy"} : Press(what)
  \/ \E n \in Node : AskAnswers(n)
  \/ Denied \/ Cancel \/ Confirm \/ Delete

Next == Work \/ Browse \/ Open \/ Buttons

\* The manager and its nodes do what they were told, and the browser runs its
\* timers and hears from the manager; nobody has to open the page or press a
\* button.
Spec == Init /\ [][Next]_vars /\ WF_vars(Work) /\ WF_vars(Browse)

-----------------------------------------------------------------------------
(***************************************************************************)
(* Properties                                                              *)
(***************************************************************************)
Status == {Null} \cup Pristine..Failed
Queries(kinds) ==
  [kind : kinds, todo : SUBSET Node, got : Seq(Status), refused : BOOLEAN]

\* The type invariant of the page and the manager.
TypeOK ==
  /\ status \in [Node -> Status]
  /\ ended \subseteq Node /\ closing \subseteq Node /\ drawn \in BOOLEAN
  /\ client \in 0..4 /\ known \in BOOLEAN
  /\ jobs \in [Ops -> [posted : BOOLEAN, todo : SUBSET Node, refused : BOOLEAN]]
  /\ timer \in {"none", "graph", "states"}
  /\ polls \in Seq(Queries({"info", "states", "final"}))
  /\ shown \in {Blank} \cup Indeterminate..Failed
  /\ chain \in {"closed", "open", "over", "broken"}
  /\ ask \in Queries({"none", "cancel", "destroy", "confirm"})

\* While a page is watched there is one timer or one request, never two and never
\* none: updateGraph and updateStates stop the timer that called them and only an
\* answer sets the next one.
OneChain ==
  Len(polls) + (IF timer = "none" THEN 0 ELSE 1) = (IF chain = "open" THEN 1 ELSE 0)

\* The state of the drops is asked for only when every node can tell: what
\* uniqueSessionStatus reduces to a started session has no node that is still
\* being deployed, though the nodes answered at different times.
StatesWait ==
  \A i \in DOMAIN polls : polls[i].kind = "states" /\ polls[i].refused =>
    \E n \in Node : status[n] = Null

\* The session is over, and its nodes agree on whether it was cancelled.
Settled ==
  \/ \A n \in Node : status[n] \in {Finished, Failed}
  \/ \A n \in Node : status[n] = Cancelled

\* A page that is open when the session is over stops polling, with all drops
\* drawn as ended, unless the session is deleted or a request fails.
EndsDrawn ==
  chain = "open" /\ Settled ~>
    (chain = "over" /\ drawn) \/ chain = "broken" \/ jobs["destroy"].posted

\* The status that is shown last is the one the session has.  TLC refutes this:
\* see the README.
LastShown ==
  chain = "over" /\ closing = {} => \A st \in Started :
    (\A n \in Node : status[n] = st) => shown = st

\* Drops that are drawn as ended have ended.  TLC refutes this, too.
DrawnEnded == drawn => ended = Node

\* A session that runs is not deleted.  TLC refutes this, too.
NotDeletedRunning ==
  [][jobs'["destroy"].posted /\ ~jobs["destroy"].posted =>
       \A n \in Node : status[n] # Running]_vars

\* The order in which the nodes answer makes no difference.  TLC refutes this.
OrderIrrelevant ==
  \A i \in DOMAIN polls :
    LET got == polls[i].got
        reversed == [k \in 1..Len(got) |-> got[Len(got) - k + 1]]
    IN  polls[i].kind # "states" /\ polls[i].todo = {} /\ Reducible(got) /\ Reducible(reversed) =>
        UniqueSessionStatus(got) = UniqueSessionStatus(reversed)
=============================================================================
