--------------------------- MODULE DataLifecycle ----------------------------
(***************************************************************************)
(* The Data Lifecycle Manager of a node (lifecycle/dlm.py) and the reading *)
(* of DataDROPs (data/drops/data_base.py).  Four kinds of threads share    *)
(* the drops: those that produce and complete them, those that read them,  *)
(* the DROPChecker, which expires them and looks for lost ones, and the    *)
(* DROPGarbageCollector, which deletes the expired ones.                   *)
(*                                                                         *)
(* The checker iterates over the live dictionary of drops: one step of it  *)
(* handles one drop, and the marking of a drop is a step of its own.       *)
(***************************************************************************)
EXTENDS Integers, Sequences, FiniteSets, Functions

CONSTANTS
  Drops,            \* the DataDROPs of a session
  Copies,           \* the replicas the slowest store has space for
  Apps, Viewers,    \* what reads drops: consumers, and anybody else
  Consumers,        \* drop -> its consumers
  NProducers,       \* drop -> number of producers
  Persist, ExpireAfterUse, Lifespan,   \* drops created with these
  Lazy,             \* drops whose data exists only once completed (files)
  Replication,      \* enable_drop_replication
  MaxLosses,        \* bound: data removed behind the manager's back
  Overlap,          \* may drops be added in the middle of a check?
  Skips, Destroys   \* may consumers be skipped, the session destroyed?

None == "none"
Uid == Drops \cup Copies
Reader == Apps \cup Viewers

ASSUME LifecycleAssumption ==
  /\ Drops \cap Copies = {} /\ Apps \cap Viewers = {}
  /\ \A S \in SUBSET Uid : Cardinality(S) \in Nat    \* it is finite
  /\ None \notin Uid
  /\ Consumers \in [Drops -> SUBSET Apps]
  /\ NProducers \in [Drops -> Nat]
  /\ Persist \subseteq Drops
  /\ ExpireAfterUse \subseteq Drops \ Persist
  /\ Lifespan \subseteq Drops \ ExpireAfterUse
  /\ Lazy \subseteq Drops
  /\ MaxLosses \in Nat
  /\ {Replication, Overlap, Skips, Destroys} \subseteq BOOLEAN

VARIABLES
  status, phase,    \* of every drop and replica
  finished,         \* producers of a drop that have finished
  announced,        \* drops whose consumers were told of the completion
  refCount,         \* _refCount of a drop
  rios,             \* readers with an open descriptor on a drop
  leaked,           \* descriptors that their readers never got
  opening,          \* reader -> the drop it is about to open
  execStatus,       \* of the consumers
  aged,             \* drops past their expirationDate
  stored,           \* drops whose data exists
  losses,           \* data removed so far
  tracked,          \* _drops of the manager, in the order of insertion
  instances,        \* the registry: drop -> uids
  checker, collector

readVars == <<refCount, rios, leaked, opening, execStatus>>
dropVars == <<status, phase, finished, announced, stored>>
envVars == <<aged, losses>>
dlmVars == <<tracked, instances>>
vars == <<dropVars, readVars, envVars, dlmVars, checker, collector>>

Tracked == Range(tracked)
Oid(x) == CHOOSE d \in Drops : x \in instances[d]

\* The orders in which a set may be gone through.
Orders(S) == Bijection(1..Cardinality(S), S)

\* Entries leave the dictionary; the others stay, in their order.
Removes(gone) ==
  tracked' \in {t \in Orders(Tracked \ gone) :
    \A i, j \in DOMAIN t : i < j =>
      \E k, l \in DOMAIN tracked : k < l /\ t[i] = tracked[k] /\ t[j] = tracked[l]}

-----------------------------------------------------------------------------
(***************************************************************************)
(* Replication                                                             *)
(***************************************************************************)
Unused == {c \in Copies : status[c] = "INITIALIZED"}

\* Mutant: nothing is copied into the replica.
ReplicateEmpty(x, copy) ==
  /\ status' = [status EXCEPT ![x] = "COMPLETED", ![copy] = "COMPLETED"]
  /\ phase' = [phase EXCEPT ![x] = "SOLID", ![copy] = "SOLID"]
  /\ stored' = stored \cup {x}
  /\ tracked' = Append(tracked, copy)
  /\ instances' = [instances EXCEPT ![Oid(x)] = @ \cup {copy}]

\* replicateDrop: x is copied into a new drop of the slowest store.  The
\* copy completes as its expected size is reached.
Replicate(x, copy) ==
  /\ status' = [status EXCEPT ![x] = "COMPLETED", ![copy] = "COMPLETED"]
  /\ phase' = [phase EXCEPT ![x] = "SOLID", ![copy] = "SOLID"]
  /\ stored' = stored \cup {x, copy}
  /\ tracked' = Append(tracked, copy)
  /\ instances' = [instances EXCEPT ![Oid(x)] = @ \cup {copy}]


-----------------------------------------------------------------------------
(***************************************************************************)
(* Drops are added, produced and completed                                 *)
(***************************************************************************)
AddDrop(d) ==
  /\ phase[d] = "PLASMA"
  /\ Overlap \/ checker.pc = "idle"
  /\ phase' = [phase EXCEPT ![d] = "GAS"]
  /\ tracked' = Append(tracked, d)
  /\ instances' = [instances EXCEPT ![d] = {d}]
  /\ UNCHANGED <<status, finished, announced, stored, readVars, envVars, checker, collector>>

\* setCompleted, with the manager's handleCompletedDrop called in between.
\* It raises for a drop that is not tracked, before the consumers are told.
Complete(d) ==
  /\ status[d] = "INITIALIZED"
  /\ \/ /\ Replication /\ d \in Tracked /\ d \in Persist
        /\ \E copy \in Unused : Replicate(d, copy)
        /\ announced' = announced \cup {d}
     \/ /\ ~(Replication /\ d \in Tracked /\ d \in Persist) \/ Unused = {}
        /\ status' = [status EXCEPT ![d] = "COMPLETED"]
        /\ stored' = stored \cup {d}
        /\ announced' = IF Replication /\ d \notin Tracked THEN announced
                        ELSE announced \cup {d}
        /\ UNCHANGED <<phase, dlmVars>>

\* producerFinished: the last producer completes the drop.  The count of
\* references goes down with every producer.
ProducerFinished(d) ==
  /\ phase[d] # "PLASMA" /\ finished[d] < NProducers[d]
  /\ finished' = [finished EXCEPT ![d] = @ + 1]
  /\ refCount' = [refCount EXCEPT ![d] = @ - 1]
  /\ IF finished'[d] = NProducers[d]
     THEN Complete(d)
     ELSE UNCHANGED <<status, phase, announced, stored, dlmVars>>
  /\ UNCHANGED <<rios, leaked, opening, execStatus, envVars, checker, collector>>

Trigger(d) ==
  /\ phase[d] # "PLASMA" /\ NProducers[d] = 0
  /\ Complete(d)
  /\ UNCHANGED <<finished, readVars, envVars, checker, collector>>

-----------------------------------------------------------------------------
(***************************************************************************)
(* Drops are read                                                          *)
(***************************************************************************)
StartApp(a) ==
  /\ execStatus[a] = "NOT_RUN"
  /\ \A d \in Drops : a \in Consumers[d] => d \in announced
  /\ execStatus' = [execStatus EXCEPT ![a] = "RUNNING"]
  /\ UNCHANGED <<dropVars, refCount, rios, leaked, opening, envVars, dlmVars, checker, collector>>

SkipApp(a) ==
  /\ Skips /\ execStatus[a] = "NOT_RUN"
  /\ execStatus' = [execStatus EXCEPT ![a] = "SKIPPED"]
  /\ UNCHANGED <<dropVars, refCount, rios, leaked, opening, envVars, dlmVars, checker, collector>>

\* A run ends well once it has closed what it opened.
FinishApp(a) ==
  /\ execStatus[a] = "RUNNING" /\ opening[a] = None
  /\ \A d \in Drops : a \notin rios[d]
  /\ \E s \in {"FINISHED", "ERROR"} : execStatus' = [execStatus EXCEPT ![a] = s]
  /\ UNCHANGED <<dropVars, refCount, rios, leaked, opening, envVars, dlmVars, checker, collector>>

\* An exception ends the run of a consumer.
Raise(r) == execStatus' = [a \in Apps |-> IF a = r THEN "ERROR" ELSE execStatus[a]]

\* open, up to the check of the status.
Open(r, d) ==
  /\ opening[r] = None /\ r \notin rios[d]
  /\ r \in Apps => r \in Consumers[d] /\ execStatus[r] = "RUNNING"
  /\ IF status[d] = "COMPLETED"
     THEN opening' = [opening EXCEPT ![r] = d] /\ UNCHANGED execStatus
     ELSE Raise(r) /\ UNCHANGED opening
  /\ UNCHANGED <<dropVars, refCount, rios, leaked, envVars, dlmVars, checker, collector>>

\* ... and the rest of it, with the manager's handleOpenedDrop at the end:
\* it raises for a drop that is not tracked, after the reference is counted.
Opened(r) ==
  LET d == opening[r] IN
  /\ d # None
  /\ opening' = [opening EXCEPT ![r] = None]
  /\ \/ /\ d \notin stored
        /\ Raise(r)
        /\ UNCHANGED <<refCount, rios, leaked>>
     \/ /\ d \in stored
        /\ rios' = [rios EXCEPT ![d] = @ \cup {r}]
        /\ refCount' = [refCount EXCEPT ![d] = @ + 1]
        /\ IF d \in Tracked
           THEN UNCHANGED <<execStatus, leaked>>
           ELSE Raise(r) /\ leaked' = leaked \cup {<<r, d>>}
  /\ UNCHANGED <<dropVars, envVars, dlmVars, checker, collector>>

\* close raises for a drop that is not COMPLETED any more.
Close(r, d) ==
  /\ r \in rios[d] /\ <<r, d>> \notin leaked
  /\ r \in Apps => execStatus[r] = "RUNNING"
  /\ IF status[d] = "COMPLETED"
     THEN /\ refCount' = [refCount EXCEPT ![d] = @ - 1]
          /\ rios' = [rios EXCEPT ![d] = @ \ {r}]
          /\ UNCHANGED execStatus
     ELSE /\ r \in Apps
          /\ Raise(r)
          /\ UNCHANGED <<refCount, rios>>
  /\ UNCHANGED <<dropVars, leaked, opening, envVars, dlmVars, checker, collector>>

\* Mutant: producers that finished look like readers.
IsBeingUsed(x) == refCount[x] # 0

IsBeingRead(x) == refCount[x] > 0

-----------------------------------------------------------------------------
(***************************************************************************)
(* The DROPChecker: expireCompletedDrops, then deleteLostDrops.  pc is the *)
(* loop it is in, list the dictionary it iterates over, i the drop it is   *)
(* at, attached whether that dictionary is still the manager's, and gone   *)
(* what deleteLostDrops is going to remove.                                *)
(***************************************************************************)
\* Python refuses to go on with a dictionary that has changed its size, and
\* any exception ends the checker's thread.
Changed == checker.attached /\ Len(tracked) # Len(checker.list)
Dies == checker' = [checker EXCEPT !.pc = "dead"]
Goes(pc) == checker' = [checker EXCEPT !.pc = pc]
GoesOn == checker' = [checker EXCEPT !.i = @ + 1]
Iterates(pc) == checker' = [pc |-> pc, i |-> 1, list |-> tracked, attached |-> TRUE, gone |-> <<>>]
AtDrop == checker.i <= Len(checker.list)
Item == checker.list[checker.i]

CheckStart ==
  /\ checker.pc = "idle"
  /\ Iterates("expire")
  /\ UNCHANGED <<dropVars, readVars, envVars, dlmVars, collector>>

CheckChanged ==
  /\ checker.pc \in {"expire", "lost"} /\ Changed
  /\ Dies
  /\ UNCHANGED <<dropVars, readVars, envVars, dlmVars, collector>>

\* Mutants: consumers that have not started do not count; a consumer in ERROR
\* is not done.
NoneRunning(d) == \A a \in Consumers[d] : execStatus[a] # "RUNNING"
AllFinished(d) == \A a \in Consumers[d] : execStatus[a] = "FINISHED"

AllDone(d) == \A a \in Consumers[d] : execStatus[a] \in {"FINISHED", "ERROR"}

MayExpire(x) ==
  /\ status[x] = "COMPLETED"
  /\ \/ x \in ExpireAfterUse /\ AllDone(x)
     \/ x \in Lifespan /\ x \in aged
  /\ ~IsBeingRead(x)

ExpireCheck ==
  /\ checker.pc = "expire" /\ AtDrop /\ ~Changed
  /\ IF MayExpire(Item) THEN Goes("mark") ELSE GoesOn
  /\ UNCHANGED <<dropVars, readVars, envVars, dlmVars, collector>>

ExpireMark ==
  /\ checker.pc = "mark"
  /\ status' = [status EXCEPT ![Item] = "EXPIRED"]
  /\ checker' = [checker EXCEPT !.pc = "expire", !.i = @ + 1]
  /\ UNCHANGED <<phase, finished, announced, stored, readVars, envVars, dlmVars, collector>>

ExpireEnd ==
  /\ checker.pc = "expire" /\ ~AtDrop /\ ~Changed
  /\ Iterates("lost")
  /\ UNCHANGED <<dropVars, readVars, envVars, dlmVars, collector>>

Disappeared(x) == status[x] # "DELETED" /\ x \notin stored

\* One drop of deleteLostDrops.
LostCheck ==
  LET x == Item
      siblings == instances[Oid(x)] \ {x}
      replicas == {s \in siblings : ~Disappeared(s)}
      removing == \E lost \in Orders(siblings \ replicas) :
                    checker' = [checker EXCEPT !.i = @ + 1, !.gone = @ \o <<x>> \o lost]
  IN
  /\ checker.pc = "lost" /\ AtDrop /\ ~Changed
  /\ \/ /\ ~Disappeared(x)
        /\ GoesOn
        /\ UNCHANGED <<dropVars, dlmVars>>
     \/ /\ Disappeared(x) /\ ~(siblings \subseteq Tracked)
        /\ Dies
        /\ UNCHANGED <<dropVars, dlmVars>>
     \/ /\ Disappeared(x) /\ siblings \subseteq Tracked
        /\ IF \E r \in replicas : replicas = {r}
           THEN \E r \in replicas :
                  \/ /\ status[r] = "COMPLETED"
                     /\ \E copy \in Unused : Replicate(r, copy)
                     /\ removing
                     /\ UNCHANGED <<finished, announced>>
                  \/ /\ status[r] # "COMPLETED" \/ Unused = {}   \* replicateDrop raises
                     /\ Dies
                     /\ UNCHANGED <<dropVars, dlmVars>>
           ELSE /\ phase' = IF replicas = {} THEN [phase EXCEPT ![x] = "LOST"] ELSE phase
                /\ removing
                /\ UNCHANGED <<status, finished, announced, stored, dlmVars>>
  /\ UNCHANGED <<readVars, envVars, collector>>

\* The drops found lost are removed one by one, until a removal raises.
LostEnd ==
  LET gone == checker.gone
      bad == {i \in DOMAIN gone : gone[i] \notin Tracked \/ \E j \in 1..(i - 1) : gone[j] = gone[i]}
      removed == {gone[i] : i \in {i \in DOMAIN gone : \A j \in bad : i < j}}
  IN
  /\ checker.pc = "lost" /\ ~AtDrop /\ ~Changed
  /\ Removes(removed)
  /\ IF bad = {} THEN Goes("idle") ELSE Dies
  /\ UNCHANGED <<dropVars, readVars, envVars, instances, collector>>

-----------------------------------------------------------------------------
(***************************************************************************)
(* The DROPGarbageCollector: deleteExpiredDrops, on a copy of the values.  *)
(***************************************************************************)
CollectStart ==
  /\ collector.pc = "idle"
  /\ collector' = [pc |-> "scan", list |-> tracked]
  /\ UNCHANGED <<dropVars, readVars, envVars, dlmVars, checker>>

\* The data is deleted first; deleting what is not there raises.
Collect ==
  LET x == Head(collector.list) IN
  /\ collector.pc = "scan" /\ collector.list # <<>>
  /\ \/ /\ status[x] # "EXPIRED"
        /\ collector' = [collector EXCEPT !.list = Tail(@)]
        /\ UNCHANGED stored
     \/ /\ status[x] = "EXPIRED"
        /\ collector' = [collector EXCEPT !.pc = IF x \in stored THEN "deleted" ELSE "dead"]
        /\ stored' = stored \ {x}
  /\ UNCHANGED <<status, phase, finished, announced, readVars, envVars, dlmVars, checker>>

\* Mutant: a deleted drop is taken out of the dictionary at once.
CollectMarkRemoves ==
  /\ collector.pc = "deleted"
  /\ status' = [status EXCEPT ![Head(collector.list)] = "DELETED"]
  /\ collector' = [pc |-> "scan", list |-> Tail(collector.list)]
  /\ Removes({Head(collector.list)})
  /\ UNCHANGED <<phase, finished, announced, stored, readVars, envVars, instances, checker>>

CollectMark ==
  /\ collector.pc = "deleted"
  /\ status' = [status EXCEPT ![Head(collector.list)] = "DELETED"]
  /\ collector' = [pc |-> "scan", list |-> Tail(collector.list)]
  /\ UNCHANGED <<phase, finished, announced, stored, readVars, envVars, dlmVars, checker>>

CollectEnd ==
  /\ collector.pc = "scan" /\ collector.list = <<>>
  /\ collector' = [collector EXCEPT !.pc = "idle"]
  /\ UNCHANGED <<dropVars, readVars, envVars, dlmVars, checker>>

-----------------------------------------------------------------------------
\* The lifespan of a drop runs out.
Age(d) ==
  /\ d \in Lifespan \ aged
  /\ aged' = aged \cup {d}
  /\ UNCHANGED <<dropVars, readVars, losses, dlmVars, checker, collector>>

\* Somebody else removes the data of a completed drop.
Lose(x) ==
  /\ losses < MaxLosses
  /\ status[x] = "COMPLETED" /\ x \in stored
  /\ losses' = losses + 1
  /\ stored' = stored \ {x}
  /\ UNCHANGED <<status, phase, finished, announced, readVars, aged, dlmVars, checker, collector>>

\* The session is destroyed: remove_drops puts a new dictionary in place.
RemoveDrops ==
  /\ Destroys /\ Tracked \cap Drops # {}
  /\ Removes(Drops)
  /\ checker' = [checker EXCEPT !.attached = FALSE]
  /\ UNCHANGED <<dropVars, readVars, envVars, instances, collector>>

Init ==
  /\ status = [x \in Uid |-> "INITIALIZED"]
  /\ phase = [x \in Uid |-> "PLASMA"]
  /\ finished = [d \in Drops |-> 0]
  /\ announced = {}
  /\ refCount = [x \in Uid |-> 0]
  /\ rios = [x \in Uid |-> {}]
  /\ leaked = {}
  /\ opening = [r \in Reader |-> None]
  /\ execStatus = [a \in Apps |-> "NOT_RUN"]
  /\ aged = {}
  /\ stored = Drops \ Lazy
  /\ losses = 0
  /\ tracked = <<>>
  /\ instances = [d \in Drops |-> {}]
  /\ checker = [pc |-> "idle", i |-> 1, list |-> <<>>, attached |-> TRUE, gone |-> <<>>]
  /\ collector = [pc |-> "idle", list |-> <<>>]

Produce(d) == ProducerFinished(d) \/ Trigger(d)
AppStep(a) ==
  \/ StartApp(a) \/ FinishApp(a) \/ Opened(a)
  \/ \E d \in Drops : Open(a, d) \/ Close(a, d)
View(v) == Opened(v) \/ \E d \in Drops : Open(v, d) \/ Close(v, d)
Check ==
  \/ CheckStart \/ CheckChanged \/ ExpireCheck \/ ExpireMark \/ ExpireEnd
  \/ LostCheck \/ LostEnd
CollectStep == CollectStart \/ Collect \/ CollectMark \/ CollectEnd

Next ==
  \/ \E d \in Drops : AddDrop(d) \/ Produce(d) \/ Age(d)
  \/ \E a \in Apps : AppStep(a) \/ SkipApp(a)
  \/ \E v \in Viewers : View(v)
  \/ \E x \in Uid : Lose(x)
  \/ Check \/ CollectStep \/ RemoveDrops

\* The two background threads run for ever, drops are produced, runs of
\* applications come to an end, whatever they read they close, and time passes.
Spec ==
  /\ Init /\ [][Next]_vars
  /\ WF_vars(Check) /\ WF_vars(CollectStep)
  /\ \A d \in Drops : SF_vars(AddDrop(d)) /\ WF_vars(Produce(d)) /\ WF_vars(Age(d))
  /\ \A a \in Apps :
       /\ WF_vars(StartApp(a)) /\ WF_vars(Opened(a)) /\ SF_vars(FinishApp(a))
       /\ \A d \in Drops : WF_vars(Close(a, d))
  /\ \A v \in Viewers :
       WF_vars(Opened(v)) /\ \A d \in Drops : WF_vars(Close(v, d))

-----------------------------------------------------------------------------
(***************************************************************************)
(* Properties                                                              *)
(***************************************************************************)
\* The type invariant of the manager and of the drops it looks after.
TypeOK ==
  /\ status \in [Uid -> {"INITIALIZED", "COMPLETED", "EXPIRED", "DELETED"}]
  /\ phase \in [Uid -> {"PLASMA", "GAS", "SOLID", "LOST"}]
  /\ finished \in [Drops -> Nat] /\ refCount \in [Uid -> Int]
  /\ rios \in [Uid -> SUBSET Reader] /\ leaked \subseteq Reader \X Drops
  /\ opening \in [Reader -> Drops \cup {None}]
  /\ execStatus \in [Apps -> {"NOT_RUN", "RUNNING", "FINISHED", "ERROR", "SKIPPED"}]
  /\ announced \subseteq Drops /\ aged \subseteq Lifespan /\ stored \subseteq Uid
  /\ tracked \in Seq(Uid) /\ instances \in [Drops -> SUBSET Uid]
  /\ losses \in Nat
  /\ checker \in [pc : {"idle", "expire", "mark", "lost", "dead"}, i : Nat \ {0},
                  list : Seq(Uid), attached : BOOLEAN, gone : Seq(Uid)]
  /\ collector \in [pc : {"idle", "scan", "deleted", "dead"}, list : Seq(Uid)]

\* A drop that expires after use keeps its data for as long as one of its
\* consumers has still to run or is running (expireCompletedDrops), whatever
\* the checker, the collector and other readers are doing.
KeptForConsumers ==
  losses = 0 => \A d \in ExpireAfterUse :
    d \in announced /\ (\E a \in Consumers[d] : execStatus[a] \in {"NOT_RUN", "RUNNING"})
      => status[d] = "COMPLETED" /\ d \in stored

\* No exception ends the checker's thread: the dictionary it iterates over is
\* not changed under it, and what it removes is there (expireCompletedDrops,
\* deleteLostDrops).  This is so while drops are added between its checks.
CheckerLives == checker.pc # "dead"

\* A drop with a time or a use to expire after ends up DELETED once its
\* consumers are done and nobody holds it open.
ExpiredAreDeleted ==
  \A d \in ExpireAfterUse \cup Lifespan : <>(status[d] = "DELETED")

\* A drop that expires after use expires once all of its consumers have ended.
ExpiresAfterUse ==
  \A d \in ExpireAfterUse :
    (d \in announced /\ \A a \in Consumers[d] : execStatus[a] \in {"FINISHED", "ERROR", "SKIPPED"})
      ~> status[d] \in {"EXPIRED", "DELETED"}

Alive(d) == {x \in instances[d] : status[x] = "COMPLETED" /\ x \in stored}

\* A drop in the SOLID phase is backed by a replica: two copies have their data,
\* and after the loss of one of them the other has; only the end of a lifespan
\* takes them away (replicateDrop).
SolidHasReplica ==
  \A d \in Drops \ Lifespan : phase[d] = "SOLID" =>
    /\ losses = 0 => \E x, y \in Alive(d) : x # y
    /\ losses = 1 => Alive(d) # {}

-----------------------------------------------------------------------------
(***************************************************************************)
(* What the documents say and the code does not do.  TLC refutes each of   *)
(* these: see the README.                                                  *)
(***************************************************************************)
\* A drop that is open for reading is not expired (expireCompletedDrops asks
\* isBeingRead before it marks the drop).
NotExpiredWhileRead == \A d \in Drops : rios[d] # {} => status[d] = "COMPLETED"

\* A drop that is to be persisted does not expire (drop.py: "If DROP should be
\* persisted, don't expire (delete) it").  With a lifespan it does.
PersistedKept == \A d \in Persist : status[d] \notin {"EXPIRED", "DELETED"}

\* The reference count of a drop is the number of its open descriptors (open).
RefCountMeansReaders == \A d \in Drops : refCount[d] = Cardinality(rios[d])

\* A drop is LOST only when it was completed and its data then disappeared
\* without the manager having deleted it (deleteLostDrops).
LostMeansLost == \A x \in Uid : phase[x] = "LOST" => losses > 0

\* A drop in the SOLID phase that loses a copy gets another one while there
\* is space for it (deleteLostDrops).
SolidAgain ==
  \A d \in Drops :
    phase[d] = "SOLID" ~> Cardinality(Alive(d)) >= 2 \/ Unused = {}
=============================================================================
