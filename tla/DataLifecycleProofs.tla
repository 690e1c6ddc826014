------------------------ MODULE DataLifecycleProofs -------------------------
(***************************************************************************)
(* Proofs about DataLifecycle, for any drops, replicas, readers and        *)
(* consumers: what expires after use is kept for its consumers, a drop in  *)
(* the SOLID phase has a replica, and the checker's thread lives as long   *)
(* as nobody changes the dictionary under it.                              *)
(***************************************************************************)
EXTENDS DataLifecycle, TLAPS

\* An order of a set of drops lists each of them once.
LEMMA OrdersProperties ==
  ASSUME NEW S, S \subseteq Uid, NEW s \in Orders(S)
  PROVE  /\ s \in Seq(S)
         /\ \A i, j \in 1..Len(s) : i # j => s[i] # s[j]
         /\ Range(s) = S
  <1> DEFINE n == Cardinality(S)
  <1>1. n \in Nat
    BY LifecycleAssumption
  <1>2. /\ s \in [1..n -> S] /\ \A i, j \in 1..n : i # j => s[i] # s[j]
        /\ \A x \in S : \E i \in 1..n : s[i] = x
    BY DEF Orders, Bijection, Injection, IsInjective, Surjection
  <1> HIDE DEF n
  <1>3. s \in Seq(S) /\ Len(s) = n
    BY <1>1, <1>2
  <1>4. Range(s) = S
    BY <1>2 DEF Range
  <1> QED
    BY <1>2, <1>3, <1>4

\* What Append adds.
LEMMA AppendRange ==
  ASSUME NEW S, NEW s \in Seq(S), NEW e \in S
  PROVE  Range(Append(s, e)) = Range(s) \cup {e}
  <1>1. /\ DOMAIN Append(s, e) = 1..Len(s) + 1 /\ DOMAIN s = 1..Len(s) /\ Len(s) \in Nat
        /\ Append(s, e)[Len(s) + 1] = e /\ \A i \in 1..Len(s) : Append(s, e)[i] = s[i]
    OBVIOUS
  <1>2. \A i \in 1..Len(s) + 1 : i \in 1..Len(s) \/ i = Len(s) + 1
    BY <1>1
  <1> QED
    BY <1>1, <1>2 DEF Range

\* The empty set has one order.
LEMMA EmptyOrder ==
  ASSUME NEW s \in Orders({})
  PROVE  s = <<>>
  <1>1. s \in Seq({})
    BY OrdersProperties
  <1> QED
    BY <1>1

\* What the lost check collects for a drop that has no other instance.
LEMMA CollectsOne ==
  ASSUME NEW S, NEW s \in Seq(S), NEW x \in S, NEW lost \in Orders({})
  PROVE  s \o <<x>> \o lost = Append(s, x)
  BY EmptyOrder

\* A count of losses that stays did not grow.
LEMMA NotGrown ==
  ASSUME NEW n \in Nat
  PROVE  n # n + 1
  OBVIOUS

-----------------------------------------------------------------------------
\* The drops that may expire: their lifespan may have run out, or their
\* consumers are done with them.
Expirable == Lifespan \cup {x \in ExpireAfterUse : AllDone(x)}

\* What the two background threads are about to do stays justified.
ExpiryInv ==
  /\ \A x \in Uid : status[x] \in {"EXPIRED", "DELETED"} => x \in Expirable
  /\ checker.pc = "mark" => AtDrop /\ Item \in Expirable
  /\ collector.pc = "deleted" => collector.list # <<>> /\ Head(collector.list) \in Expirable

\* A completed drop has its data, unless somebody else removed it.
DataInv ==
  /\ losses = 0 => \A x \in Uid : status[x] = "COMPLETED" => x \in stored
  /\ \A d \in announced : status[d] # "INITIALIZED"

Registered == {x \in Uid : \E d \in Drops : x \in instances[d]}

\* The registry: a drop is registered under its own name, its replicas are
\* completed and no other drop's, and what the manager looks after, now or
\* when the checker or the collector started, is registered.
RegistryInv ==
  /\ \A d \in Drops :
       /\ instances[d] \subseteq {d} \cup Copies
       /\ phase[d] = "PLASMA" => instances[d] = {}
       /\ instances[d] # {} => d \in instances[d]
       /\ \A x \in instances[d] \ {d} : d \in Persist /\ status[x] = "COMPLETED"
  /\ \A d, e \in Drops, x \in Uid : x \in instances[d] /\ x \in instances[e] => d = e
  /\ Tracked \subseteq Registered
  /\ \A i \in 1..Len(checker.list) : checker.list[i] \in Registered

Backed(d) ==
  /\ losses = 0 => \E x, y \in Alive(d) : x # y
  /\ losses = 1 => Alive(d) # {}

SolidInv ==
  \A d \in Drops : phase[d] = "SOLID" =>
    /\ d \in Persist
    /\ d \in Lifespan \/ Backed(d)

IInv == TypeOK /\ ExpiryInv /\ DataInv /\ RegistryInv /\ SolidInv

\* The drops found lost so far are distinct and were listed before the one at hand.
Collected ==
  /\ \A i, j \in 1..Len(checker.gone) : checker.gone[i] = checker.gone[j] => i = j
  /\ \A k \in 1..Len(checker.gone) : \E i \in 1..Len(tracked) :
       i < checker.i /\ checker.gone[k] = tracked[i]

\* Nobody changes the dictionary in the middle of a check: the checker's list
\* is the dictionary, what it found lost is a part of what it has seen.
NoIntruder == ~Overlap /\ ~Replication /\ ~Destroys
CheckerInv ==
  /\ checker.pc # "dead" /\ checker.attached
  /\ \A i, j \in 1..Len(tracked) : tracked[i] = tracked[j] => i = j
  /\ \A i \in 1..Len(tracked) : tracked[i] \in Drops /\ phase[tracked[i]] # "PLASMA"
  /\ \A d \in Drops : instances[d] \subseteq {d}
  /\ checker.pc # "idle" => checker.list = tracked
  /\ checker.pc \in {"expire", "mark"} => checker.gone = <<>>
  /\ checker.pc = "lost" => Collected

-----------------------------------------------------------------------------
\* A registered drop or replica is registered under one name, its oid.
LEMMA OidProperties ==
  ASSUME TypeOK, RegistryInv, NEW x \in Registered
  PROVE  /\ x \in Uid /\ Oid(x) \in Drops /\ x \in instances[Oid(x)]
         /\ \A d \in Drops : x \in instances[d] => d = Oid(x)
  <1>1. PICK d \in Drops : x \in instances[d]
    BY DEF Registered
  <1>2. Oid(x) \in Drops /\ x \in instances[Oid(x)]
    BY <1>1 DEF Oid
  <1>3. x \in Uid
    BY <1>1 DEF TypeOK
  <1> QED
    BY <1>2, <1>3 DEF RegistryInv

\* The drop the checker is at is registered.
LEMMA ItemRegistered ==
  ASSUME TypeOK, RegistryInv, AtDrop
  PROVE  Item \in Registered /\ Item \in Uid /\ checker.i \in 1..Len(checker.list)
  <1>1. checker.i \in Nat \ {0} /\ checker.list \in Seq(Uid)
    BY DEF TypeOK
  <1>2. checker.i \in 1..Len(checker.list)
    BY <1>1 DEF AtDrop
  <1> QED
    BY <1>1, <1>2 DEF Item, RegistryInv

\* What is left of the dictionary (remove_drops, deleteLostDrops).
LEMMA RemovesProperties ==
  ASSUME TypeOK, NEW gone, Removes(gone)
  PROVE  /\ tracked' \in Seq(Uid)
         /\ \A i, j \in 1..Len(tracked') : i # j => tracked'[i] # tracked'[j]
         /\ Range(tracked') = Tracked \ gone
  <1>1. tracked \in Seq(Uid)
    BY DEF TypeOK
  <1>2. Tracked \subseteq Uid
    BY <1>1 DEF Tracked, Range
  <1>3. tracked' \in Orders(Tracked \ gone)
    BY DEF Removes
  <1>4. /\ tracked' \in Seq(Tracked \ gone)
        /\ \A i, j \in 1..Len(tracked') : i # j => tracked'[i] # tracked'[j]
        /\ Range(tracked') = Tracked \ gone
    BY <1>2, <1>3, OrdersProperties
  <1> QED
    BY <1>2, <1>4

\* A replica is made of a registered drop: the types stay.
LEMMA ReplicateType ==
  ASSUME TypeOK, NEW x \in Uid, NEW copy \in Unused, Oid(x) \in Drops, Replicate(x, copy)
  PROVE  /\ status' \in [Uid -> {"INITIALIZED", "COMPLETED", "EXPIRED", "DELETED"}]
         /\ phase' \in [Uid -> {"PLASMA", "GAS", "SOLID", "LOST"}]
         /\ stored' \subseteq Uid /\ tracked' \in Seq(Uid)
         /\ instances' \in [Drops -> SUBSET Uid]
  <1>1. copy \in Uid
    BY DEF Unused, Uid
  <1>2. /\ status \in [Uid -> {"INITIALIZED", "COMPLETED", "EXPIRED", "DELETED"}]
        /\ phase \in [Uid -> {"PLASMA", "GAS", "SOLID", "LOST"}]
        /\ stored \subseteq Uid /\ tracked \in Seq(Uid) /\ instances \in [Drops -> SUBSET Uid]
    BY DEF TypeOK
  <1>3. stored' \subseteq Uid /\ tracked' \in Seq(Uid)
    BY <1>1, <1>2 DEF Replicate
  <1>4. instances' \in [Drops -> SUBSET Uid]
    BY <1>1, <1>2 DEF Replicate
  <1>5. /\ status' \in [Uid -> {"INITIALIZED", "COMPLETED", "EXPIRED", "DELETED"}]
        /\ phase' \in [Uid -> {"PLASMA", "GAS", "SOLID", "LOST"}]
    BY <1>1, <1>2, Zenon DEF Replicate
  <1> QED
    BY <1>3, <1>4, <1>5

\* Completing a drop keeps the types.
LEMMA CompleteType ==
  ASSUME TypeOK, RegistryInv, NEW d \in Drops, Complete(d)
  PROVE  /\ status' \in [Uid -> {"INITIALIZED", "COMPLETED", "EXPIRED", "DELETED"}]
         /\ phase' \in [Uid -> {"PLASMA", "GAS", "SOLID", "LOST"}]
         /\ stored' \subseteq Uid /\ tracked' \in Seq(Uid)
         /\ instances' \in [Drops -> SUBSET Uid] /\ announced' \subseteq Drops
  <1>0. d \in Uid
    BY DEF Uid
  <1>1. announced' \subseteq Drops
    BY DEF TypeOK, Complete
  <1>2. ASSUME d \in Tracked, NEW copy \in Unused, Replicate(d, copy) PROVE Oid(d) \in Drops
    BY <1>2, OidProperties DEF RegistryInv
  <1>3. CASE \E copy \in Unused : d \in Tracked /\ Replicate(d, copy)
    BY <1>0, <1>1, <1>2, <1>3, ReplicateType
  <1>4. CASE /\ status' = [status EXCEPT ![d] = "COMPLETED"]
             /\ stored' = stored \cup {d}
             /\ UNCHANGED <<phase, dlmVars>>
    BY <1>0, <1>1, <1>4 DEF TypeOK, dlmVars
  <1> QED
    BY <1>3, <1>4 DEF Complete

\* Producing drops keeps the types.
LEMMA ProduceType ==
  ASSUME TypeOK, RegistryInv, NEW d \in Drops, AddDrop(d) \/ Produce(d) \/ Age(d)
  PROVE  TypeOK'
  <1>0. d \in Uid
    BY DEF Uid
  <1>1. CASE AddDrop(d)
    <2>1. /\ phase' \in [Uid -> {"PLASMA", "GAS", "SOLID", "LOST"}]
          /\ tracked' \in Seq(Uid)
          /\ instances' \in [Drops -> SUBSET Uid]
      BY <1>0, <1>1 DEF TypeOK, AddDrop
    <2> QED
      BY <1>1, <2>1 DEF TypeOK, AddDrop, readVars, envVars
  <1>2. CASE ProducerFinished(d)
    <2>1. finished' \in [Drops -> Nat] /\ refCount' \in [Uid -> Int]
      BY <1>0, <1>2 DEF TypeOK, ProducerFinished
    <2>2. CASE Complete(d)
      BY <1>2, <2>1, <2>2, CompleteType, Zenon DEF TypeOK, ProducerFinished, envVars
    <2>3. CASE UNCHANGED <<status, phase, announced, stored, dlmVars>>
      BY <1>2, <2>1, <2>3 DEF TypeOK, ProducerFinished, envVars, dlmVars
    <2> QED
      BY <1>2, <2>2, <2>3 DEF ProducerFinished
  <1>3. CASE Trigger(d)
    <2>1. Complete(d) /\ UNCHANGED <<finished, readVars, envVars, checker, collector>>
      BY <1>3 DEF Trigger
    <2> QED
      BY <2>1, CompleteType, Zenon DEF TypeOK, readVars, envVars
  <1>4. CASE Age(d)
    BY <1>4 DEF TypeOK, Age, dropVars, readVars, dlmVars
  <1> QED
    BY <1>1, <1>2, <1>3, <1>4 DEF Produce

\* Reading drops keeps the types.
LEMMA ReadType ==
  ASSUME TypeOK, NEW r \in Reader,
         \/ r \in Apps /\ (StartApp(r) \/ SkipApp(r) \/ FinishApp(r))
         \/ Opened(r) \/ \E d \in Drops : Open(r, d) \/ Close(r, d)
  PROVE  TypeOK'
  <1> DEFINE Exec == [Apps -> {"NOT_RUN", "RUNNING", "FINISHED", "ERROR", "SKIPPED"}]
  <1>0. /\ execStatus \in Exec /\ opening \in [Reader -> Drops \cup {None}]
        /\ refCount \in [Uid -> Int] /\ rios \in [Uid -> SUBSET Reader]
        /\ leaked \subseteq Reader \X Drops /\ Drops \subseteq Uid
    BY DEF TypeOK, Uid
  <1>1. CASE r \in Apps /\ (StartApp(r) \/ SkipApp(r) \/ FinishApp(r))
    <2>1. execStatus' \in Exec
      BY <1>0, <1>1 DEF StartApp, SkipApp, FinishApp
    <2> QED
      BY <1>1, <2>1 DEF TypeOK, StartApp, SkipApp, FinishApp, dropVars, envVars, dlmVars
  <1>2. Raise(r) \/ UNCHANGED execStatus => execStatus' \in Exec
    BY <1>0 DEF Raise
  <1> HIDE DEF Exec
  <1>3. ASSUME NEW d \in Drops, Open(r, d) PROVE TypeOK'
    <2>1. execStatus' \in Exec
      BY <1>2, <1>3 DEF Open
    <2>2. opening' \in [Reader -> Drops \cup {None}]
      BY <1>0, <1>3 DEF Open
    <2> QED
      BY <1>3, <2>1, <2>2 DEF TypeOK, Open, dropVars, envVars, dlmVars, Exec
  <1>4. ASSUME NEW d \in Drops, Close(r, d) PROVE TypeOK'
    <2>1. execStatus' \in Exec
      BY <1>2, <1>4 DEF Close
    <2>2. refCount' \in [Uid -> Int]
      BY <1>0, <1>4 DEF Close
    <2>3. rios' \in [Uid -> SUBSET Reader]
      BY <1>0, <1>4 DEF Close
    <2> QED
      BY <1>4, <2>1, <2>2, <2>3 DEF TypeOK, Close, dropVars, envVars, dlmVars, Exec
  <1>5. CASE Opened(r)
    <2> DEFINE d == opening[r]
    <2>1. d \in Drops /\ d \in Uid
      BY <1>0, <1>5 DEF Opened
    <2>2. execStatus' \in Exec
      BY <1>2, <1>5 DEF Opened
    <2>3. opening' \in [Reader -> Drops \cup {None}]
      BY <1>0, <1>5 DEF Opened
    <2>4. refCount' \in [Uid -> Int]
      BY <1>0, <1>5, <2>1 DEF Opened
    <2>5. rios' \in [Uid -> SUBSET Reader]
      BY <1>0, <1>5, <2>1 DEF Opened
    <2>6. leaked' \subseteq Reader \X Drops
      BY <1>0, <1>5, <2>1 DEF Opened
    <2> QED
      BY <1>5, <2>2, <2>3, <2>4, <2>5, <2>6 DEF TypeOK, Opened, dropVars, envVars, dlmVars, Exec
  <1> QED
    BY <1>1, <1>3, <1>4, <1>5

\* What the checker collects in deleteLostDrops are drops.
LEMMA LostCheckGone ==
  ASSUME TypeOK, RegistryInv, AtDrop, NEW S \in SUBSET instances[Oid(Item)], NEW lost \in Orders(S)
  PROVE  checker.gone \o <<Item>> \o lost \in Seq(Uid)
  <1>1. Item \in Uid /\ Oid(Item) \in Drops
    BY ItemRegistered, OidProperties
  <1>2. S \subseteq Uid
    BY <1>1 DEF TypeOK
  <1>3. lost \in Seq(Uid) /\ checker.gone \in Seq(Uid) /\ <<Item>> \in Seq(Uid)
    <2>1. lost \in Seq(S)
      BY <1>2, OrdersProperties, Zenon
    <2> QED
      BY <1>1, <1>2, <2>1 DEF TypeOK
  <1>4. checker.gone \o <<Item>> \in Seq(Uid)
    BY <1>3
  <1> HIDE DEF Item
  <1> QED
    BY <1>3, <1>4

Removing ==
  \E S \in SUBSET instances[Oid(Item)] : \E lost \in Orders(S) :
    checker' = [checker EXCEPT !.i = @ + 1, !.gone = @ \o <<Item>> \o lost]

\* What one round of deleteLostDrops does: nothing, or the thread ends, or a
\* replica of the lost drop is copied, or the lost drop goes.
LEMMA LostCheckCases ==
  ASSUME LostCheck
  PROVE  /\ checker.pc = "lost" /\ AtDrop /\ ~Changed
         /\ UNCHANGED <<readVars, envVars, collector>>
         /\ \/ (GoesOn \/ Dies) /\ UNCHANGED <<dropVars, dlmVars>>
            \/ /\ \E r \in instances[Oid(Item)] \ {Item}, copy \in Unused :
                    status[r] = "COMPLETED" /\ Replicate(r, copy)
               /\ Removing /\ UNCHANGED <<finished, announced>>
            \/ /\ phase' = [phase EXCEPT ![Item] = "LOST"] \/ phase' = phase
               /\ Removing /\ UNCHANGED <<status, finished, announced, stored, dlmVars>>
  <1> DEFINE siblings == instances[Oid(Item)] \ {Item}
             replicas == {s \in siblings : ~Disappeared(s)}
             removing == \E lost \in Orders(siblings \ replicas) :
                           checker' = [checker EXCEPT !.i = @ + 1, !.gone = @ \o <<Item>> \o lost]
  <1>1. removing => Removing
    <2>1. siblings \ replicas \in SUBSET instances[Oid(Item)]
      OBVIOUS
    <2> HIDE DEF siblings, replicas
    <2> QED
      BY <2>1, Zenon DEF Removing
  <1>2. /\ checker.pc = "lost" /\ AtDrop /\ ~Changed
        /\ UNCHANGED <<readVars, envVars, collector>>
    BY Zenon DEF LostCheck
  <1>3. \/ (GoesOn \/ Dies) /\ UNCHANGED <<dropVars, dlmVars>>
        \/ /\ \E r \in replicas, copy \in Unused : status[r] = "COMPLETED" /\ Replicate(r, copy)
           /\ removing /\ UNCHANGED <<finished, announced>>
        \/ /\ phase' = IF replicas = {} THEN [phase EXCEPT ![Item] = "LOST"] ELSE phase
           /\ removing /\ UNCHANGED <<status, finished, announced, stored, dlmVars>>
    BY Zenon DEF LostCheck
  <1>4. replicas \subseteq siblings
    OBVIOUS
  <1> HIDE DEF replicas, removing
  <1>5. CASE (GoesOn \/ Dies) /\ UNCHANGED <<dropVars, dlmVars>>
    BY <1>2, <1>5, Zenon
  <1>6. CASE /\ \E r \in replicas, copy \in Unused : status[r] = "COMPLETED" /\ Replicate(r, copy)
             /\ removing /\ UNCHANGED <<finished, announced>>
    <2>1. \E r \in siblings, copy \in Unused : status[r] = "COMPLETED" /\ Replicate(r, copy)
      BY <1>4, <1>6, Zenon
    <2> QED
      BY <1>1, <1>2, <1>6, <2>1, Zenon
  <1>7. CASE /\ phase' = IF replicas = {} THEN [phase EXCEPT ![Item] = "LOST"] ELSE phase
             /\ removing /\ UNCHANGED <<status, finished, announced, stored, dlmVars>>
    <2>1. phase' = [phase EXCEPT ![Item] = "LOST"] \/ phase' = phase
      BY <1>7
    <2> QED
      BY <1>1, <1>2, <1>7, <2>1, Zenon
  <1> QED
    BY <1>3, <1>5, <1>6, <1>7, Zenon

\* The steps of the checker keep the types.
LEMMA CheckType ==
  ASSUME TypeOK, RegistryInv, Check
  PROVE  TypeOK'
  <1> DEFINE Pcs == {"idle", "expire", "mark", "lost", "dead"}
             Positions == Nat \ {0}
             Lists == Seq(Uid)
             CheckerSet == [pc : Pcs, i : Positions, list : Lists, attached : BOOLEAN, gone : Lists]
  <1>0. /\ checker \in CheckerSet /\ tracked \in Lists /\ <<>> \in Lists /\ 1 \in Positions
        /\ {"idle", "expire", "lost", "mark", "dead"} \subseteq Pcs
        /\ checker.i + 1 \in Positions
    BY DEF TypeOK
  <1> HIDE DEF Pcs, Positions, Lists
  <1>1. ASSUME NEW pc \in Pcs, Iterates(pc) \/ Goes(pc) \/ GoesOn \/ Dies
        PROVE  checker' \in CheckerSet
    <2>1. CASE Iterates(pc)
      BY <1>0, <2>1 DEF Iterates
    <2>2. CASE Goes(pc) \/ GoesOn \/ Dies
      BY <1>0, <2>2 DEF Goes, GoesOn, Dies
    <2> QED
      BY <1>1, <2>1, <2>2
  <1>2. CASE CheckStart \/ CheckChanged \/ ExpireCheck \/ ExpireEnd
    <2>1. checker' \in CheckerSet
      BY <1>0, <1>1, <1>2 DEF CheckStart, CheckChanged, ExpireCheck, ExpireEnd
    <2>2. UNCHANGED <<dropVars, readVars, envVars, dlmVars, collector>>
      BY <1>2 DEF CheckStart, CheckChanged, ExpireCheck, ExpireEnd
    <2> QED
      BY <2>1, <2>2 DEF TypeOK, dropVars, readVars, envVars, dlmVars, Pcs, Positions, Lists
  <1>3. CASE ExpireMark
    <2>1. checker' \in CheckerSet
      BY <1>0, <1>3, Zenon DEF ExpireMark
    <2>2. status' \in [Uid -> {"INITIALIZED", "COMPLETED", "EXPIRED", "DELETED"}]
      BY <1>3, Zenon DEF ExpireMark, TypeOK
    <2> QED
      BY <1>3, <2>1, <2>2 DEF TypeOK, ExpireMark, readVars, envVars, dlmVars, Pcs, Positions, Lists
  <1>4. CASE LostEnd
    <2>1. checker' \in CheckerSet
      BY <1>0, <1>1, <1>4 DEF LostEnd
    <2>2. PICK gone : Removes(gone)
      BY <1>4 DEF LostEnd
    <2>3. tracked' \in Seq(Uid)
      BY <2>2, RemovesProperties
    <2> QED
      BY <1>4, <2>1, <2>3, Zenon DEF TypeOK, LostEnd, dropVars, readVars, envVars, Pcs, Positions, Lists
  <1>5. CASE LostCheck
    <2>1. AtDrop /\ UNCHANGED <<readVars, envVars, collector>>
      BY <1>5, LostCheckCases
    <2>2. Removing => checker' \in CheckerSet
      <3>1. \A S \in SUBSET instances[Oid(Item)] : \A lost \in Orders(S) :
              checker.gone \o <<Item>> \o lost \in Lists
        BY <2>1, LostCheckGone DEF Lists
      <3> QED
        BY <1>0, <3>1, Zenon DEF Removing
    <2>3. Item \in Registered /\ Item \in Uid /\ Oid(Item) \in Drops
      BY <2>1, ItemRegistered, OidProperties
    <2>4. CASE (GoesOn \/ Dies) /\ UNCHANGED <<dropVars, dlmVars>>
      BY <1>0, <1>1, <2>1, <2>4 DEF TypeOK, dropVars, readVars, envVars, dlmVars, Pcs, Positions, Lists
    <2>5. CASE /\ \E r \in instances[Oid(Item)] \ {Item}, copy \in Unused :
                    status[r] = "COMPLETED" /\ Replicate(r, copy)
               /\ Removing /\ UNCHANGED <<finished, announced>>
      <3>1. PICK r \in instances[Oid(Item)], copy \in Unused : Replicate(r, copy)
        BY <2>5
      <3>2. r \in Registered
        BY <2>3 DEF Registered, TypeOK
      <3>3. r \in Uid /\ Oid(r) \in Drops
        BY <3>2, OidProperties
      <3> QED
        BY <2>1, <2>2, <2>5, <3>1, <3>3, ReplicateType, Zenon DEF TypeOK, readVars, envVars, Pcs, Positions, Lists
    <2>6. CASE /\ phase' = [phase EXCEPT ![Item] = "LOST"] \/ phase' = phase
               /\ Removing /\ UNCHANGED <<status, finished, announced, stored, dlmVars>>
      <3>1. phase' \in [Uid -> {"PLASMA", "GAS", "SOLID", "LOST"}]
        BY <2>3, <2>6, Zenon DEF TypeOK
      <3> QED
        BY <2>1, <2>2, <2>6, <3>1, Zenon DEF TypeOK, readVars, envVars, dlmVars, Pcs, Positions, Lists
    <2> QED
      BY <1>5, <2>4, <2>5, <2>6, LostCheckCases
  <1> QED
    BY <1>2, <1>3, <1>4, <1>5 DEF Check

\* Every step keeps the types.
LEMMA TypeStep ==
  ASSUME TypeOK, RegistryInv, ExpiryInv, [Next]_vars
  PROVE  TypeOK'
  <1>1. ASSUME NEW d \in Drops, AddDrop(d) \/ Produce(d) \/ Age(d) PROVE TypeOK'
    BY <1>1, ProduceType
  <1>2. ASSUME NEW a \in Apps, AppStep(a) \/ SkipApp(a) PROVE TypeOK'
    <2>1. a \in Reader
      BY DEF Reader
    <2> QED
      BY <1>2, <2>1, ReadType DEF AppStep
  <1>3. ASSUME NEW v \in Viewers, View(v) PROVE TypeOK'
    <2>1. v \in Reader
      BY DEF Reader
    <2> QED
      BY <1>3, <2>1, ReadType DEF View
  <1>4. ASSUME NEW x \in Uid, Lose(x) PROVE TypeOK'
    BY <1>4 DEF TypeOK, Lose, readVars, dlmVars
  <1>5. CASE Check
    BY <1>5, CheckType
  <1>6. CASE CollectStep
    <2> DEFINE Pcs == {"idle", "scan", "deleted", "dead"}
               Lists == Seq(Uid)
    <2>1. /\ collector \in [pc : Pcs, list : Lists] /\ tracked \in Lists
          /\ {"idle", "scan", "deleted", "dead"} \subseteq Pcs
          /\ collector.list # <<>> => Tail(collector.list) \in Lists
      BY DEF TypeOK
    <2> HIDE DEF Pcs, Lists
    <2>2. CASE CollectStart
      BY <2>1, <2>2 DEF TypeOK, CollectStart, dropVars, readVars, envVars, dlmVars, Pcs, Lists
    <2>3. CASE Collect
      <3>1. collector' \in [pc : Pcs, list : Lists]
        BY <2>1, <2>3, Zenon DEF Collect
      <3>2. stored' \subseteq Uid
        BY <2>3 DEF Collect, TypeOK
      <3> QED
        BY <2>3, <3>1, <3>2 DEF TypeOK, Collect, readVars, envVars, dlmVars, Pcs, Lists
    <2>4. CASE CollectMark
      <3>1. collector' \in [pc : Pcs, list : Lists]
        BY <2>1, <2>4 DEF CollectMark, ExpiryInv
      <3>2. status' \in [Uid -> {"INITIALIZED", "COMPLETED", "EXPIRED", "DELETED"}]
        BY <2>4, Zenon DEF CollectMark, TypeOK
      <3> QED
        BY <2>4, <3>1, <3>2 DEF TypeOK, CollectMark, readVars, envVars, dlmVars, Pcs, Lists
    <2>5. CASE CollectEnd
      <3>1. collector' \in [pc : Pcs, list : Lists]
        BY <2>1, <2>5 DEF CollectEnd
      <3> QED
        BY <2>5, <3>1, Zenon DEF TypeOK, CollectEnd, dropVars, readVars, envVars, dlmVars, Pcs, Lists
    <2> QED
      BY <1>6, <2>2, <2>3, <2>4, <2>5 DEF CollectStep
  <1>7. CASE RemoveDrops
    <2>1. tracked' \in Seq(Uid)
      BY <1>7, RemovesProperties DEF RemoveDrops
    <2>2. checker' \in [pc : {"idle", "expire", "mark", "lost", "dead"}, i : Nat \ {0},
                        list : Seq(Uid), attached : BOOLEAN, gone : Seq(Uid)]
      BY <1>7, Zenon DEF RemoveDrops, TypeOK
    <2> QED
      BY <1>7, <2>1, <2>2, Zenon DEF TypeOK, RemoveDrops, dropVars, readVars, envVars
  <1>8. CASE UNCHANGED vars
    BY <1>8 DEF TypeOK, vars, dropVars, readVars, envVars, dlmVars
  <1> QED
    BY <1>1, <1>2, <1>3, <1>4, <1>5, <1>6, <1>7, <1>8 DEF Next

\* Consumers that are done stay so: the drops that may expire, still may.
LEMMA ExpirableGrows ==
  ASSUME TypeOK, [Next]_vars
  PROVE  Expirable \subseteq Expirable'
  <1>1. execStatus \in [Apps -> {"NOT_RUN", "RUNNING", "FINISHED", "ERROR", "SKIPPED"}]
    BY DEF TypeOK
  <1> DEFINE Stay == \A a \in Apps : execStatus[a] \in {"FINISHED", "ERROR"} =>
                                     execStatus'[a] \in {"FINISHED", "ERROR"}
  <1>2. SUFFICES Stay
    <2>1. \A x \in ExpireAfterUse : Consumers[x] \subseteq Apps
      BY LifecycleAssumption
    <2> QED
      BY <2>1 DEF Expirable, AllDone
  <1>3. ASSUME NEW r, Raise(r) PROVE Stay
    BY <1>1, <1>3 DEF Raise
  <1>4. ASSUME UNCHANGED execStatus PROVE Stay
    BY <1>4
  <1>5. ASSUME NEW a \in Apps, StartApp(a) \/ SkipApp(a) \/ FinishApp(a) PROVE Stay
    BY <1>1, <1>5 DEF StartApp, SkipApp, FinishApp
  <1> HIDE DEF Stay
  <1>6. ASSUME NEW r, \/ Opened(r) \/ \E d \in Drops : Open(r, d) \/ Close(r, d) PROVE Stay
    BY <1>3, <1>4, <1>6, Zenon DEF Opened, Open, Close
  <1>7. ASSUME NEW d \in Drops, AddDrop(d) \/ Produce(d) \/ Age(d) PROVE Stay
    BY <1>4, <1>7 DEF AddDrop, Produce, ProducerFinished, Trigger, Age, readVars
  <1>8. CASE \/ Check \/ CollectStep \/ RemoveDrops \/ UNCHANGED vars \/ \E x \in Uid : Lose(x)
    <2>1. UNCHANGED readVars
      BY <1>8, Zenon DEF Check, CheckStart, CheckChanged, ExpireCheck, ExpireMark, ExpireEnd, LostCheck,
                  LostEnd, CollectStep, CollectStart, Collect, CollectMark, CollectEnd,
                  RemoveDrops, vars, Lose
    <2> QED
      BY <1>4, <2>1 DEF readVars
  <1> QED
    BY <1>5, <1>6, <1>7, <1>8 DEF Next, AppStep, View

\* How a step may change the states of drops and their data: a drop is completed
\* with its data, only what may expire does, only what expired is deleted, and
\* nothing else is lost than what somebody else removes.
DataStep ==
  /\ \A x \in Uid :
       /\ status[x] = "COMPLETED" => status'[x] = "COMPLETED" \/ x \in Expirable
       /\ status'[x] \in {"EXPIRED", "DELETED"} =>
            status[x] \in {"EXPIRED", "DELETED"} \/ x \in Expirable
       /\ status[x] # "INITIALIZED" => status'[x] # "INITIALIZED"
       /\ status'[x] = "COMPLETED" => status[x] = "COMPLETED" \/ x \in stored'
       /\ x \in stored => x \in stored' \/ status[x] = "EXPIRED" \/ losses' = losses + 1
  /\ losses' = losses \/ \E y \in Uid : Lose(y)
  /\ \A d \in announced' : d \in announced \/ status'[d] = "COMPLETED"

\* A step that leaves these alone.
LEMMA DataStutter ==
  ASSUME UNCHANGED <<status, stored, losses, announced>>
  PROVE  DataStep
  BY DEF DataStep

\* replicateDrop completes the replica with its data.
LEMMA ReplicateData ==
  ASSUME TypeOK, NEW x \in Uid, NEW copy \in Unused, Replicate(x, copy),
         status[x] \in {"INITIALIZED", "COMPLETED"}, UNCHANGED losses,
         announced' \subseteq announced \cup {x}
  PROVE  DataStep
  <1>1. status \in [Uid -> {"INITIALIZED", "COMPLETED", "EXPIRED", "DELETED"}]
    BY DEF TypeOK
  <1>2. copy \in Uid /\ status[copy] = "INITIALIZED"
    BY DEF Unused, Uid
  <1>3. /\ \A y \in Uid : status'[y] = IF y \in {x, copy} THEN "COMPLETED" ELSE status[y]
        /\ stored' = stored \cup {x, copy}
    BY <1>1, <1>2 DEF Replicate
  <1> QED
    BY <1>2, <1>3 DEF DataStep

\* setCompleted completes the drop with its data, replicated or not.
LEMMA CompleteData ==
  ASSUME TypeOK, NEW d \in Drops, Complete(d), UNCHANGED losses
  PROVE  DataStep
  <1>0. d \in Uid /\ status \in [Uid -> {"INITIALIZED", "COMPLETED", "EXPIRED", "DELETED"}]
    BY DEF TypeOK, Uid
  <1>1. status[d] = "INITIALIZED" /\ announced' \subseteq announced \cup {d}
    BY DEF Complete
  <1>2. ASSUME NEW copy \in Unused, Replicate(d, copy) PROVE DataStep
    BY <1>0, <1>1, <1>2, ReplicateData
  <1>3. CASE status' = [status EXCEPT ![d] = "COMPLETED"] /\ stored' = stored \cup {d}
    <2>1. \A y \in Uid : status'[y] = IF y = d THEN "COMPLETED" ELSE status[y]
      BY <1>0, <1>3
    <2> QED
      BY <1>0, <1>1, <1>3, <2>1 DEF DataStep
  <1> QED
    BY <1>2, <1>3 DEF Complete

\* Each action is such a step.
LEMMA DataEffects ==
  ASSUME TypeOK, RegistryInv, ExpiryInv, [Next]_vars
  PROVE  DataStep
  <1>0. /\ status \in [Uid -> {"INITIALIZED", "COMPLETED", "EXPIRED", "DELETED"}]
        /\ losses \in Nat
    BY DEF TypeOK
  <1>1. ASSUME NEW d \in Drops, AddDrop(d) \/ Produce(d) \/ Age(d) PROVE DataStep
    <2>1. CASE UNCHANGED <<status, stored, losses, announced>>
      BY <2>1, DataStutter
    <2>2. CASE Complete(d) /\ UNCHANGED losses
      BY <2>2, CompleteData
    <2> QED
      BY <1>1, <2>1, <2>2 DEF AddDrop, Produce, ProducerFinished, Trigger, Age, envVars, dropVars
  <1>2. ASSUME NEW a \in Apps, AppStep(a) \/ SkipApp(a) PROVE DataStep
    <2>1. UNCHANGED <<status, stored, losses, announced>>
      BY <1>2, Zenon DEF AppStep, SkipApp, StartApp, FinishApp, Opened, Open, Close, dropVars, envVars
    <2> QED
      BY <2>1, DataStutter
  <1>3. ASSUME NEW v \in Viewers, View(v) PROVE DataStep
    <2>1. UNCHANGED <<status, stored, losses, announced>>
      BY <1>3, Zenon DEF View, Opened, Open, Close, dropVars, envVars
    <2> QED
      BY <2>1, DataStutter
  <1>4. ASSUME NEW x \in Uid, Lose(x) PROVE DataStep
    BY <1>4 DEF Lose, DataStep
  <1>5. CASE Check
    <2>1. CASE CheckStart \/ CheckChanged \/ ExpireCheck \/ ExpireEnd \/ LostEnd
      <3>1. UNCHANGED <<status, stored, losses, announced>>
        BY <2>1 DEF CheckStart, CheckChanged, ExpireCheck, ExpireEnd, LostEnd, dropVars, envVars
      <3> QED
        BY <3>1, DataStutter
    <2>2. CASE ExpireMark
      <3>1. Item \in Expirable
        BY <2>2 DEF ExpireMark, ExpiryInv
      <3>2. \A y \in Uid : status'[y] = IF y = Item THEN "EXPIRED" ELSE status[y]
        BY <1>0, <2>2 DEF ExpireMark
      <3>3. UNCHANGED <<stored, losses, announced>>
        BY <2>2 DEF ExpireMark, envVars
      <3> QED
        BY <3>1, <3>2, <3>3 DEF DataStep
    <2>3. CASE LostCheck
      <3>1. UNCHANGED losses /\ AtDrop
        BY <2>3, LostCheckCases DEF envVars
      <3>2. CASE UNCHANGED <<status, stored, announced>>
        BY <3>1, <3>2, DataStutter
      <3>3. CASE /\ \E r \in instances[Oid(Item)] \ {Item}, copy \in Unused :
                      status[r] = "COMPLETED" /\ Replicate(r, copy)
                 /\ UNCHANGED <<finished, announced>>
        <4>1. PICK r \in instances[Oid(Item)], copy \in Unused :
                status[r] = "COMPLETED" /\ Replicate(r, copy)
          BY <3>3
        <4>2. Oid(Item) \in Drops
          BY <3>1, ItemRegistered, OidProperties
        <4>3. r \in Uid
          BY <4>2 DEF TypeOK
        <4> QED
          BY <3>1, <3>3, <4>1, <4>3, ReplicateData
      <3> QED
        BY <2>3, <3>2, <3>3, LostCheckCases DEF dropVars
    <2> QED
      BY <1>5, <2>1, <2>2, <2>3 DEF Check
  <1>6. CASE CollectStep
    <2>1. CASE CollectStart \/ CollectEnd
      <3>1. UNCHANGED <<status, stored, losses, announced>>
        BY <2>1 DEF CollectStart, CollectEnd, dropVars, envVars
      <3> QED
        BY <3>1, DataStutter
    <2>2. CASE Collect
      BY <2>2 DEF Collect, DataStep, envVars
    <2>3. CASE CollectMark
      <3>1. Head(collector.list) \in Expirable
        BY <2>3 DEF CollectMark, ExpiryInv
      <3>2. \A y \in Uid : status'[y] = IF y = Head(collector.list) THEN "DELETED" ELSE status[y]
        BY <1>0, <2>3 DEF CollectMark
      <3>3. UNCHANGED <<stored, losses, announced>>
        BY <2>3 DEF CollectMark, envVars
      <3> QED
        BY <3>1, <3>2, <3>3 DEF DataStep
    <2> QED
      BY <1>6, <2>1, <2>2, <2>3 DEF CollectStep
  <1>7. CASE RemoveDrops \/ UNCHANGED vars
    <2>1. UNCHANGED <<status, stored, losses, announced>>
      BY <1>7 DEF RemoveDrops, vars, dropVars, envVars
    <2> QED
      BY <2>1, DataStutter
  <1> QED
    BY <1>1, <1>2, <1>3, <1>4, <1>5, <1>6, <1>7 DEF Next

\* A drop that is completed has its data, until somebody removes it.
LEMMA DataInvStep ==
  ASSUME TypeOK, TypeOK', DataInv, DataStep
  PROVE  DataInv'
  <1>1. ASSUME losses' = 0, NEW x \in Uid, status'[x] = "COMPLETED" PROVE x \in stored'
    <2>1. losses = 0 /\ losses' # losses + 1
      BY <1>1 DEF DataStep, Lose, TypeOK
    <2> QED
      BY <1>1, <2>1 DEF DataStep, DataInv
  <1>2. ASSUME NEW d \in announced' PROVE status'[d] # "INITIALIZED"
    <2>1. d \in Uid
      BY DEF TypeOK, Uid
    <2> QED
      BY <1>2, <2>1 DEF DataStep, DataInv
  <1> QED
    BY <1>1, <1>2 DEF DataInv

\* The state of a background thread is its own, but for remove_drops.
LEMMA ThreadsAlone ==
  ASSUME [Next]_vars
  PROVE  /\ Check \/ RemoveDrops \/ UNCHANGED checker
         /\ CollectStep \/ UNCHANGED collector
  <1>1. ASSUME NEW d \in Drops, AddDrop(d) \/ Produce(d) \/ Age(d) PROVE UNCHANGED <<checker, collector>>
    BY <1>1 DEF AddDrop, Produce, ProducerFinished, Trigger, Age
  <1>2. ASSUME NEW a \in Apps, AppStep(a) \/ SkipApp(a) PROVE UNCHANGED <<checker, collector>>
    BY <1>2, Zenon DEF AppStep, SkipApp, StartApp, FinishApp, Opened, Open, Close
  <1>3. ASSUME NEW v \in Viewers, View(v) PROVE UNCHANGED <<checker, collector>>
    BY <1>3, Zenon DEF View, Opened, Open, Close
  <1>4. ASSUME NEW x \in Uid, Lose(x) PROVE UNCHANGED <<checker, collector>>
    BY <1>4 DEF Lose
  <1>5. Check \/ RemoveDrops => UNCHANGED collector
    BY Zenon DEF Check, CheckStart, CheckChanged, ExpireCheck, ExpireMark, ExpireEnd, LostCheck,
           LostEnd, RemoveDrops
  <1>6. CollectStep => UNCHANGED checker
    BY DEF CollectStep, CollectStart, Collect, CollectMark, CollectEnd
  <1>7. UNCHANGED vars => UNCHANGED <<checker, collector>>
    BY DEF vars
  <1> QED
    BY <1>1, <1>2, <1>3, <1>4, <1>5, <1>6, <1>7 DEF Next

\* What expires may expire, from the check to the mark and from the deletion of
\* the data to its mark.
LEMMA ExpiryStep ==
  ASSUME TypeOK, RegistryInv, ExpiryInv, [Next]_vars
  PROVE  ExpiryInv'
  <1>1. Expirable \subseteq Expirable'
    BY ExpirableGrows
  <1>2. \A x \in Uid : status'[x] \in {"EXPIRED", "DELETED"} => x \in Expirable'
    BY <1>1, DataEffects DEF DataStep, ExpiryInv
  <1>3. ASSUME checker'.pc = "mark"
        PROVE  /\ checker'.i <= Len(checker'.list)
               /\ checker'.list[checker'.i] \in Expirable
    <2>1. checker \in [pc : {"idle", "expire", "mark", "lost", "dead"}, i : Nat \ {0},
                       list : Seq(Uid), attached : BOOLEAN, gone : Seq(Uid)]
      BY DEF TypeOK
    <2>2. CASE checker.pc = "mark" /\ checker'.i = checker.i /\ checker'.list = checker.list
      BY <2>2 DEF ExpiryInv, AtDrop, Item
    <2>3. CASE UNCHANGED checker \/ RemoveDrops
      BY <1>3, <2>1, <2>2, <2>3 DEF RemoveDrops
    <2>4. CASE ExpireCheck
      <3>1. checker'.pc = "mark" => MayExpire(Item) /\ Goes("mark")
        BY <2>1, <2>4 DEF ExpireCheck, GoesOn
      <3>2. MayExpire(Item) => Item \in Expirable
        BY DEF MayExpire, Expirable
      <3>3. AtDrop
        BY <2>4 DEF ExpireCheck
      <3> QED
        BY <1>3, <2>1, <3>1, <3>2, <3>3 DEF Goes, AtDrop, Item
    <2>5. CASE CheckStart \/ CheckChanged \/ ExpireMark \/ ExpireEnd \/ LostEnd
      <3>1. LostEnd => Goes("idle") \/ Dies
        BY Zenon DEF LostEnd
      <3>2. CASE CheckStart \/ ExpireEnd
        BY <1>3, <3>2 DEF CheckStart, ExpireEnd, Iterates
      <3>3. CASE CheckChanged \/ ExpireMark \/ Goes("idle") \/ Dies
        BY <1>3, <2>1, <3>3, Zenon DEF CheckChanged, ExpireMark, Dies, Goes
      <3> QED
        BY <2>5, <3>1, <3>2, <3>3
    <2>6. CASE LostCheck
      BY <1>3, <2>1, <2>6, LostCheckCases, Zenon DEF Removing, GoesOn, Dies
    <2> QED
      BY <2>3, <2>4, <2>5, <2>6, ThreadsAlone DEF Check
  <1>4. ASSUME collector'.pc = "deleted"
        PROVE  collector'.list # <<>> /\ Head(collector'.list) \in Expirable
    <2>1. collector \in [pc : {"idle", "scan", "deleted", "dead"}, list : Seq(Uid)]
      BY DEF TypeOK
    <2>2. CASE UNCHANGED collector
      BY <1>4, <2>2 DEF ExpiryInv
    <2>3. CASE Collect
      <3>1. /\ collector.list # <<>> /\ status[Head(collector.list)] = "EXPIRED"
            /\ collector'.list = collector.list
        BY <1>4, <2>1, <2>3 DEF Collect
      <3>2. Head(collector.list) \in Uid
        BY <2>1, <3>1
      <3> QED
        BY <3>1, <3>2 DEF ExpiryInv
    <2>4. CASE CollectStart \/ CollectMark \/ CollectEnd
      BY <1>4, <2>1, <2>4 DEF CollectStart, CollectMark, CollectEnd
    <2> QED
      BY <2>2, <2>3, <2>4, ThreadsAlone DEF CollectStep
  <1> QED
    BY <1>1, <1>2, <1>3, <1>4 DEF ExpiryInv, AtDrop, Item

\* A replica is registered under the name of its drop, and was under none.
LEMMA InstancesOfReplica ==
  ASSUME TypeOK, RegistryInv, NEW x \in Registered, NEW copy \in Unused, Replicate(x, copy)
  PROVE  /\ copy \in Copies /\ \A e \in Drops : copy \notin instances[e] /\ copy # e
         /\ \A e \in Drops : instances'[e] = IF e = Oid(x) THEN instances[e] \cup {copy} ELSE instances[e]
  <1>1. copy \in Copies /\ status[copy] = "INITIALIZED"
    BY DEF Unused
  <1>2. \A e \in Drops : copy # e
    BY <1>1, LifecycleAssumption
  <1>3. \A e \in Drops : copy \notin instances[e]
    BY <1>1, <1>2 DEF RegistryInv
  <1> QED
    BY <1>1, <1>2, <1>3, Zenon DEF Replicate, TypeOK

\* The registry is left alone, and what is tracked was tracked.
LEMMA RegistryKept ==
  ASSUME TypeOK, TypeOK', RegistryInv, DataStep, UNCHANGED instances,
         Range(tracked') \subseteq Tracked,
         checker'.list = checker.list \/ checker'.list = tracked,
         \A d \in Drops : phase'[d] = "PLASMA" => phase[d] = "PLASMA"
  PROVE  RegistryInv'
  <1>1. ASSUME NEW d \in Drops
        PROVE  /\ instances[d] \subseteq {d} \cup Copies
               /\ phase'[d] = "PLASMA" => instances[d] = {}
               /\ instances[d] # {} => d \in instances[d]
               /\ \A x \in instances[d] \ {d} : d \in Persist /\ status'[x] = "COMPLETED"
    <2>1. \A x \in Copies : x \in Uid /\ x \notin Expirable
      BY LifecycleAssumption DEF Expirable, Uid
    <2>2. \A x \in instances[d] \ {d} : status'[x] = "COMPLETED"
      BY <2>1 DEF RegistryInv, DataStep
    <2> QED
      BY <2>2 DEF RegistryInv
  <1>2. Registered' = Registered
    BY DEF Registered
  <1>3. \A i \in 1..Len(checker'.list) : checker'.list[i] \in Registered
    <2>1. DOMAIN tracked = 1..Len(tracked)
      BY DEF TypeOK
    <2>2. \A i \in 1..Len(tracked) : tracked[i] \in Registered
      BY <2>1, Zenon DEF RegistryInv, Tracked, Range
    <2> QED
      BY <2>2 DEF RegistryInv
  <1> QED
    BY <1>1, <1>2, <1>3 DEF RegistryInv, Tracked

\* A replica is registered.
LEMMA RegistryReplica ==
  ASSUME TypeOK, TypeOK', RegistryInv, DataStep, NEW x \in Registered, NEW copy \in Unused,
         Replicate(x, copy), Oid(x) \in Persist, checker'.list = checker.list
  PROVE  RegistryInv'
  <1> DEFINE o == Oid(x)
  <1>1. /\ copy \in Copies /\ (\A e \in Drops : copy \notin instances[e] /\ copy # e)
        /\ \A e \in Drops : instances'[e] = IF e = o THEN instances[e] \cup {copy} ELSE instances[e]
    BY InstancesOfReplica
  <1>2. o \in Drops /\ x \in instances[o] /\ x \in Uid
    BY OidProperties
  <1>3. /\ status'[copy] = "COMPLETED"
        /\ \A d \in Drops : phase'[d] = "PLASMA" => phase[d] = "PLASMA"
    BY <1>1, <1>2, Zenon DEF Replicate, TypeOK, Uid
  <1> HIDE DEF o
  <1>4. ASSUME NEW d \in Drops
        PROVE  /\ instances'[d] \subseteq {d} \cup Copies
               /\ phase'[d] = "PLASMA" => instances'[d] = {}
               /\ instances'[d] # {} => d \in instances'[d]
               /\ \A y \in instances'[d] \ {d} : d \in Persist /\ status'[y] = "COMPLETED"
    <2>1. \A y \in Copies : y \in Uid /\ y \notin Expirable
      BY LifecycleAssumption, Zenon DEF Expirable, Uid
    <2>2. \A y \in instances[d] \ {d} : d \in Persist /\ status'[y] = "COMPLETED"
      BY <2>1 DEF RegistryInv, DataStep
    <2>3. /\ instances[d] \subseteq {d} \cup Copies
          /\ phase'[d] = "PLASMA" => instances[d] = {}
          /\ instances[d] # {} => d \in instances[d]
      BY <1>3 DEF RegistryInv
    <2>4. CASE d # o
      BY <1>1, <2>2, <2>3, <2>4, Zenon
    <2>5. CASE d = o
      <3>1. instances'[d] = instances[d] \cup {copy} /\ instances[d] # {} /\ d \in Persist
        BY <1>1, <1>2, <2>5, Zenon DEF o
      <3> QED
        BY <1>1, <1>3, <2>2, <2>3, <3>1
    <2> QED
      BY <2>4, <2>5, Zenon
  <1>5. ASSUME NEW d \in Drops, NEW e \in Drops, NEW y \in Uid, y \in instances'[d], y \in instances'[e]
        PROVE  d = e
    <2>1. CASE y = copy
      BY <1>1, <1>5, <2>1, Zenon
    <2>2. CASE y # copy
      <3>1. \A f \in Drops : instances'[f] \subseteq instances[f] \cup {copy}
        BY <1>1, Zenon
      <3>2. y \in instances[d] /\ y \in instances[e]
        BY <1>5, <2>2, <3>1
      <3> QED
        BY <3>2, Zenon DEF RegistryInv
    <2> QED
      BY <2>1, <2>2, Zenon
  <1>6. Registered \cup {copy} \subseteq Registered'
    BY <1>1, <1>2, Zenon DEF Registered, Uid
  <1>7. Tracked' = Tracked \cup {copy}
    <2>1. tracked \in Seq(Uid) /\ copy \in Uid /\ tracked' = Append(tracked, copy)
      BY <1>1 DEF TypeOK, Replicate, Uid
    <2> QED
      BY <2>1, AppendRange DEF Tracked
  <1>8. Tracked' \subseteq Registered'
    BY <1>6, <1>7, Zenon DEF RegistryInv
  <1>9. \A i \in 1..Len(checker'.list) : checker'.list[i] \in Registered'
    BY <1>6, Zenon DEF RegistryInv
  <1> QED
    BY <1>4, <1>5, <1>8, <1>9, Zenon DEF RegistryInv

\* A drop is registered as it is added.
LEMMA RegistryAdded ==
  ASSUME TypeOK, TypeOK', RegistryInv, DataStep, NEW d \in Drops, AddDrop(d)
  PROVE  RegistryInv'
  <1>1. /\ instances[d] = {} /\ UNCHANGED <<status, checker>>
        /\ \A e \in Drops : instances'[e] = IF e = d THEN {d} ELSE instances[e]
        /\ \A e \in Drops : phase'[e] = IF e = d THEN "GAS" ELSE phase[e]
    BY DEF AddDrop, RegistryInv, TypeOK, Uid
  <1>2. \A e \in Drops : d \in instances[e] => e = d
    BY LifecycleAssumption, ZenonT(30) DEF RegistryInv
  <1>4. ASSUME NEW e \in Drops
        PROVE  /\ instances'[e] \subseteq {e} \cup Copies
               /\ phase'[e] = "PLASMA" => instances'[e] = {}
               /\ instances'[e] # {} => e \in instances'[e]
               /\ \A y \in instances'[e] \ {e} : e \in Persist /\ status'[y] = "COMPLETED"
    BY <1>1, ZenonT(30) DEF RegistryInv
  <1>5. ASSUME NEW e \in Drops, NEW f \in Drops, NEW y \in Uid, y \in instances'[e], y \in instances'[f]
        PROVE  e = f
    <2>1. e # d /\ f # d => y \in instances[e] /\ y \in instances[f]
      BY <1>1, <1>5, Zenon
    <2>2. e # f => y # d
      BY <1>1, <1>2, <1>5, Zenon
    <2>3. e = d \/ f = d => y = d
      BY <1>1, <1>5, Zenon
    <2>4. y \in instances[e] /\ y \in instances[f] => e = f
      BY Zenon DEF RegistryInv
    <2> QED
      BY <2>1, <2>2, <2>3, <2>4, Zenon
  <1>6. Registered \cup {d} \subseteq Registered'
    BY <1>1 DEF Registered, Uid
  <1>7. Tracked' = Tracked \cup {d}
    <2>1. tracked \in Seq(Uid) /\ d \in Uid /\ tracked' = Append(tracked, d)
      BY Zenon DEF TypeOK, AddDrop, Uid
    <2> QED
      BY <2>1, AppendRange DEF Tracked
  <1>8. Tracked' \subseteq Registered'
    BY <1>6, <1>7 DEF RegistryInv
  <1>9. \A i \in 1..Len(checker'.list) : checker'.list[i] \in Registered'
    BY <1>1, <1>6 DEF RegistryInv
  <1> QED
    BY <1>4, <1>5, <1>8, <1>9, ZenonT(30) DEF RegistryInv

\* Only drops that are to be persisted get replicas.
LEMMA ReplicaOwner ==
  ASSUME TypeOK, RegistryInv, AtDrop, NEW r \in instances[Oid(Item)] \ {Item}
  PROVE  r \in Registered /\ Oid(r) = Oid(Item) /\ Oid(r) \in Persist
  <1> DEFINE o == Oid(Item)
  <1>1. o \in Drops /\ Item \in instances[o]
    BY ItemRegistered, OidProperties
  <1>2. r \in Registered
    BY <1>1 DEF Registered, TypeOK
  <1>3. Oid(r) = o
    BY <1>1, <1>2, OidProperties
  <1>4. o \in Persist
    BY <1>1, Zenon DEF RegistryInv
  <1> QED
    BY <1>2, <1>3, <1>4

\* A drop that is no replica is registered under its own name.
LEMMA OwnOid ==
  ASSUME TypeOK, RegistryInv, NEW d \in Drops, d \in Registered
  PROVE  Oid(d) = d
  <1>1. Oid(d) \in Drops /\ d \in instances[Oid(d)]
    BY OidProperties
  <1>2. instances[Oid(d)] \subseteq {Oid(d)} \cup Copies
    BY <1>1 DEF RegistryInv
  <1> QED
    BY <1>1, <1>2, LifecycleAssumption, Zenon

\* Each action keeps the registry.
LEMMA RegistryStep ==
  ASSUME TypeOK, TypeOK', RegistryInv, DataStep, [Next]_vars
  PROVE  RegistryInv'
  <1> DEFINE Leaves ==
        /\ UNCHANGED instances /\ Range(tracked') \subseteq Tracked
        /\ checker'.list = checker.list \/ checker'.list = tracked
        /\ \A d \in Drops : phase'[d] = "PLASMA" => phase[d] = "PLASMA"
  <1>0. /\ Leaves => RegistryInv'
        /\ UNCHANGED <<instances, tracked, checker, phase>> => Leaves
    BY RegistryKept DEF Tracked
  <1>1. checker \in [pc : {"idle", "expire", "mark", "lost", "dead"}, i : Nat \ {0},
                     list : Seq(Uid), attached : BOOLEAN, gone : Seq(Uid)]
    BY DEF TypeOK
  <1>2. ASSUME NEW d \in Drops, AddDrop(d) PROVE RegistryInv'
    BY <1>2, RegistryAdded
  <1>3. ASSUME NEW d \in Drops, Produce(d) PROVE RegistryInv'
    <2>1. UNCHANGED checker /\ (Complete(d) \/ UNCHANGED <<instances, tracked, phase>>)
      BY <1>3, Zenon DEF Produce, ProducerFinished, Trigger, dlmVars
    <2>2. \/ \E copy \in Unused : d \in Persist /\ d \in Tracked /\ Replicate(d, copy)
          \/ UNCHANGED <<instances, tracked, phase>>
      BY <2>1 DEF Complete, dlmVars
    <2>3. ASSUME NEW copy \in Unused, d \in Persist, d \in Tracked, Replicate(d, copy)
          PROVE  RegistryInv'
      <3>1. d \in Registered
        BY <2>3, Zenon DEF RegistryInv
      <3>2. Oid(d) \in Persist
        BY <2>3, <3>1, OwnOid
      <3> QED
        BY <2>1, <2>3, <3>1, <3>2, RegistryReplica, Zenon
    <2> QED
      BY <1>0, <2>1, <2>2, <2>3
  <1>4. CASE LostCheck
    <2>1. AtDrop
      BY <1>4, LostCheckCases
    <2>2. (Removing \/ GoesOn \/ Dies) => checker'.list = checker.list
      BY <1>1, Zenon DEF Removing, GoesOn, Dies
    <2>3. CASE \E r \in instances[Oid(Item)] \ {Item}, copy \in Unused :
                  status[r] = "COMPLETED" /\ Replicate(r, copy) /\ Removing
      BY <2>1, <2>2, <2>3, ReplicaOwner, RegistryReplica
    <2>4. CASE /\ UNCHANGED <<instances, tracked>> /\ (Removing \/ GoesOn \/ Dies)
               /\ phase' = [phase EXCEPT ![Item] = "LOST"] \/ phase' = phase
      <3>1. \A d \in Drops : phase'[d] = "PLASMA" => phase[d] = "PLASMA"
        BY <2>4 DEF TypeOK, Uid
      <3> QED
        BY <1>0, <2>2, <2>4, <3>1 DEF Tracked
    <2> QED
      BY <1>4, <2>3, <2>4, LostCheckCases, Zenon DEF dropVars, dlmVars
  <1>5. CASE LostEnd \/ RemoveDrops
    <2>1. PICK gone : Removes(gone)
      BY <1>5 DEF LostEnd, RemoveDrops
    <2>2. Range(tracked') \subseteq Tracked
      BY <2>1, RemovesProperties
    <2>3. UNCHANGED <<instances, phase>>
      BY <1>5 DEF LostEnd, RemoveDrops, dropVars
    <2>4. checker'.list = checker.list
      <3>1. LostEnd => Goes("idle") \/ Dies
        BY Zenon DEF LostEnd
      <3> QED
        BY <1>1, <1>5, <3>1 DEF Goes, Dies, RemoveDrops
    <2> QED
      BY <1>0, <2>2, <2>3, <2>4
  <1>6. CASE CheckStart \/ CheckChanged \/ ExpireCheck \/ ExpireMark \/ ExpireEnd
    <2>1. UNCHANGED <<instances, tracked, phase>>
      BY <1>6 DEF CheckStart, CheckChanged, ExpireCheck, ExpireMark, ExpireEnd, dropVars, dlmVars
    <2>2. checker'.list = checker.list \/ checker'.list = tracked
      <3>1. CASE CheckStart \/ ExpireEnd
        BY <3>1 DEF CheckStart, ExpireEnd, Iterates
      <3>2. CASE CheckChanged \/ ExpireCheck \/ ExpireMark
        BY <1>1, <3>2, Zenon DEF CheckChanged, ExpireCheck, ExpireMark, Dies, Goes, GoesOn
      <3> QED
        BY <1>6, <3>1, <3>2
    <2> QED
      BY <1>0, <2>1, <2>2 DEF Tracked
  <1> HIDE DEF Leaves
  <1>7. ASSUME NEW d \in Drops, Age(d) PROVE RegistryInv'
    BY <1>0, <1>7 DEF Age, dropVars, dlmVars
  <1>8. ASSUME NEW a \in Apps, AppStep(a) \/ SkipApp(a) PROVE RegistryInv'
    <2>1. UNCHANGED <<instances, tracked, checker, phase>>
      BY <1>8, Zenon DEF AppStep, SkipApp, StartApp, FinishApp, Opened, Open, Close, dropVars, dlmVars
    <2> QED
      BY <1>0, <2>1
  <1>9. ASSUME NEW v \in Viewers, View(v) PROVE RegistryInv'
    <2>1. UNCHANGED <<instances, tracked, checker, phase>>
      BY <1>9, Zenon DEF View, Opened, Open, Close, dropVars, dlmVars
    <2> QED
      BY <1>0, <2>1
  <1>10. CASE (\E x \in Uid : Lose(x)) \/ CollectStep \/ UNCHANGED vars
    <2>1. UNCHANGED <<instances, tracked, checker, phase>>
      BY <1>10 DEF Lose, CollectStep, CollectStart, Collect, CollectMark, CollectEnd, vars,
                   dropVars, dlmVars
    <2> QED
      BY <1>0, <2>1
  <1> QED
    BY <1>2, <1>3, <1>4, <1>5, <1>6, <1>7, <1>8, <1>9, <1>10 DEF Next, Check

\* The registry only grows, and replicateDrop alone makes a drop SOLID: one that
\* is registered, and to be persisted.
LEMMA PhaseStep ==
  ASSUME TypeOK, RegistryInv, [Next]_vars
  PROVE  \A d \in Drops :
           /\ instances[d] \subseteq instances'[d]
           /\ phase'[d] = "SOLID" => \/ phase[d] = "SOLID"
                                     \/ /\ d \in Registered /\ d \in Persist
                                        /\ \E copy \in Unused : Replicate(d, copy)
  <1> DEFINE Goal ==
        \A d \in Drops :
           /\ instances[d] \subseteq instances'[d]
           /\ phase'[d] = "SOLID" => \/ phase[d] = "SOLID"
                                     \/ /\ d \in Registered /\ d \in Persist
                                        /\ \E copy \in Unused : Replicate(d, copy)
  <1> SUFFICES Goal
    OBVIOUS
  <1>0. UNCHANGED <<instances, phase>> => Goal
    OBVIOUS
  <1>1. ASSUME NEW x \in Registered, NEW copy \in Unused, Replicate(x, copy), Oid(x) \in Persist
        PROVE  Goal
    <2> TAKE d \in Drops
    <2>1. instances[d] \subseteq instances'[d]
      BY <1>1, InstancesOfReplica, Zenon
    <2>2. copy # d /\ copy \in Uid /\ x \in Uid
      BY <1>1, InstancesOfReplica, OidProperties DEF Uid
    <2>3. phase'[d] = "SOLID" => phase[d] = "SOLID" \/ d = x
      BY <1>1, <2>2 DEF Replicate, TypeOK, Uid
    <2>4. d = x => d \in Persist
      BY <1>1, OwnOid
    <2> QED
      BY <1>1, <2>1, <2>3, <2>4
  <1>2. ASSUME NEW d \in Drops, AddDrop(d) PROVE Goal
    <2>1. instances[d] = {}
      BY <1>2 DEF AddDrop, RegistryInv
    <2> QED
      BY <1>2, <2>1 DEF AddDrop, TypeOK, Uid
  <1>3. ASSUME NEW d \in Drops, Produce(d) PROVE Goal
    <2>1. Complete(d) \/ UNCHANGED <<instances, phase>>
      BY <1>3, Zenon DEF Produce, ProducerFinished, Trigger, dlmVars
    <2>2. \/ \E copy \in Unused : d \in Persist /\ d \in Tracked /\ Replicate(d, copy)
          \/ UNCHANGED <<instances, phase>>
      BY <2>1 DEF Complete, dlmVars
    <2>3. ASSUME NEW copy \in Unused, d \in Persist, d \in Tracked, Replicate(d, copy)
          PROVE  Goal
      <3>1. d \in Registered
        BY <2>3 DEF RegistryInv
      <3>2. Oid(d) \in Persist
        BY <2>3, <3>1, OwnOid
      <3> HIDE DEF Goal
      <3> QED
        BY <1>1, <2>3, <3>1, <3>2
    <2> HIDE DEF Goal
    <2> QED
      BY <1>0, <2>2, <2>3
  <1>4. CASE LostCheck
    <2>1. AtDrop
      BY <1>4, LostCheckCases
    <2>2. CASE \E r \in instances[Oid(Item)] \ {Item}, copy \in Unused : Replicate(r, copy)
      <3> HIDE DEF Goal
      <3> QED
        BY <1>1, <2>1, <2>2, ReplicaOwner
    <2>3. CASE /\ UNCHANGED instances
               /\ phase' = [phase EXCEPT ![Item] = "LOST"] \/ phase' = phase
      BY <2>3 DEF TypeOK, Uid
    <2> HIDE DEF Goal
    <2> QED
      BY <1>4, <2>2, <2>3, LostCheckCases, Zenon DEF dropVars, dlmVars
  <1> HIDE DEF Goal
  <1>5. ASSUME NEW d \in Drops, Age(d) PROVE Goal
    BY <1>0, <1>5 DEF Age, dropVars, dlmVars
  <1>6. ASSUME NEW a \in Apps, AppStep(a) \/ SkipApp(a) PROVE Goal
    <2>1. UNCHANGED <<instances, phase>>
      BY <1>6, Zenon DEF AppStep, SkipApp, StartApp, FinishApp, Opened, Open, Close, dropVars, dlmVars
    <2> QED
      BY <1>0, <2>1
  <1>7. ASSUME NEW v \in Viewers, View(v) PROVE Goal
    <2>1. UNCHANGED <<instances, phase>>
      BY <1>7, Zenon DEF View, Opened, Open, Close, dropVars, dlmVars
    <2> QED
      BY <1>0, <2>1
  <1>8. CASE \/ CheckStart \/ CheckChanged \/ ExpireCheck \/ ExpireMark \/ ExpireEnd \/ LostEnd
             \/ RemoveDrops \/ CollectStep \/ UNCHANGED vars \/ \E x \in Uid : Lose(x)
    <2>1. UNCHANGED <<instances, phase>>
      BY <1>8 DEF CheckStart, CheckChanged, ExpireCheck, ExpireMark, ExpireEnd, LostEnd, RemoveDrops,
                  Lose, CollectStep, CollectStart, Collect, CollectMark, CollectEnd, vars,
                  dropVars, dlmVars
    <2> QED
      BY <1>0, <2>1
  <1> QED
    BY <1>2, <1>3, <1>4, <1>5, <1>6, <1>7, <1>8 DEF Next, Check

\* A drop in the SOLID phase keeps its copies, but for what somebody removes.
LEMMA SolidStep ==
  ASSUME TypeOK, TypeOK', RegistryInv, RegistryInv', SolidInv, DataStep, [Next]_vars
  PROVE  SolidInv'
  <1> SUFFICES ASSUME NEW d \in Drops, phase'[d] = "SOLID"
               PROVE  d \in Persist /\ (d \in Lifespan \/ Backed(d)')
    BY DEF SolidInv
  <1> DEFINE A == Alive(d)
             B == {x \in instances'[d] : status'[x] = "COMPLETED" /\ x \in stored'}
  <1>0. Alive(d)' = B
    BY DEF Alive
  <1>1. losses \in Nat /\ losses' \in Nat /\ (losses' = losses \/ losses' = losses + 1)
    BY Zenon DEF TypeOK, DataStep, Lose
  <1>2. ASSUME d \in Registered, d \in Persist, NEW copy \in Unused, Replicate(d, copy)
        PROVE  Backed(d)'
    <2>1. d \in Uid /\ Oid(d) = d /\ copy \in Copies /\ copy # d /\ copy \in Uid
      BY <1>2, OidProperties, OwnOid, InstancesOfReplica DEF Uid
    <2>2. d \in instances[d] /\ instances'[d] = instances[d] \cup {copy}
      BY <1>2, <2>1, OidProperties, InstancesOfReplica, ZenonT(30)
    <2>3. /\ status'[d] = "COMPLETED" /\ status'[copy] = "COMPLETED"
          /\ d \in stored' /\ copy \in stored'
      BY <1>2, <2>1 DEF Replicate, TypeOK
    <2>4. d \in B /\ copy \in B
      BY <2>2, <2>3
    <2> HIDE DEF B
    <2> QED
      BY <1>0, <2>1, <2>4, Zenon DEF Backed
  <1>3. ASSUME phase[d] = "SOLID", d \notin Lifespan
        PROVE  Backed(d)'
    <2>1. d \in Persist /\ Backed(d)
      BY <1>3 DEF SolidInv
    <2>2. \A x \in A : x \in instances'[d] /\ status'[x] = "COMPLETED"
      <3>1. \A x \in A : x \in instances'[d] /\ x \in Uid /\ status[x] = "COMPLETED"
        BY PhaseStep, ZenonT(30) DEF Alive, TypeOK
      <3>2. \A x \in A : x = d \/ x \in Copies
        BY Zenon DEF Alive, RegistryInv
      <3>3. d \notin Expirable /\ \A x \in Copies : x \notin Expirable
        BY <1>3, <2>1, LifecycleAssumption DEF Expirable
      <3> HIDE DEF A
      <3> QED
        BY <3>1, <3>2, <3>3 DEF DataStep
    <2>3. CASE losses' = losses
      <3>1. A \in SUBSET B
        <4>1. \A x \in A : x \in Uid /\ x \in stored /\ status[x] = "COMPLETED"
          BY DEF Alive, TypeOK
        <4>2. losses' # losses + 1
          BY <1>1, <2>3, NotGrown, Zenon
        <4>3. \A x \in A : x \in stored'
          BY <4>1, <4>2, Zenon DEF DataStep
        <4> QED
          BY <2>2, <4>3
      <3> HIDE DEF A, B
      <3> QED
        BY <1>0, <2>1, <2>3, <3>1, Zenon DEF Backed, A
    <2>4. CASE losses' = losses + 1
      <3>1. PICK y \in Uid : Lose(y)
        BY <1>1, <2>4 DEF DataStep
      <3>2. stored' = stored \ {y}
        BY <3>1 DEF Lose
      <3>3. \A x \in A : x = y \/ x \in B
        BY <2>2, <3>2 DEF Alive
      <3>4. losses' # 0 /\ (losses' = 1 => losses = 0)
        BY <1>1, <2>4
      <3> HIDE DEF A, B
      <3> QED
        BY <1>0, <2>1, <3>3, <3>4, Zenon DEF Backed, A
    <2> QED
      BY <1>1, <2>3, <2>4
  <1>4. d \in Persist
    BY PhaseStep DEF SolidInv
  <1>5. \/ phase[d] = "SOLID"
        \/ d \in Registered /\ d \in Persist /\ \E copy \in Unused : Replicate(d, copy)
    BY PhaseStep
  <1> QED
    BY <1>2, <1>3, <1>4, <1>5, Zenon

-----------------------------------------------------------------------------
\* In the beginning nothing is tracked and nothing is read.
LEMMA InitIInv == Init => IInv
  <1> SUFFICES ASSUME Init PROVE IInv
    BY Zenon
  <1>1. TypeOK
    BY DEF Init, TypeOK, Uid
  <1>2. ExpiryInv
    BY DEF Init, ExpiryInv
  <1>3. DataInv
    BY DEF Init, DataInv
  <1>4. RegistryInv
    BY DEF Init, RegistryInv, Tracked, Range
  <1>5. SolidInv
    BY DEF Init, SolidInv, Uid
  <1> QED
    BY <1>1, <1>2, <1>3, <1>4, <1>5 DEF IInv

\* The invariant is inductive.
LEMMA Inductive == Spec => []IInv
  <1>1. IInv /\ [Next]_vars => IInv'
    <2> SUFFICES ASSUME IInv, [Next]_vars PROVE IInv'
      OBVIOUS
    <2>1. TypeOK /\ ExpiryInv /\ DataInv /\ RegistryInv /\ SolidInv
      BY DEF IInv
    <2>2. DataStep /\ TypeOK' /\ ExpiryInv'
      BY <2>1, DataEffects, TypeStep, ExpiryStep
    <2>3. DataInv' /\ RegistryInv'
      BY <2>1, <2>2, DataInvStep, RegistryStep
    <2>4. SolidInv'
      BY <2>1, <2>2, <2>3, SolidStep
    <2> QED
      BY <2>2, <2>3, <2>4 DEF IInv
  <1> QED
    BY <1>1, InitIInv, PTL DEF Spec

\* Whatever drops are produced, read, expired, lost and replicated, the manager,
\* its registry and its two threads keep their types.
THEOREM TypeCorrect == Spec => []TypeOK
  <1>1. IInv => TypeOK
    BY DEF IInv
  <1> QED
    BY <1>1, Inductive, PTL

\* For any drops, consumers and readers: a drop that expires after use keeps its
\* data while one of its consumers has still to run or is running, although
\* expireCompletedDrops checks and marks, and deleteExpiredDrops deletes and
\* marks, in steps between which consumers, readers and the other thread run.
THEOREM ConsumersFindData == Spec => []KeptForConsumers
  <1>1. IInv => KeptForConsumers
    <2> SUFFICES ASSUME IInv, losses = 0, NEW d \in ExpireAfterUse, d \in announced,
                        NEW a \in Consumers[d], execStatus[a] \in {"NOT_RUN", "RUNNING"}
                 PROVE  status[d] = "COMPLETED" /\ d \in stored
      BY DEF KeptForConsumers
    <2>1. d \in Uid /\ d \notin Lifespan
      BY LifecycleAssumption DEF Uid
    <2>2. ~AllDone(d)
      BY DEF AllDone
    <2>3. status[d] \notin {"EXPIRED", "DELETED"}
      BY <2>1, <2>2 DEF IInv, ExpiryInv, Expirable
    <2>4. status[d] = "COMPLETED"
      BY <2>1, <2>3 DEF IInv, DataInv, TypeOK
    <2> QED
      BY <2>1, <2>4 DEF IInv, DataInv
  <1> QED
    BY <1>1, Inductive, PTL

\* For any drops and any space for replicas: a drop that replicateDrop made
\* SOLID, and that has no lifespan, has two completed copies with their data,
\* less what somebody removed, whatever deleteLostDrops, the deletion of other
\* drops and the destruction of the session do meanwhile.
THEOREM SolidReplicated == Spec => []SolidHasReplica
  <1>1. IInv => SolidHasReplica
    BY Zenon DEF IInv, SolidInv, SolidHasReplica, Backed
  <1> QED
    BY <1>1, Inductive, PTL

-----------------------------------------------------------------------------
\* A step that changes neither the dictionary nor the checker.
LEMMA CheckerStays ==
  ASSUME CheckerInv, UNCHANGED <<tracked, instances, checker>>,
         \A d \in Drops : phase'[d] = "PLASMA" => phase[d] = "PLASMA"
  PROVE  CheckerInv'
  <1>1. tracked' = tracked /\ instances' = instances /\ checker' = checker
    OBVIOUS
  <1>2. Collected => Collected'
    BY <1>1, Zenon DEF Collected
  <1> QED
    BY <1>1, <1>2 DEF CheckerInv

\* addDrop between two checks adds a drop that was not there.
LEMMA CheckerAdds ==
  ASSUME NoIntruder, IInv, CheckerInv, NEW d \in Drops, AddDrop(d)
  PROVE  CheckerInv'
  <1>1. tracked \in Seq(Uid) /\ d \in Uid /\ instances \in [Drops -> SUBSET Uid]
    BY DEF IInv, TypeOK, Uid
  <1>2. checker.pc = "idle" /\ UNCHANGED checker /\ tracked' = Append(tracked, d)
    BY DEF AddDrop, NoIntruder
  <1>3. /\ Len(tracked') = Len(tracked) + 1 /\ Len(tracked) \in Nat
        /\ \A i \in 1..Len(tracked) : tracked'[i] = tracked[i] /\ tracked[i] # d
        /\ tracked'[Len(tracked) + 1] = d
    BY <1>1, <1>2 DEF AddDrop, CheckerInv
  <1>4. \A i, j \in 1..Len(tracked') : tracked'[i] = tracked'[j] => i = j
    BY <1>3 DEF CheckerInv
  <1>5. \A e \in Drops : phase'[e] = "PLASMA" => phase[e] = "PLASMA" /\ e # d
    BY DEF AddDrop, IInv, TypeOK, Uid
  <1>6. \A i \in 1..Len(tracked') : tracked'[i] \in Drops /\ phase'[tracked'[i]] # "PLASMA"
    BY <1>3, <1>5 DEF CheckerInv
  <1>7. \A e \in Drops : instances'[e] \subseteq {e}
    BY <1>1, Zenon DEF AddDrop, CheckerInv
  <1> QED
    BY <1>2, <1>4, <1>6, <1>7 DEF CheckerInv

\* One round of deleteLostDrops: a lost drop has no siblings, and it goes.
LEMMA CheckerRound ==
  ASSUME NoIntruder, IInv, CheckerInv, LostCheck
  PROVE  CheckerInv'
  <1>1. checker.pc = "lost" /\ AtDrop
    BY Zenon DEF LostCheck
  <1>2. Item \in Registered /\ checker.i \in 1..Len(checker.list)
    BY <1>1, ItemRegistered DEF IInv
  <1>3. checker.list = tracked /\ Item = tracked[checker.i] /\ Item \in Drops
        /\ phase[Item] # "PLASMA"
    BY <1>1, <1>2 DEF CheckerInv, Item
  <1>4. Item \in instances[Oid(Item)] /\ Oid(Item) \in Drops
    BY <1>2, OidProperties DEF IInv
  <1>5. instances[Oid(Item)] \ {Item} = {}
    BY <1>4 DEF CheckerInv
  <1> DEFINE replicas == {s \in {} : ~Disappeared(s)}
  <1>6. /\ replicas = {} /\ {} \ replicas = {} /\ {} \subseteq Tracked
        /\ ~\E r \in replicas : replicas = {r}
    OBVIOUS
  <1>7. \/ GoesOn /\ UNCHANGED <<dropVars, dlmVars>>
        \/ /\ phase' = [phase EXCEPT ![Item] = "LOST"]
           /\ \E lost \in Orders({}) :
                checker' = [checker EXCEPT !.i = @ + 1, !.gone = @ \o <<Item>> \o lost]
           /\ UNCHANGED dlmVars
    <2> HIDE DEF Item
    <2> QED
      BY <1>5, <1>6, Zenon DEF LostCheck
  <1>8. checker.gone \in Seq(Uid) /\ Item \in Uid
    BY <1>3 DEF IInv, TypeOK, Uid
  <1>9. \A lost \in Orders({}) : checker.gone \o <<Item>> \o lost = Append(checker.gone, Item)
    BY <1>8, CollectsOne, Zenon
  <1>10. /\ UNCHANGED <<tracked, instances>>
         /\ \A d \in Drops : phase'[d] = "PLASMA" => phase[d] = "PLASMA"
    BY <1>7, Zenon DEF dropVars, dlmVars, IInv, TypeOK, Uid
  <1>11. \/ checker' = [checker EXCEPT !.i = @ + 1]
         \/ checker' = [checker EXCEPT !.i = @ + 1, !.gone = Append(checker.gone, Item)]
    BY <1>7, <1>9, Zenon DEF GoesOn
  <1>12. /\ checker'.pc = "lost" /\ checker'.attached = checker.attached
         /\ checker'.list = checker.list /\ checker'.i = checker.i + 1
         /\ checker'.gone = checker.gone \/ checker'.gone = Append(checker.gone, Item)
    BY <1>1, <1>11, Zenon DEF IInv, TypeOK
  <1>13. \A k \in 1..Len(checker.gone) : checker.gone[k] # Item
    BY <1>1, <1>2, <1>3 DEF CheckerInv, Collected
  <1> DEFINE g == checker.gone
             h == checker'.gone
  <1>14. \A k \in 1..Len(h) : \/ k \in 1..Len(g) /\ h[k] = g[k]
                              \/ k = Len(g) + 1 /\ h[k] = Item
    <2>1. \A k \in 1..Len(Append(g, Item)) : \/ k \in 1..Len(g) /\ Append(g, Item)[k] = g[k]
                                             \/ k = Len(g) + 1 /\ Append(g, Item)[k] = Item
      BY <1>8
    <2> QED
      BY <1>12, <2>1, Zenon
  <1>15. Len(g) \in Nat
    BY <1>8
  <1>16. /\ \A i, j \in 1..Len(g) : g[i] = g[j] => i = j
         /\ \A k \in 1..Len(g) : \E i \in 1..Len(tracked) : i < checker.i /\ g[k] = tracked[i]
    BY <1>1, Zenon DEF CheckerInv, Collected
  <1>17. \A d \in 1..Len(tracked) : d < checker.i => d < checker.i + 1
    BY <1>2
  <1>18. checker.i \in 1..Len(tracked) /\ checker.i < checker.i + 1 /\ Item = tracked[checker.i]
    BY <1>2, <1>3
  <1> HIDE DEF Item, g, h
  <1>19. \A i, j \in 1..Len(h) : h[i] = h[j] => i = j
    BY <1>13, <1>14, <1>16, Zenon DEF g
  <1>20. \A k \in 1..Len(h) : \E i \in 1..Len(tracked) : i < checker.i + 1 /\ h[k] = tracked[i]
    BY <1>14, <1>16, <1>17, <1>18, Zenon
  <1>21. /\ checker.attached /\ checker.list = tracked
         /\ \A i, j \in 1..Len(tracked) : tracked[i] = tracked[j] => i = j
         /\ \A i \in 1..Len(tracked) : tracked[i] \in Drops /\ phase[tracked[i]] # "PLASMA"
         /\ \A d \in Drops : instances[d] \subseteq {d}
    BY <1>3, Zenon DEF CheckerInv
  <1>22. \A i \in 1..Len(tracked) : tracked[i] \in Drops /\ phase'[tracked[i]] # "PLASMA"
    BY <1>10, <1>21, Zenon
  <1>23. Collected'
    BY <1>10, <1>12, <1>19, <1>20, Zenon DEF Collected, h
  <1>24. checker'.pc # "dead" /\ checker'.pc \notin {"expire", "mark"}
    BY <1>12
  <1>25. checker'.attached /\ checker'.list = tracked'
    BY <1>10, <1>12, <1>21
  <1>26. /\ \A i, j \in 1..Len(tracked') : tracked'[i] = tracked'[j] => i = j
         /\ \A i \in 1..Len(tracked') : tracked'[i] \in Drops /\ phase'[tracked'[i]] # "PLASMA"
         /\ \A d \in Drops : instances'[d] \subseteq {d}
    BY <1>10, <1>21, <1>22
  <1> QED
    BY <1>23, <1>24, <1>25, <1>26, Zenon DEF CheckerInv

\* What is found lost is in the dictionary, once: nothing is removed twice.
LEMMA CheckerRemoves ==
  ASSUME NoIntruder, IInv, CheckerInv, LostEnd
  PROVE  CheckerInv'
  <1> DEFINE gone == checker.gone
             bad == {i \in DOMAIN gone : gone[i] \notin Tracked \/ \E j \in 1..(i - 1) : gone[j] = gone[i]}
             removed == {gone[i] : i \in {i \in DOMAIN gone : \A j \in bad : i < j}}
  <1>1. checker.pc = "lost" /\ Removes(removed) /\ (bad = {} => Goes("idle"))
        /\ UNCHANGED <<dropVars, instances>>
    BY Zenon DEF LostEnd
  <1>2. gone \in Seq(Uid) /\ tracked \in Seq(Uid)
    BY DEF IInv, TypeOK
  <1>3. ASSUME NEW i \in 1..Len(gone)
        PROVE  gone[i] \in Tracked /\ \A j \in 1..(i - 1) : gone[j] # gone[i]
    <2>1. \E k \in 1..Len(tracked) : gone[i] = tracked[k]
      BY <1>1, <1>3 DEF CheckerInv, Collected
    <2>2. gone[i] \in Tracked
      BY <1>2, <2>1 DEF Tracked, Range
    <2>3. \A j \in 1..(i - 1) : j \in 1..Len(gone) /\ j # i
      BY <1>2
    <2> QED
      BY <1>1, <2>2, <2>3, ZenonT(30) DEF CheckerInv, Collected
  <1>4. bad = {}
    BY <1>2, <1>3
  <1>5. Goes("idle") /\ Removes(removed) /\ UNCHANGED <<phase, instances>>
    BY <1>1, <1>4, Zenon DEF dropVars
  <1> HIDE DEF removed
  <1>6. /\ tracked' \in Seq(Uid)
        /\ \A i, j \in 1..Len(tracked') : i # j => tracked'[i] # tracked'[j]
        /\ Range(tracked') = Tracked \ removed
    BY <1>5, RemovesProperties DEF IInv
  <1>7. \A i \in 1..Len(tracked') : tracked'[i] \in Drops /\ phase[tracked'[i]] # "PLASMA"
    <2> SUFFICES ASSUME NEW i \in 1..Len(tracked')
                 PROVE  tracked'[i] \in Drops /\ phase[tracked'[i]] # "PLASMA"
      OBVIOUS
    <2>1. tracked'[i] \in Range(tracked')
      BY <1>6 DEF Range
    <2>2. tracked'[i] \in Tracked
      BY <1>6, <2>1, Zenon
    <2>3. \E k \in 1..Len(tracked) : tracked'[i] = tracked[k]
      BY <1>2, <2>2 DEF Tracked, Range
    <2> QED
      BY <2>3 DEF CheckerInv
  <1>8. checker'.pc = "idle" /\ checker'.attached = checker.attached
    BY <1>5 DEF Goes, IInv, TypeOK
  <1> QED
    BY <1>5, <1>6, <1>7, <1>8, Zenon DEF CheckerInv

\* The steps of the checker's thread.
LEMMA CheckerChecks ==
  ASSUME NoIntruder, IInv, CheckerInv, Check
  PROVE  CheckerInv'
  <1>1. CASE CheckStart \/ ExpireEnd
    <2>1. PICK pc \in {"expire", "lost"} : Iterates(pc)
      BY <1>1 DEF CheckStart, ExpireEnd
    <2>2. UNCHANGED <<phase, tracked, instances>>
      BY <1>1 DEF CheckStart, ExpireEnd, dropVars, dlmVars
    <2>3. checker'.pc = pc /\ checker'.list = tracked /\ checker'.gone = <<>> /\ checker'.attached
      BY <2>1 DEF Iterates
    <2> QED
      BY <2>2, <2>3 DEF CheckerInv, Collected
  <1>2. CASE CheckChanged
    BY <1>2 DEF CheckChanged, Changed, CheckerInv
  <1>3. CASE ExpireCheck \/ ExpireMark
    <2>1. UNCHANGED <<phase, tracked, instances>>
      BY <1>3 DEF ExpireCheck, ExpireMark, dropVars, dlmVars
    <2>2. /\ checker.pc \in {"expire", "mark"} /\ checker'.pc \in {"expire", "mark"}
          /\ checker'.list = checker.list /\ checker'.attached = checker.attached
          /\ checker'.gone = checker.gone
      BY <1>3, ZenonT(30) DEF ExpireCheck, ExpireMark, Goes, GoesOn, IInv, TypeOK
    <2> QED
      BY <2>1, <2>2, Zenon DEF CheckerInv
  <1> QED
    BY <1>1, <1>2, <1>3, CheckerRound, CheckerRemoves DEF Check

\* Every step keeps the checker's thread alive and its list in line.
LEMMA CheckerStep ==
  ASSUME NoIntruder, IInv, CheckerInv, [Next]_vars
  PROVE  CheckerInv'
  <1>1. CASE \E d \in Drops : AddDrop(d)
    BY <1>1, CheckerAdds
  <1>2. CASE Check
    BY <1>2, CheckerChecks
  <1>3. ASSUME NEW d \in Drops, Complete(d) PROVE UNCHANGED <<phase, tracked, instances>>
    BY <1>3, Zenon DEF Complete, NoIntruder, dlmVars
  <1>4. ASSUME NEW d \in Drops, Produce(d) \/ Age(d)
        PROVE  UNCHANGED <<phase, tracked, instances, checker>>
    BY <1>3, <1>4, Zenon DEF Produce, ProducerFinished, Trigger, Age, dlmVars, dropVars
  <1>5. ASSUME NEW r, \/ StartApp(r) \/ SkipApp(r) \/ FinishApp(r) \/ Opened(r)
                      \/ \E d \in Drops : Open(r, d) \/ Close(r, d)
        PROVE  UNCHANGED <<phase, tracked, instances, checker>>
    BY <1>5, Zenon DEF StartApp, SkipApp, FinishApp, Opened, Open, Close, dlmVars, dropVars
  <1>6. ASSUME CollectStep \/ (\E x \in Uid : Lose(x)) \/ UNCHANGED vars
        PROVE  UNCHANGED <<phase, tracked, instances, checker>>
    BY <1>6, Zenon DEF CollectStep, CollectStart, Collect, CollectMark, CollectEnd, Lose, vars,
       dlmVars, dropVars
  <1>7. ~RemoveDrops
    BY DEF RemoveDrops, NoIntruder
  <1>8. \/ \E d \in Drops : AddDrop(d)
        \/ Check
        \/ UNCHANGED <<phase, tracked, instances, checker>>
    BY <1>4, <1>5, <1>6, <1>7, Zenon DEF Next, AppStep, View
  <1> QED
    BY <1>1, <1>2, <1>8, CheckerStays

\* For any drops, consumers and losses: while drops are added between the
\* checks, nothing is replicated and no session is destroyed, no exception ends
\* the thread that runs expireCompletedDrops and deleteLostDrops.  (With any of
\* the three it may die; TLC finds out how.)
THEOREM CheckerSurvives == ASSUME NoIntruder PROVE Spec => []CheckerLives
  <1>1. Init => CheckerInv
    BY DEF Init, CheckerInv
  <1>2. IInv /\ CheckerInv /\ [Next]_vars => CheckerInv'
    BY CheckerStep
  <1>3. CheckerInv => CheckerLives
    BY DEF CheckerInv, CheckerLives
  <1> QED
    BY <1>1, <1>2, <1>3, Inductive, PTL DEF Spec
=============================================================================
