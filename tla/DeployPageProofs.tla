-------------------------- MODULE DeployPageProofs --------------------------
(***************************************************************************)
(* Theorems about DeployPage, for every set of names and urls, every       *)
(* stored list of methods and every bound.                                 *)
(***************************************************************************)
EXTENDS DeployPage, SequenceTheorems, WellFoundedInduction, TLAPS

\* A non-empty set of naturals has a least element: an induction over indices is
\* an argument about the least one that fails.
LEMMA LeastExists ==
  ASSUME NEW T, T \subseteq Nat, T # {}
  PROVE  \E i \in T : \A j \in T : i <= j
  <1> DEFINE R == OpToRel(<, Nat)
  <1>1. IsWellFoundedOn(R, Nat)
    BY NatLessThanWellFounded, Zenon
  <1>2. \A x, y \in Nat : y < x => <<y, x>> \in R
    BY DEF OpToRel
  <1> HIDE DEF R
  <1>3. PICK x \in T : \A y \in T : <<y, x>> \notin R
    BY <1>1, WFMin, Zenon
  <1>4. ASSUME NEW y \in T
        PROVE  x <= y
    <2>1. x \in Nat /\ y \in Nat
      BY <1>3
    <2>2. ~(y < x)
      BY <1>2, <1>3, <2>1
    <2> QED
      BY <2>1, <2>2
  <1> QED
    BY <1>4

\* A non-empty set of indices has a largest one.
LEMMA LargestExists ==
  ASSUME NEW n \in Nat, NEW S, S \subseteq 1..n, S # {}
  PROVE  \E m \in S : \A i \in S : i <= m
  <1> DEFINE T == {n - i : i \in S}
  <1>0. \A i \in S : n - i \in Nat
    OBVIOUS
  <1>1. T \subseteq Nat /\ T # {}
    BY <1>0, Zenon
  <1>2. PICK t \in T : \A j \in T : t <= j
    BY <1>1, LeastExists
  <1>3. PICK m \in S : t = n - m
    OBVIOUS
  <1>4. \A i \in S : i <= m
    <2> TAKE i \in S
    <2>1. n - m <= n - i
      BY <1>2, <1>3
    <2> QED
      BY <2>1
  <1> QED
    BY <1>4

\* What RemoveAt leaves of a sequence (the rows of the form).
LEMMA RemoveAtProperties ==
  ASSUME NEW S, NEW s \in Seq(S), NEW k \in 1..Len(s)
  PROVE  /\ RemoveAt(s, k) \in Seq(S)
         /\ Len(RemoveAt(s, k)) = Len(s) - 1
         /\ \A i \in 1..Len(s) - 1 : RemoveAt(s, k)[i] = IF i < k THEN s[i] ELSE s[i + 1]
  <1> DEFINE a == SubSeq(s, 1, k - 1)
             b == SubSeq(s, k + 1, Len(s))
  <1>0. Len(s) \in Nat /\ k \in Nat
    OBVIOUS
  <1>1. /\ a \in Seq(S) /\ Len(a) = k - 1
        /\ \A i \in 1..k - 1 : a[i] = s[i]
    <2>1. \A i \in 1..k - 1 : s[i] \in S
      BY ElementOfSeq
    <2> QED
      BY <2>1, SubSeqProperties
  <1>2. /\ b \in Seq(S) /\ Len(b) = Len(s) - k
        /\ \A i \in 1..Len(s) - k : b[i] = s[k + i]
    <2>1. \A i \in k + 1 .. Len(s) : s[i] \in S
      BY ElementOfSeq
    <2> QED
      BY <2>1, SubSeqProperties
  <1>3. RemoveAt(s, k) = a \o b
    BY Zenon DEF RemoveAt
  <1> HIDE DEF a, b
  <1>4. /\ a \o b \in Seq(S)
        /\ Len(a \o b) = Len(s) - 1
        /\ \A i \in 1..Len(s) - 1 : (a \o b)[i] = IF i < k THEN a[i] ELSE b[i - (k - 1)]
    <2>1. /\ a \o b \in Seq(S)
          /\ Len(a \o b) = Len(a) + Len(b)
          /\ \A i \in 1..Len(a) + Len(b) :
               (a \o b)[i] = IF i <= Len(a) THEN a[i] ELSE b[i - Len(a)]
      BY <1>1, <1>2, ConcatProperties, Zenon
    <2>2. Len(a) + Len(b) = Len(s) - 1 /\ Len(a) = k - 1
      BY <1>0, <1>1, <1>2
    <2>3. \A i \in 1..Len(s) - 1 : i <= k - 1 <=> i < k
      BY <1>0
    <2> QED
      BY <2>1, <2>2, <2>3
  <1>5. \A i \in 1..Len(s) - 1 : (a \o b)[i] = IF i < k THEN s[i] ELSE s[i + 1]
    <2> TAKE i \in 1..Len(s) - 1
    <2>1. CASE i < k
      BY <1>0, <1>1, <1>4, <2>1
    <2>2. CASE ~(i < k)
      <3>1. i - (k - 1) \in 1..Len(s) - k /\ k + (i - (k - 1)) = i + 1
        BY <1>0, <2>2
      <3> QED
        BY <1>2, <1>4, <2>2, <3>1
    <2> QED
      BY <2>1, <2>2
  <1> QED
    BY <1>3, <1>4, <1>5

NextSteps == {"nodes", "pgt", "spec", "create", "append", "deploy", "opened"}
AllSteps == NextSteps \cup {"check", "idle", "stopped"}

Deployment == [step : AllSteps, clicked : Url \cup {NoUrl}, to : Url \cup {NoUrl},
               spec : BOOLEAN, warned : BOOLEAN]

\* The steps of a deployment, as a set.
LEMMA StepsSet == {Steps[i] : i \in DOMAIN Steps} \cup {"idle", "stopped"} = AllSteps
  <1>1. DOMAIN Steps = 1..8
    BY DEF Steps
  <1> DEFINE S == {Steps[i] : i \in DOMAIN Steps}
  <1>2. S = {Steps[i] : i \in 1..8}
    BY <1>1
  <1>3. 1..8 = {1, 2, 3, 4, 5, 6, 7, 8}
    OBVIOUS
  <1>4. S = {Steps[1], Steps[2], Steps[3], Steps[4], Steps[5], Steps[6], Steps[7], Steps[8]}
    BY <1>2, <1>3
  <1> QED
    BY <1>4 DEF Steps, AllSteps, NextSteps

\* A request that is answered leads to a later step.
LEMMA AfterType ==
  ASSUME NEW step \in AllSteps \ {"idle", "opened", "stopped"}
  PROVE  After(step) \in NextSteps
  <1> DEFINE i == CHOOSE i \in DOMAIN Steps : Steps[i] = step
  <1>1. DOMAIN Steps = 1..8
    BY DEF Steps
  <1>2. \E j \in 1..8 : Steps[j] = step
    BY DEF Steps, AllSteps, NextSteps
  <1>3. i \in 1..8 /\ Steps[i] = step
    BY <1>1, <1>2, Zenon
  <1>4. After(step) = Steps[1 + i]
    BY DEF After
  <1> HIDE DEF i
  <1>5. i # 8
    BY <1>3 DEF Steps
  <1>6. 1 + i \in 2..8
    BY <1>3, <1>5
  <1>7. \A j \in 2..8 : Steps[j] \in NextSteps
    BY DEF Steps, NextSteps
  <1> QED
    BY <1>4, <1>6, <1>7

\* The url of the last active method is that of a method.
LEMMA ActiveUrlType ==
  ASSUME NEW ms, ms \in Seq(Method), Actives(ms) # {}
  PROVE  ActiveUrl(ms) \in Url
  <1>1. Actives(ms) \subseteq 1..Len(ms) /\ Len(ms) \in Nat
    BY DEF Actives
  <1>2. LastActive(ms) \in 1..Len(ms)
    <2>1. \E m \in Actives(ms) : \A i \in Actives(ms) : i <= m
      BY <1>1, LargestExists
    <2> QED
      BY <1>1, <2>1, Zenon DEF LastActive
  <1>3. ms[LastActive(ms)] \in Method
    BY <1>2, ElementOfSeq
  <1> QED
    BY <1>3 DEF ActiveUrl, Method

\* Storing methods, with manager_url after them, gives manager_url the type it had,
\* and the url of the last active method if there is one.
LEMMA DropdownUrl ==
  ASSUME NEW ms, ms \in Seq(Method), managerUrl \in Url \cup {NoUrl},
         UpdateDeployOptionsDropdown(ms)
  PROVE  /\ managerUrl' \in Url \cup {NoUrl}
         /\ Actives(ms) # {} => managerUrl' = ActiveUrl(ms) /\ managerUrl' \in Url
         /\ managerUrl \in Url => managerUrl' \in Url
  BY ActiveUrlType DEF UpdateDeployOptionsDropdown

\* Rows that are filled out are methods.
LEMMA FilledOutType ==
  ASSUME rows \in Seq(Row), FilledOut(rows)
  PROVE  rows \in Seq(Method)
  <1>1. \A i \in 1..Len(rows) : rows[i] \in Row /\ rows[i].name # NoName /\ rows[i].url # NoUrl
    BY ElementOfSeq DEF FilledOut
  <1>2. \A r \in Row : r.name # NoName /\ r.url # NoUrl => r \in Method
    BY DEF Row, Method
  <1>3. \A i \in 1..Len(rows) : rows[i] \in Method
    BY <1>1, <1>2
  <1> QED
    BY <1>3

\* A row of fillOutSettings is a row.
LEMMA FilledRow ==
  ASSUME NEW m \in Method
  PROVE  [m EXCEPT !.name = FirstWord[@]] \in Row
  BY PageAssumption DEF Method, Row

\* Selecting a method changes only which ones are active.
LEMMA SelectedMethods ==
  ASSUME methods \in Seq(Method), NEW name,
         ChangeSelectedDeployMethod(name)
  PROVE  /\ methods' \in Seq(Method)
         /\ DOMAIN methods' = DOMAIN methods
         /\ \A i \in DOMAIN methods :
              /\ methods'[i].name = methods[i].name
              /\ methods'[i].url = methods[i].url
              /\ methods'[i].active = (methods[i].name = name)
         /\ UpdateDeployOptionsDropdown(methods')
  <1>1. Len(methods) \in Nat /\ DOMAIN methods = 1..Len(methods)
    BY LenProperties
  <1>2. methods' = [i \in 1..Len(methods) |->
                      [methods[i] EXCEPT !.active = methods[i].name = name]]
    BY <1>1 DEF ChangeSelectedDeployMethod
  <1>3. \A i \in 1..Len(methods) : methods[i] \in Method
    BY ElementOfSeq
  <1>4. \A i \in 1..Len(methods) : [methods[i] EXCEPT !.active = methods[i].name = name] \in Method
    BY <1>3, Zenon DEF Method
  <1>5. methods' \in [1..Len(methods) -> Method]
    BY <1>2, <1>4
  <1>6. methods' \in Seq(Method)
    BY <1>1, <1>5, SeqDef
  <1> QED
    BY <1>1, <1>2, <1>3, <1>6 DEF ChangeSelectedDeployMethod, Method

-----------------------------------------------------------------------------
(***************************************************************************)
(* The inductive invariant: besides the types and the two invariants, a    *)
(* manager_url is set once anything was deployed, and as long as the user  *)
(* changes no row every stored method is in a row or on its way to one.    *)
(***************************************************************************)
Covered(m) ==
  \/ \E j \in DOMAIN rows : /\ rows[j].name \in {m.name, FirstWord[m.name]}
                            /\ rows[j].url = m.url
  \/ \E j \in DOMAIN fills : fills[j].name = m.name /\ fills[j].url = m.url

UrlSet == (\E k \in 1..MaxDeploys : deploy[k].step # "idle") => managerUrl \in Url

AllCovered == ~edited => \A i \in DOMAIN methods : Covered(methods[i])

IInv == TypeOK /\ NamesUnique /\ UrlFollows /\ UrlSet /\ AllCovered

PageType ==
  /\ methods \in Seq(Method) /\ rows \in Seq(Row) /\ fills \in Seq(Method)
  /\ managerUrl \in Url \cup {NoUrl}
  /\ modal \in {"closed", "open", "hiding"}
  /\ deploy \in [1..MaxDeploys -> Deployment]

\* The types of the page, with the steps as a set, before and after a step.
LEMMA TypeDef == (TypeOK <=> PageType) /\ (TypeOK' <=> PageType')
  BY StepsSet DEF TypeOK, PageType, Deployment

\* A page that has just been loaded satisfies the invariant.
LEMMA InitIInv == Init => IInv
  <1> SUFFICES ASSUME Init PROVE IInv
    OBVIOUS
  <1> USE PageAssumption DEF Init
  <1>1. TypeOK
    <2>1. managerUrl \in Url \cup {NoUrl}
      BY ActiveUrlType
    <2>2. deploy \in [1..MaxDeploys -> Deployment]
      BY DEF Deployment, AllSteps
    <2>3. rows \in Seq(Row)
      OBVIOUS
    <2> QED
      BY <2>1, <2>2, <2>3, TypeDef, Zenon DEF PageType
  <1>2. NamesUnique
    BY DEF NamesUnique
  <1>3. UrlFollows
    BY DEF UrlFollows
  <1>4. UrlSet
    BY DEF UrlSet
  <1>5. AllCovered
    BY DEF AllCovered, Covered
  <1> QED
    BY <1>1, <1>2, <1>3, <1>4, <1>5 DEF IInv

\* A step that leaves the storage and the deployments alone, and types the dialog,
\* only has the rows to account for.
LEMMA DialogStep ==
  ASSUME IInv, UNCHANGED <<storage, deploy>>,
         rows' \in Seq(Row), fills' \in Seq(Method), modal' \in {"closed", "open", "hiding"},
         AllCovered'
  PROVE  IInv'
  <1> USE DEF storage
  <1>1. TypeOK'
    BY TypeDef DEF PageType, IInv
  <1>2. NamesUnique'
    BY DEF IInv, NamesUnique
  <1>3. UrlFollows'
    BY DEF IInv, UrlFollows
  <1>4. UrlSet'
    BY DEF IInv, UrlSet
  <1> QED
    BY <1>1, <1>2, <1>3, <1>4 DEF IInv

\* A row that comes in covers the method it was asked for.
LEMMA RowFilledStep ==
  ASSUME IInv, NEW i \in DOMAIN fills, RowFilled(i)
  PROVE  IInv'
  <1> DEFINE r == [fills[i] EXCEPT !.name = FirstWord[@]]
  <1>1. /\ rows \in Seq(Row) /\ fills \in Seq(Method)
        /\ i \in 1..Len(fills) /\ Len(fills) \in Nat /\ Len(rows) \in Nat
        /\ fills[i] \in Method
    BY TypeDef, ElementOfSeq DEF IInv, PageType
  <1>2. /\ r \in Row
        /\ r.name = FirstWord[fills[i].name] /\ r.url = fills[i].url
    BY <1>1, FilledRow DEF Method
  <1>3. rows' = Append(rows, r) /\ fills' = RemoveAt(fills, i)
    BY DEF RowFilled
  <1> HIDE DEF r
  <1>4. /\ rows' \in Seq(Row) /\ DOMAIN rows' = 1..Len(rows) + 1
        /\ \A j \in 1..Len(rows) : rows'[j] = rows[j]
        /\ rows'[Len(rows) + 1] = r
    BY <1>1, <1>2, <1>3, AppendProperties
  <1>5. /\ fills' \in Seq(Method) /\ DOMAIN fills' = 1..Len(fills) - 1
        /\ \A j \in 1..Len(fills) - 1 : fills'[j] = IF j < i THEN fills[j] ELSE fills[j + 1]
    BY <1>1, <1>3, RemoveAtProperties, LenProperties, Zenon
  <1>6. ASSUME NEW m, Covered(m)
        PROVE  Covered(m)'
    <2>1. ASSUME NEW j \in DOMAIN rows, rows[j].name \in {m.name, FirstWord[m.name]},
                 rows[j].url = m.url
          PROVE  Covered(m)'
      <3>1. j \in DOMAIN rows' /\ rows'[j] = rows[j]
        BY <1>1, <1>4
      <3> QED
        BY <2>1, <3>1 DEF Covered
    <2>2. ASSUME NEW j \in DOMAIN fills, fills[j].name = m.name, fills[j].url = m.url
          PROVE  Covered(m)'
      <3>1. CASE j = i
        <4>1. Len(rows) + 1 \in DOMAIN rows' /\ r.name = FirstWord[m.name] /\ r.url = m.url
          BY <1>1, <1>2, <1>4, <2>2, <3>1
        <4> QED
          BY <1>4, <4>1 DEF Covered
      <3>2. CASE j < i
        <4>1. j \in DOMAIN fills' /\ fills'[j] = fills[j]
          BY <1>1, <1>5, <3>2
        <4> QED
          BY <2>2, <4>1 DEF Covered
      <3>3. CASE j > i
        <4>1. j - 1 \in DOMAIN fills' /\ fills'[j - 1] = fills[j]
          BY <1>1, <1>5, <3>3
        <4> QED
          BY <2>2, <4>1 DEF Covered
      <3> QED
        BY <1>1, <3>1, <3>2, <3>3
    <2> QED
      BY <1>6, <2>1, <2>2 DEF Covered
  <1>7. AllCovered'
    BY <1>6 DEF AllCovered, RowFilled, IInv, storage
  <1>8. UNCHANGED <<storage, deploy>> /\ modal' \in {"closed", "open", "hiding"}
    BY TypeDef DEF RowFilled, IInv, PageType
  <1> QED
    BY <1>4, <1>5, <1>7, <1>8, DialogStep

\* An edit of the rows leaves only their type to check.
LEMMA EditStep ==
  ASSUME IInv, Edit, rows' \in Seq(Row)
  PROVE  IInv'
  <1>1. UNCHANGED <<storage, deploy>> /\ fills' = fills /\ modal' = modal /\ edited'
    BY DEF Edit
  <1>2. fills' \in Seq(Method) /\ modal' \in {"closed", "open", "hiding"}
    BY <1>1, TypeDef DEF IInv, PageType
  <1>3. AllCovered'
    BY <1>1 DEF AllCovered
  <1> QED
    BY <1>1, <1>2, <1>3, DialogStep

\* Opening and dismissing the dialog change no row.
LEMMA ModalStep ==
  ASSUME IInv, OpenSettingsModal \/ Dismiss
  PROVE  IInv'
  <1>1. UNCHANGED <<storage, deploy, rows, fills, edited>> /\ modal' \in {"open", "hiding"}
    BY DEF OpenSettingsModal, Dismiss
  <1>2. rows' \in Seq(Row) /\ fills' \in Seq(Method)
    BY <1>1, TypeDef DEF IInv, PageType
  <1>3. AllCovered'
    BY <1>1 DEF AllCovered, Covered, IInv, storage
  <1> QED
    BY <1>1, <1>2, <1>3, DialogStep

\* What saveSettings accepts has types and unique names, and the rows are the methods.
LEMMA SaveStep ==
  ASSUME IInv, SaveSettings
  PROVE  IInv'
  <1>1. /\ rows \in Seq(Method) /\ methods' = rows /\ rows' = rows /\ fills' = fills
        /\ deploy' = deploy /\ modal' = "hiding"
        /\ UpdateDeployOptionsDropdown(rows)
    BY TypeDef, FilledOutType DEF IInv, PageType, SaveSettings
  <1>2. /\ managerUrl' \in Url \cup {NoUrl}
        /\ Actives(rows) # {} => managerUrl' = ActiveUrl(rows)
        /\ managerUrl \in Url => managerUrl' \in Url
    BY <1>1, TypeDef, DropdownUrl DEF IInv, PageType
  <1>3. TypeOK'
    BY <1>1, <1>2, TypeDef DEF IInv, PageType
  <1>4. NamesUnique'
    BY <1>1 DEF NamesUnique, SaveSettings, FilledOut
  <1>5. UrlFollows'
    BY <1>1, <1>2 DEF IInv, UrlFollows, Actives, ActiveUrl
  <1>6. UrlSet'
    BY <1>1, <1>2 DEF IInv, UrlSet
  <1>7. AllCovered'
    BY <1>1 DEF AllCovered, Covered
  <1> QED
    BY <1>3, <1>4, <1>5, <1>6, <1>7 DEF IInv

\* The dialog that was hidden asks for all methods again.
LEMMA HiddenStep ==
  ASSUME IInv, Hidden
  PROVE  IInv'
  <1>1. /\ UNCHANGED <<storage, deploy>> /\ modal' = "closed"
        /\ rows' = <<>> /\ fills' = fills \o methods /\ methods' = methods
    BY DEF Hidden, FillOutSettings, storage
  <1>2. methods \in Seq(Method) /\ fills \in Seq(Method)
    BY TypeDef DEF IInv, PageType
  <1>3. /\ fills' \in Seq(Method) /\ DOMAIN fills' = 1..Len(fills) + Len(methods)
        /\ \A i \in DOMAIN methods : Len(fills) + i \in DOMAIN fills' /\ fills'[Len(fills) + i] = methods[i]
    BY <1>1, <1>2
  <1>4. AllCovered'
    BY <1>1, <1>3, Zenon DEF AllCovered, Covered
  <1>5. rows' \in Seq(Row)
    BY <1>1
  <1> QED
    BY <1>1, <1>3, <1>4, <1>5, DialogStep

\* A step that changes only deployments keeps what the storage and the dialog need.
LEMMA DeployStep ==
  ASSUME IInv, UNCHANGED <<storage, dialog, edited>>, deploy' \in [1..MaxDeploys -> Deployment],
         \A k \in 1..MaxDeploys :
           /\ deploy'[k].step # "idle" => deploy[k].step # "idle"
           /\ \/ deploy'[k].step \in {"idle", "check", "stopped"}
              \/ deploy'[k].to # NoUrl
  PROVE  IInv'
  <1> USE DEF storage, dialog
  <1>1. TypeOK'
    BY TypeDef DEF IInv, PageType
  <1>2. NamesUnique'
    BY DEF IInv, NamesUnique
  <1>3. UrlFollows'
    BY DEF IInv, UrlFollows
  <1>4. UrlSet'
    BY DEF IInv, UrlSet
  <1>5. AllCovered'
    BY DEF IInv, AllCovered, Covered
  <1> QED
    BY <1>1, <1>2, <1>3, <1>4, <1>5 DEF IInv

\* A request of a deployment that is answered: the url taken when the check has passed
\* is set, because something was deployed.
LEMMA SucceedStep ==
  ASSUME IInv, NEW k \in 1..MaxDeploys, Succeed(k)
  PROVE  IInv'
  <1> DEFINE d == deploy[k]
             e == [d EXCEPT !.step = IF @ = "create" /\ ~d.spec THEN "stopped" ELSE After(@),
                            !.to = IF d.step = "check" THEN managerUrl ELSE @]
  <1>1. /\ deploy \in [1..MaxDeploys -> Deployment] /\ managerUrl \in Url \cup {NoUrl}
        /\ d \in Deployment
    BY TypeDef DEF IInv, PageType
  <1>2. d.step \in AllSteps \ {"idle", "opened", "stopped"}
    BY <1>1 DEF Succeed, Pending, Deployment
  <1>3. deploy' = [deploy EXCEPT ![k] = e]
    BY <1>1, Zenon DEF Succeed
  <1>4. After(d.step) \in NextSteps
    BY <1>2, AfterType
  <1>5. managerUrl \in Url
    BY <1>1, <1>2 DEF IInv, UrlSet
  <1>6. d.step # "check" => d.to # NoUrl
    BY <1>1, <1>2 DEF IInv, UrlFollows
  <1>7. e \in Deployment /\ e.to # NoUrl
    BY <1>1, <1>4, <1>5, <1>6, PageAssumption, Zenon DEF Deployment, AllSteps
  <1> HIDE DEF e
  <1>8. ASSUME NEW l \in 1..MaxDeploys
        PROVE  /\ deploy'[l].step # "idle" => deploy[l].step # "idle"
               /\ \/ deploy'[l].step \in {"idle", "check", "stopped"}
                  \/ deploy'[l].to # NoUrl
    <2>1. CASE l = k
      BY <1>1, <1>2, <1>3, <1>7, <2>1
    <2>2. CASE l # k
      BY <1>1, <1>3, <2>2 DEF IInv, UrlFollows
    <2> QED
      BY <2>1, <2>2
  <1>9. deploy' \in [1..MaxDeploys -> Deployment]
    BY <1>1, <1>3, <1>7
  <1> QED
    BY <1>8, <1>9, DeployStep DEF Succeed

\* A request of a deployment that fails: the check itself ends it, so the url is set.
LEMMA FailStep ==
  ASSUME IInv, NEW k \in 1..MaxDeploys, Fail(k)
  PROVE  IInv'
  <1> DEFINE d == deploy[k]
             stops == \/ d.step \in {"check", "nodes", "append", "deploy"}
                      \/ (d.step = "create" /\ ~d.spec)
             e == [d EXCEPT !.step = IF stops THEN "stopped" ELSE After(d.step),
                            !.spec = @ /\ d.step # "spec",
                            !.warned = @ \/ d.step \in {"pgt", "spec", "create"}]
  <1>1. deploy \in [1..MaxDeploys -> Deployment] /\ d \in Deployment
    BY TypeDef DEF IInv, PageType
  <1>2. d.step \in AllSteps \ {"idle", "opened", "stopped"}
    BY <1>1 DEF Fail, Pending, Deployment
  <1>3. deploy' = [deploy EXCEPT ![k] = e]
    BY <1>1, Zenon DEF Fail
  <1>4. After(d.step) \in NextSteps
    BY <1>2, AfterType
  <1>5. d.step # "check" => d.to # NoUrl
    BY <1>1, <1>2 DEF IInv, UrlFollows
  <1>6. e \in Deployment /\ (e.step = "stopped" \/ e.to # NoUrl)
    BY <1>1, <1>4, <1>5, Zenon DEF Deployment, AllSteps
  <1> HIDE DEF e
  <1>7. ASSUME NEW l \in 1..MaxDeploys
        PROVE  /\ deploy'[l].step # "idle" => deploy[l].step # "idle"
               /\ \/ deploy'[l].step \in {"idle", "check", "stopped"}
                  \/ deploy'[l].to # NoUrl
    <2>1. CASE l = k
      BY <1>1, <1>2, <1>3, <1>6, <2>1
    <2>2. CASE l # k
      BY <1>1, <1>3, <2>2 DEF IInv, UrlFollows
    <2> QED
      BY <2>1, <2>2
  <1>8. deploy' \in [1..MaxDeploys -> Deployment]
    BY <1>1, <1>3, <1>6
  <1> QED
    BY <1>7, <1>8, DeployStep, Zenon DEF Fail

\* A click on a method: it is the active one, whose url manager_url is, or it becomes
\* active and manager_url follows.
LEMMA InitiateDeployStep ==
  ASSUME IInv, NEW k \in 1..MaxDeploys, NEW i \in DOMAIN methods, InitiateDeploy(k, i)
  PROVE  IInv'
  <1>1. /\ methods \in Seq(Method) /\ managerUrl \in Url \cup {NoUrl}
        /\ deploy \in [1..MaxDeploys -> Deployment]
        /\ methods[i] \in Method
    BY TypeDef, ElementOfSeq DEF IInv, PageType
  <1>2. /\ UNCHANGED <<rows, fills, modal, edited>>
        /\ deploy' = [deploy EXCEPT ![k].step = "check", ![k].clicked = methods[i].url]
    BY DEF InitiateDeploy, dialog
  <1>3. /\ methods' \in Seq(Method) /\ DOMAIN methods' = DOMAIN methods
        /\ \A j \in DOMAIN methods : /\ methods'[j].name = methods[j].name
                                     /\ methods'[j].url = methods[j].url
        /\ managerUrl' \in Url
        /\ Actives(methods') # {} => managerUrl' = ActiveUrl(methods')
    <2>1. CASE methods[i].active
      <3>1. i \in Actives(methods)
        BY <2>1 DEF Actives
      <3>2. UNCHANGED <<methods, managerUrl>>
        BY <2>1 DEF InitiateDeploy, storage
      <3>3. managerUrl = ActiveUrl(methods) /\ managerUrl \in Url
        BY <1>1, <3>1, ActiveUrlType DEF IInv, UrlFollows
      <3> QED
        BY <1>1, <3>2, <3>3
    <2>2. CASE ~methods[i].active
      <3>1. ChangeSelectedDeployMethod(methods[i].name)
        BY <2>2 DEF InitiateDeploy
      <3>2. /\ methods' \in Seq(Method) /\ DOMAIN methods' = DOMAIN methods
            /\ \A j \in DOMAIN methods : /\ methods'[j].name = methods[j].name
                                         /\ methods'[j].url = methods[j].url
            /\ methods'[i].active
            /\ UpdateDeployOptionsDropdown(methods')
        BY <1>1, <3>1, SelectedMethods, Zenon
      <3>3. i \in Actives(methods')
        BY <3>2 DEF Actives
      <3>4. managerUrl' = ActiveUrl(methods') /\ managerUrl' \in Url
        BY <1>1, <3>2, <3>3, DropdownUrl
      <3> QED
        BY <3>2, <3>4
    <2> QED
      BY <2>1, <2>2
  <1>4. deploy' \in [1..MaxDeploys -> Deployment]
    <2> DEFINE d == [deploy[k] EXCEPT !.step = "check", !.clicked = methods[i].url]
    <2>0. deploy[k] \in Deployment /\ methods[i].url \in Url
      BY <1>1 DEF Method
    <2>1. d \in Deployment
      BY <2>0, Zenon DEF Deployment, AllSteps
    <2>2. deploy' = [deploy EXCEPT ![k] = d]
      BY <1>1, <1>2, Zenon
    <2> HIDE DEF d
    <2> QED
      BY <1>1, <2>1, <2>2
  <1>5. TypeOK'
    BY <1>2, <1>3, <1>4, TypeDef DEF IInv, PageType
  <1>6. NamesUnique'
    BY <1>3 DEF IInv, NamesUnique
  <1>7. UrlFollows'
    <2>1. ASSUME NEW l \in 1..MaxDeploys
          PROVE  deploy'[l].step \in {"idle", "check", "stopped"} \/ deploy'[l].to # NoUrl
      <3>1. CASE l = k
        BY <1>1, <1>2, <3>1 DEF Deployment
      <3>2. CASE l # k
        BY <1>1, <1>2, <3>2 DEF IInv, UrlFollows
      <3> QED
        BY <3>1, <3>2
    <2> QED
      BY <1>3, <1>4, <2>1 DEF UrlFollows, Actives, ActiveUrl
  <1>8. UrlSet'
    BY <1>3 DEF UrlSet
  <1>9. AllCovered'
    <2> SUFFICES ASSUME ~edited, NEW j \in DOMAIN methods
                 PROVE  Covered(methods[j])'
      BY <1>2, <1>3 DEF AllCovered
    <2>1. Covered(methods[j])
      BY DEF IInv, AllCovered
    <2> QED
      BY <1>2, <1>3, <2>1 DEF Covered
  <1> QED
    BY <1>5, <1>6, <1>7, <1>8, <1>9 DEF IInv

\* The edits of the user keep rows rows.
LEMMA RowTypes ==
  ASSUME IInv,
         \/ AddDeployMethod
         \/ \E i \in DOMAIN rows :
              \/ RemoveDeployMethod(i)
              \/ \E name \in Name, url \in Url : EditRow(i, name, url)
  PROVE  Edit /\ rows' \in Seq(Row)
  <1>1. rows \in Seq(Row) /\ DOMAIN rows = 1..Len(rows)
    BY TypeDef, LenProperties DEF IInv, PageType
  <1>2. CASE AddDeployMethod
    <2>1. [name |-> NoName, url |-> NoUrl, active |-> FALSE] \in Row
      BY DEF Row
    <2> QED
      BY <1>1, <1>2, <2>1, AppendProperties DEF AddDeployMethod
  <1>3. ASSUME NEW i \in DOMAIN rows, RemoveDeployMethod(i)
        PROVE  Edit /\ rows' \in Seq(Row)
    BY <1>1, <1>3, RemoveAtProperties DEF RemoveDeployMethod
  <1>4. ASSUME NEW i \in DOMAIN rows, NEW name \in Name, NEW url \in Url, EditRow(i, name, url)
        PROVE  Edit /\ rows' \in Seq(Row)
    <2> DEFINE r == [rows[i] EXCEPT !.name = name, !.url = url]
    <2>1. rows[i] \in Row
      BY <1>1, ElementOfSeq
    <2>2. r \in Row
      BY <2>1, Zenon DEF Row
    <2>3. rows' = [rows EXCEPT ![i] = r]
      BY <1>1, <1>4, <2>1, Zenon DEF EditRow, Row
    <2> HIDE DEF r
    <2>4. [rows EXCEPT ![i] = r] \in Seq(Row)
      BY <1>1, <2>2, ExceptSeq
    <2> QED
      BY <1>4, <2>3, <2>4, Zenon DEF EditRow
  <1> QED
    BY <1>2, <1>3, <1>4

\* Every step of the page keeps the invariant.
LEMMA NextIInv ==
  ASSUME IInv, [Next]_vars
  PROVE  IInv'
  <1>0. DOMAIN deploy = 1..MaxDeploys
    BY TypeDef DEF IInv, PageType
  <1>1. CASE \E i \in DOMAIN fills : RowFilled(i)
    BY <1>1, RowFilledStep
  <1>2. CASE Hidden
    BY <1>2, HiddenStep
  <1>3. CASE \E k \in DOMAIN deploy : Succeed(k) \/ Fail(k)
    BY <1>0, <1>3, SucceedStep, FailStep
  <1>4. CASE OpenSettingsModal \/ Dismiss
    BY <1>4, ModalStep
  <1>5. CASE SaveSettings
    BY <1>5, SaveStep
  <1>6. CASE \/ AddDeployMethod
             \/ \E i \in DOMAIN rows :
                  \/ RemoveDeployMethod(i)
                  \/ \E name \in Name, url \in Url : EditRow(i, name, url)
    BY <1>6, RowTypes, EditStep
  <1>7. CASE \E k \in DOMAIN deploy, i \in DOMAIN methods : InitiateDeploy(k, i)
    BY <1>0, <1>7, InitiateDeployStep
  <1>8. CASE UNCHANGED vars
    <2>1. UNCHANGED <<storage, deploy, rows, fills, modal, edited>>
      BY <1>8 DEF vars, dialog
    <2>2. AllCovered'
      BY <2>1 DEF IInv, AllCovered, Covered, storage
    <2> QED
      BY <2>1, <2>2, TypeDef, DialogStep DEF IInv, PageType
  <1> QED
    BY <1>1, <1>2, <1>3, <1>4, <1>5, <1>6, <1>7, <1>8 DEF Next, Answers

-----------------------------------------------------------------------------
(***************************************************************************)
(* Theorems                                                                *)
(***************************************************************************)
\* The invariant holds throughout.
LEMMA PageInvariant == Spec => []IInv
  <1>1. IInv /\ [Next]_vars => IInv'
    BY NextIInv
  <1> QED
    BY <1>1, InitIInv, PTL DEF Spec

\* The storage, the dialog and the deployments keep their types: saveSettings stores no
\* method without a name or a url.
THEOREM TypeCorrect == Spec => []TypeOK
  <1>1. IInv => TypeOK
    BY DEF IInv
  <1> QED
    BY <1>1, PageInvariant, PTL

\* Names stay identifiers of the stored methods, whatever rows come in while the dialog
\* is open, and whatever the user does to them.
THEOREM UniqueNames == Spec => []NamesUnique
  <1>1. IInv => NamesUnique
    BY DEF IInv
  <1> QED
    BY <1>1, PageInvariant, PTL

\* manager_url follows the active method, and a deployment whose url answered finds one.
THEOREM UrlsFollow == Spec => []UrlFollows
  <1>1. IInv => UrlFollows
    BY DEF IInv
  <1> QED
    BY <1>1, PageInvariant, PTL

\* In a dialog that is complete and was not edited, every method is kept by any step.
LEMMA KeepsStep ==
  ASSUME IInv, [Next]_vars, ~edited, fills = <<>>, NEW i \in DOMAIN methods
  PROVE  Kept(methods[i])
  <1>1. methods \in Seq(Method)
    BY TypeDef DEF IInv, PageType
  <1>2. CASE SaveSettings
    <2>1. Covered(methods[i])
      BY DEF IInv, AllCovered
    <2>2. PICK j \in DOMAIN rows : /\ rows[j].name \in {methods[i].name, FirstWord[methods[i].name]}
                                   /\ rows[j].url = methods[i].url
      BY <2>1 DEF Covered
    <2> QED
      BY <1>2, <2>2 DEF Kept, SaveSettings
  <1>3. ASSUME NEW k \in DOMAIN deploy, NEW j \in DOMAIN methods, InitiateDeploy(k, j)
        PROVE  Kept(methods[i])
    <2>1. CASE methods[j].active
      BY <1>3, <2>1 DEF Kept, InitiateDeploy, storage
    <2>2. CASE ~methods[j].active
      BY <1>1, <1>3, <2>2, SelectedMethods DEF Kept, InitiateDeploy
    <2> QED
      BY <2>1, <2>2
  <1>4. CASE methods' = methods
    BY <1>4 DEF Kept
  <1> QED
    BY <1>2, <1>3, <1>4, Zenon DEF Next, Answers, RowFilled, Hidden, Succeed, Fail, OpenSettingsModal,
       AddDeployMethod, Dismiss, RemoveDeployMethod, EditRow, Edit, storage, vars

\* Saving a dialog that is complete and was not edited loses no method: what
\* fillOutSettings asked for has come in, whatever was saved or dismissed before.
THEOREM SavesKeep == Spec => SaveKeeps
  <1>1. IInv /\ [Next]_vars =>
          [~edited /\ fills = <<>> => \A i \in DOMAIN methods : Kept(methods[i])]_vars
    BY KeepsStep
  <1> QED
    BY <1>1, PageInvariant, PTL DEF Spec, SaveKeeps
=============================================================================
