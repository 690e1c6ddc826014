------------------------------ MODULE DeployPage ----------------------------
(***************************************************************************)
(* The translator's page in a browser (main.js): the deploy methods a user *)
(* keeps in the local storage and edits in a dialog, which is filled from  *)
(* the storage row by row as requests are answered, and the deployment of  *)
(* a graph with the method that was clicked.  A callback runs to its next  *)
(* await without interruption.                                             *)
(***************************************************************************)
EXTENDS Integers, Sequences

CONSTANTS
  Name, Url,     \* names of deploy methods, and addresses of managers
  NoName, NoUrl, \* what the fields of a new row hold
  FirstWord,     \* a name up to its first blank
  Stored,        \* the methods in the storage when the page is loaded
  MaxOpens,      \* bound: times the dialog is opened
  MaxEdits,      \* bound: changes of its rows
  MaxDeploys,    \* bound: clicks on a deploy method
  MaxFailures    \* bound: requests of a deployment that fail

Method == [name : Name, url : Url, active : BOOLEAN]
Row == [name : Name \cup {NoName}, url : Url \cup {NoUrl}, active : BOOLEAN]

ASSUME PageAssumption ==
  /\ NoName \notin Name /\ NoUrl \notin Url
  /\ FirstWord \in [Name -> Name]
  /\ Stored \in Seq(Method)
  /\ \A i, j \in DOMAIN Stored : i # j => Stored[i].name # Stored[j].name
  /\ MaxOpens \in Nat /\ MaxEdits \in Nat /\ MaxDeploys \in Nat /\ MaxFailures \in Nat

VARIABLES
  methods,     \* deployMethods in the local storage
  managerUrl,  \* manager_url in the local storage, or NoUrl
  rows,        \* the rows of the dialog
  fills,       \* rows that are appended when the checks of their url are answered
  modal,       \* "closed", "open", or "hiding"
  deploy,      \* the deployments: the step they wait for, and what they know
  opens, edits, failures,
  edited       \* history: the user changed rows since the dialog was filled

storage == <<methods, managerUrl>>
dialog == <<rows, fills, modal>>
vars == <<storage, dialog, deploy, opens, edits, failures, edited>>

-----------------------------------------------------------------------------
(***************************************************************************)
(* The storage.                                                            *)
(***************************************************************************)
Actives(ms) == {i \in DOMAIN ms : ms[i].active}

LastActive(ms) == CHOOSE i \in Actives(ms) : \A j \in Actives(ms) : j <= i

ActiveUrl(ms) == ms[LastActive(ms)].url

\* updateDeployOptionsDropdown: manager_url is that of the last active method;
\* without one it stays as it is.
UpdateDeployOptionsDropdown(ms) ==
  managerUrl' = IF Actives(ms) = {} THEN managerUrl ELSE ActiveUrl(ms)

\* Mutant: rows that are already on their way are not asked for again.
FillOutSettingsOnce(ms) ==
  /\ rows' = <<>>
  /\ fills' = IF fills = <<>> THEN ms ELSE fills

\* fillOutSettings, up to the first await of each row.
FillOutSettings(ms) ==
  /\ rows' = <<>>
  /\ fills' = fills \o ms

\* The page is loaded.
Init ==
  /\ methods = Stored
  /\ managerUrl = IF Actives(Stored) = {} THEN NoUrl ELSE ActiveUrl(Stored)
  /\ rows = <<>> /\ fills = Stored /\ modal = "closed"
  /\ deploy = [k \in 1..MaxDeploys |->
                 [step |-> "idle", clicked |-> NoUrl, to |-> NoUrl, spec |-> TRUE, warned |-> FALSE]]
  /\ opens = 0 /\ edits = 0 /\ failures = 0 /\ edited = FALSE

\* Mutant: the selected method is stored, and manager_url is not.
ChangeSelectedDeployMethodOnly(name) ==
  /\ methods' = [i \in DOMAIN methods |-> [methods[i] EXCEPT !.active = methods[i].name = name]]
  /\ UNCHANGED managerUrl

ChangeSelectedDeployMethod(name) ==
  /\ methods' = [i \in DOMAIN methods |-> [methods[i] EXCEPT !.active = methods[i].name = name]]
  /\ UpdateDeployOptionsDropdown(methods')

-----------------------------------------------------------------------------
(***************************************************************************)
(* The dialog.                                                             *)
(***************************************************************************)
\* A sequence without its k-th element.
RemoveAt(s, k) == SubSeq(s, 1, k - 1) \o SubSeq(s, k + 1, Len(s))

\* A row of fillOutSettings is appended, in the order the answers come in.  The
\* name is not quoted in the HTML, and ends at a blank.
RowFilled(i) ==
  /\ rows' = Append(rows, [fills[i] EXCEPT !.name = FirstWord[@]])
  /\ fills' = RemoveAt(fills, i)
  /\ UNCHANGED <<storage, modal, deploy, opens, edits, failures, edited>>

Edit ==
  /\ modal = "open" /\ edits < MaxEdits
  /\ edits' = edits + 1
  /\ edited' = TRUE
  /\ UNCHANGED <<storage, fills, modal, deploy, opens, failures>>

OpenSettingsModal ==
  /\ modal = "closed" /\ opens < MaxOpens
  /\ opens' = opens + 1
  /\ modal' = "open"
  /\ UNCHANGED <<storage, rows, fills, deploy, edits, failures, edited>>

\* A new row, which the user fills in; or an existing one is edited.
AddDeployMethod ==
  Edit /\ rows' = Append(rows, [name |-> NoName, url |-> NoUrl, active |-> FALSE])

EditRow(i, name, url) ==
  /\ Edit
  /\ rows' = [rows EXCEPT ![i].name = name, ![i].url = url]
  /\ rows' # rows

RemoveDeployMethod(i) == Edit /\ rows' = RemoveAt(rows, i)

\* Mutant: names that occur twice are accepted.
FilledOutTwice(rs) == \A i \in DOMAIN rs : rs[i].name # NoName /\ rs[i].url # NoUrl

FilledOut(rs) ==
  /\ \A i \in DOMAIN rs : rs[i].name # NoName /\ rs[i].url # NoUrl
  /\ \A i, j \in DOMAIN rs : i # j => rs[i].name # rs[j].name

\* saveSettings: with a mistake in the rows it only shows a message.
SaveSettings ==
  /\ modal = "open" /\ FilledOut(rows)
  /\ methods' = rows
  /\ UpdateDeployOptionsDropdown(rows)
  /\ modal' = "hiding"
  /\ UNCHANGED <<rows, fills, deploy, opens, edits, failures, edited>>

\* The dialog is dismissed without saving.
Dismiss ==
  /\ modal = "open"
  /\ modal' = "hiding"
  /\ UNCHANGED <<storage, rows, fills, deploy, opens, edits, failures, edited>>

\* hidden.bs.modal: the dialog is filled again.
Hidden ==
  /\ modal = "hiding"
  /\ modal' = "closed"
  /\ FillOutSettings(methods)
  /\ edited' = FALSE
  /\ UNCHANGED <<storage, deploy, opens, edits, failures>>

-----------------------------------------------------------------------------
(***************************************************************************)
(* Deploying.                                                              *)
(***************************************************************************)
\* initiateDeploy, up to the check of the url.  The methods that are not active
\* are in a menu behind the dialog; the active one has a key.
InitiateDeploy(k, i) ==
  /\ deploy[k].step = "idle" /\ (k > 1 => deploy[k - 1].step # "idle")
  /\ methods[i].active \/ modal = "closed"
  /\ deploy' = [deploy EXCEPT ![k].step = "check", ![k].clicked = methods[i].url]
  /\ IF methods[i].active THEN UNCHANGED storage
     ELSE ChangeSelectedDeployMethod(methods[i].name)
  /\ UNCHANGED <<dialog, opens, edits, failures, edited>>

Steps == <<"check", "nodes", "pgt", "spec", "create", "append", "deploy", "opened">>
\* Mutant: the template is asked for again until it fits the nodes.
AfterAgain(step) ==
  IF step = "spec" THEN "pgt" ELSE Steps[1 + CHOOSE i \in DOMAIN Steps : Steps[i] = step]

After(step) == Steps[1 + CHOOSE i \in DOMAIN Steps : Steps[i] = step]

Pending(k) == deploy[k].step \notin {"idle", "opened", "stopped"}

\* A request is answered.  directRestDeploy takes manager_url from the storage
\* when the url that was clicked has answered.  Without the graph's specification
\* a session is created all the same, and then nothing can be appended.
Succeed(k) ==
  /\ Pending(k)
  /\ deploy' = [deploy EXCEPT
       ![k].step = IF @ = "create" /\ ~deploy[k].spec THEN "stopped" ELSE After(@),
       ![k].to = IF deploy[k].step = "check" THEN managerUrl ELSE @]
  /\ UNCHANGED <<storage, dialog, opens, edits, failures, edited>>

\* A request fails.  The check, the list of nodes and the last two requests end
\* the deployment, the others show a message and go on.
Fail(k) ==
  /\ Pending(k) /\ failures < MaxFailures
  /\ failures' = failures + 1
  /\ LET step == deploy[k].step IN
     deploy' = [deploy EXCEPT
       ![k].step = IF step \in {"check", "nodes", "append", "deploy"}
                      \/ (step = "create" /\ ~deploy[k].spec)
                   THEN "stopped" ELSE After(step),
       ![k].spec = @ /\ step # "spec",
       ![k].warned = @ \/ step \in {"pgt", "spec", "create"}]
  /\ UNCHANGED <<storage, dialog, opens, edits, edited>>

-----------------------------------------------------------------------------
Answers ==
  \/ \E i \in DOMAIN fills : RowFilled(i)
  \/ Hidden
  \/ \E k \in DOMAIN deploy : Succeed(k) \/ Fail(k)

Next ==
  \/ Answers
  \/ OpenSettingsModal \/ AddDeployMethod \/ SaveSettings \/ Dismiss
  \/ \E i \in DOMAIN rows :
       \/ RemoveDeployMethod(i)
       \/ \E name \in Name, url \in Url : EditRow(i, name, url)
  \/ \E k \in DOMAIN deploy, i \in DOMAIN methods : InitiateDeploy(k, i)

\* Requests are answered or fail; the user is free.
Spec == Init /\ [][Next]_vars /\ WF_vars(Answers)

-----------------------------------------------------------------------------
(***************************************************************************)
(* Properties                                                              *)
(***************************************************************************)
\* The type invariant of the page.  No unnamed method is ever stored.
TypeOK ==
  /\ methods \in Seq(Method) /\ rows \in Seq(Row) /\ fills \in Seq(Method)
  /\ managerUrl \in Url \cup {NoUrl}
  /\ modal \in {"closed", "open", "hiding"}
  /\ deploy \in [1..MaxDeploys -> [step : {Steps[i] : i \in DOMAIN Steps} \cup {"idle", "stopped"},
                                   clicked : Url \cup {NoUrl}, to : Url \cup {NoUrl},
                                   spec : BOOLEAN, warned : BOOLEAN]]

\* Names identify methods ("the name is used as an id of sorts"), although the
\* rows of two overlapping fillOutSettings come in together.
NamesUnique ==
  \A i, j \in DOMAIN methods : i # j => methods[i].name # methods[j].name

\* manager_url, which is kept apart from the methods, is that of the active one,
\* and every deployment that has passed the check of its url has one: the branch
\* of directRestDeploy for an unset manager_url is never taken.
UrlFollows ==
  /\ Actives(methods) # {} => managerUrl = ActiveUrl(methods)
  /\ \A k \in DOMAIN deploy :
       deploy[k].step \in {"idle", "check", "stopped"} \/ deploy[k].to # NoUrl

Kept(m) ==
  \E j \in DOMAIN methods' : /\ methods'[j].name \in {m.name, FirstWord[m.name]}
                             /\ methods'[j].url = m.url

\* Settings that are saved as they were filled in lose no method, however often
\* the dialog was opened and filled meanwhile, provided all rows have come in.
SaveKeeps ==
  [][~edited /\ fills = <<>> => \A i \in DOMAIN methods : Kept(methods[i])]_vars

\* A deployment comes to an end, with the page of the session or a message.
DeploysEnd == \A k \in 1..MaxDeploys : Pending(k) ~> ~Pending(k)

\* Settings that are saved unedited lose no method.  TLC refutes this and the
\* following ones: see the README.
SaveKeepsFilling == [][~edited => \A i \in DOMAIN methods : Kept(methods[i])]_vars

\* They keep the names of the methods.
SaveKeepsNames ==
  [][~edited /\ fills = <<>> =>
       \A i \in DOMAIN methods : \E j \in DOMAIN methods' : methods'[j].name = methods[i].name]_vars

\* They keep the method that was selected.
SaveKeepsSelection ==
  [][~edited /\ fills = <<>> /\ modal = "open" => managerUrl' = managerUrl]_vars

\* A graph is deployed to the manager that was clicked, and checked.
WhereClicked ==
  \A k \in DOMAIN deploy : deploy[k].to # NoUrl => deploy[k].to = deploy[k].clicked

\* Nothing is sent to the manager after "Unable to continue!".
UnableMeansStop ==
  \A k \in DOMAIN deploy :
    deploy[k].warned => deploy[k].step \notin {"create", "append", "deploy", "opened"}
=============================================================================
