--------------------------------- MODULE Dashboard ---------------------------------
(* The React dashboard (App.tsx) against the API: what it shows is kept in component *)
(* state, filled by asynchronous loads that overlap each other, the operator's       *)
(* clicks and the changes others make at the server.  A callback runs from one await *)
(* to the next without interruption; each such stretch is one action.  The requests  *)
(* of one load are sent and awaited together and modelled as one.                    *)
EXTENDS Naturals, FiniteSets

CONSTANTS
    Device,      \* device ids
    NoDevice,    \* no device: an empty selection
    Present,     \* devices in the inventory when the dashboard opens
    Keyed,       \* those of them that have a key
    Alias,       \* aliases, NoAlias among them
    NoAlias,     \* null
    Operation,   \* operations offered, of AllOperations
    MaxClicks,   \* bound: clicks of the operator
    MaxPolls,    \* bound: polls under way at a time
    MaxChanges,  \* bound: changes by others
    MaxLost      \* bound: requests that fail

(* "alias" is saveAlias, "inline" saveInlineAlias; "edit" stands for saveProfile and  *)
(* toggleArchiveState, which are alike.                                              *)
AllOperations ==
    {"create", "enroll", "alias", "inline", "edit", "policy", "reissue", "export"}
ASSUME DashboardAssumption ==
    /\ NoDevice \notin Device
    /\ Keyed \subseteq Present /\ Present \subseteq Device
    /\ NoAlias \in Alias
    /\ Operation \subseteq AllOperations
    /\ MaxClicks \in Nat /\ MaxPolls \in Nat \ {0} /\ MaxChanges \in Nat /\ MaxLost \in Nat

(* A device as the API answers it: a version for all its columns, whether it has a   *)
(* key, and its alias.  Version 0 is no row.                                         *)
Row == [ver : Nat, keyed : BOOLEAN, alias : Alias]
NoRow == [ver |-> 0, keyed |-> FALSE, alias |-> NoAlias]
Snapshot == [Device -> Row]
NoSnapshot == [d \in Device |-> NoRow]
Listed(rows) == {d \in Device : rows[d].ver > 0}
NoProfile == [dev |-> NoDevice, row |-> NoRow]

VARIABLES
    server,      \* the inventory at the server
    list,        \* devices
    selected,    \* selectedDeviceId
    profile,     \* identityProfile, with the device it is of
    aliasInput,  \* the alias form of the selected device
    busy,        \* operations whose saving flag is set
    busyDevice,  \* busyDeviceId
    tasks,       \* callbacks waiting for an answer
    clicks, changes, lost,  \* how many there were
    unasked,     \* history: devices whose key was replaced without a question
    told         \* history: the alias the operator was told a device has now

view == <<list, selected, profile, aliasInput>>
flags == <<busy, busyDevice>>
counts == <<clicks, changes, lost>>
histories == <<unasked, told>>
dashboardVars == <<server, view, flags, tasks, counts, histories>>

Step == {"post", "posted", "core", "coreAnswered", "context", "contextAnswered"}
Task ==
    [id : Nat, kind : AllOperations \cup {"poll", "select"}, dev : Device \cup {NoDevice},
     step : Step, snap : Snapshot,
     alias : Alias,       \* the alias sent along
     context : BOOLEAN,   \* setDevicePolicy, saveInlineAlias: selected when clicked
     confirmed : BOOLEAN, \* saveIdentityKey: the operator was asked and agreed
     settled : BOOLEAN]   \* history: no load was under way when clicked

DashboardTypeOK ==
    /\ server \in Snapshot /\ list \in Snapshot
    /\ selected \in Device \cup {NoDevice}
    /\ profile \in [dev : Device \cup {NoDevice}, row : Row]
    /\ aliasInput \in Alias
    /\ busy = {t.kind : t \in {u \in tasks : u.kind \notin {"poll", "select", "policy"}}}
    /\ busyDevice = NoDevice \/ \E t \in tasks : t.kind = "policy" /\ t.dev = busyDevice
    /\ tasks \subseteq Task
    /\ \A t, u \in tasks : t.id = u.id => t = u
    /\ unasked \subseteq Device
    /\ told \in [Device -> Alias]

-----------------------------------------------------------------------------------
(* Tasks.                                                                            *)

NewId == CHOOSE i \in 1 .. Cardinality(tasks) + 1 : \A t \in tasks : t.id # i

NewTask(kind, d, step, a) ==
    [id |-> NewId, kind |-> kind, dev |-> d, step |-> step, snap |-> NoSnapshot, alias |-> a,
     context |-> kind \in {"policy", "inline"} /\ d = selected,
     confirmed |-> kind = "enroll" /\ profile.row.keyed,
     settled |-> kind = "enroll"
                    /\ \A t \in tasks : t.step \notin {"context", "contextAnswered"}]

At(t, step) == [t EXCEPT !.step = step, !.snap = NoSnapshot]

(* What is left of an operation after its request and after its loadCore.            *)
AfterPost(t) ==
    IF t.kind = "export" THEN {}
    ELSE {At(t, IF t.kind = "reissue" THEN "context" ELSE "core")}
AfterCore(t) ==
    IF t.kind = "poll" \/ (t.kind \in {"policy", "inline"} /\ ~t.context) THEN {}
    ELSE {At(t, "context")}

(* The effects on selectedDeviceId: the context of a new selection is loaded, and the *)
(* forms are filled once, from the row listed then.                                  *)
OnSelect(d) ==
    IF d \in {selected, NoDevice} THEN {} ELSE {NewTask("select", d, "context", NoAlias)}
AliasForm(d, rows) ==
    IF d = selected THEN aliasInput ELSE IF d = NoDevice THEN NoAlias ELSE rows[d].alias

(* The finally block of an operation that has ended.                                 *)
Released(t, rest) ==
    /\ busy' = IF rest = {} THEN busy \ {t.kind} ELSE busy
    /\ busyDevice' = IF rest = {} /\ t.kind = "policy" THEN NoDevice ELSE busyDevice

-----------------------------------------------------------------------------------
DashboardInit ==
    /\ server = [d \in Device |-> [ver |-> IF d \in Present THEN 1 ELSE 0,
                                   keyed |-> d \in Keyed, alias |-> NoAlias]]
    /\ list = NoSnapshot
    /\ selected = NoDevice
    /\ profile = NoProfile
    /\ aliasInput = NoAlias
    /\ busy = {} /\ busyDevice = NoDevice
    /\ tasks = {}
    /\ clicks = 0 /\ changes = 0 /\ lost = 0
    /\ unasked = {} /\ told = [d \in Device |-> NoAlias]

(* The timer does not wait for the answer to the poll before.                        *)
Poll ==
    /\ Cardinality({t \in tasks : t.kind = "poll"}) < MaxPolls
    /\ tasks' = tasks \cup {NewTask("poll", NoDevice, "core", NoAlias)}
    /\ UNCHANGED <<server, view, flags, counts, histories>>

(* A device, an operator elsewhere or a script changes a row or adds one.            *)
ServerChange(d) ==
    /\ changes < MaxChanges
    /\ changes' = changes + 1
    /\ server' = [server EXCEPT ![d].ver = @ + 1]
    /\ UNCHANGED <<view, flags, tasks, clicks, lost, histories>>

Click ==
    /\ clicks < MaxClicks
    /\ clicks' = clicks + 1
    /\ UNCHANGED <<server, list, profile, changes, lost, unasked>>

Select(d) ==
    /\ Click
    /\ d \in Listed(list) \ {selected}
    /\ selected' = d
    /\ aliasInput' = AliasForm(d, list)
    /\ tasks' = tasks \cup OnSelect(d)
    /\ UNCHANGED <<flags, told>>

(* A button with a saving flag; NoDevice is an operation of no device.               *)
Begin(kind, d, a) ==
    /\ Click
    /\ kind \in Operation \ busy
    /\ busy' = busy \cup {kind}
    /\ tasks' = tasks \cup {NewTask(kind, d, "post", a)}
    /\ UNCHANGED <<selected, busyDevice>>

(* The operator enters another alias: what was told before is void.                  *)
Void(d) == told' = [told EXCEPT ![d] = NoAlias]

CreateDevice(d, a) ==
    /\ Begin("create", d, a)
    /\ Void(d)
    /\ UNCHANGED aliasInput

(* The selected device has to be listed, and its profile loaded.                     *)
Editable == selected \in Listed(list) /\ profile # NoProfile

(* saveIdentityKey sends the alias form along, saveAlias what the operator has just   *)
(* entered there.  saveIdentityKey asks before it replaces a key, if the profile     *)
(* shown has one.                                                                    *)
EditSelected(kind, a) ==
    /\ Editable
    /\ kind \in {"edit", "reissue"} => a = NoAlias
    /\ kind = "enroll" => a = aliasInput
    /\ Begin(kind, selected, a)
    /\ IF kind = "alias" THEN aliasInput' = a /\ Void(selected)
       ELSE UNCHANGED <<aliasInput, told>>

(* The editor in the row of a device, which has an input of its own.                 *)
SaveInlineAlias(d, a) ==
    /\ d \in Listed(list)
    /\ Begin("inline", d, a)
    /\ Void(d)
    /\ UNCHANGED aliasInput

DownloadExport ==
    /\ Begin("export", NoDevice, NoAlias)
    /\ UNCHANGED <<aliasInput, told>>

(* One flag for all rows: a click on another row overwrites it.                      *)
SetDevicePolicy(d) ==
    /\ Click
    /\ "policy" \in Operation
    /\ d \in Listed(list) \ {busyDevice}
    /\ busyDevice' = d
    /\ tasks' = tasks \cup {NewTask("policy", d, "post", NoAlias)}
    /\ UNCHANGED <<selected, aliasInput, busy, told>>

-----------------------------------------------------------------------------------
(* The server answers: a request takes effect, a load reads what is there.           *)

Effect(t) ==
    CASE t.kind \in {"reissue", "export"} -> server
      [] t.kind \in {"policy", "edit"} -> [server EXCEPT ![t.dev].ver = @ + 1]
      [] OTHER -> [server EXCEPT ![t.dev] =
                    [ver |-> @.ver + 1, keyed |-> @.keyed \/ t.kind = "enroll", alias |-> t.alias]]

ServePost(t) ==
    /\ t.step = "post"
    /\ server' = Effect(t)
    /\ unasked' =
        IF t.kind = "enroll" /\ server[t.dev].keyed /\ t.settled /\ ~t.confirmed
        THEN unasked \cup {t.dev} ELSE unasked
    /\ tasks' = (tasks \ {t}) \cup {At(t, "posted")}

ServeLoad(t) ==
    /\ t.step \in {"core", "context"}
    /\ tasks' = (tasks \ {t}) \cup
            {IF t.step = "core" THEN [t EXCEPT !.step = "coreAnswered", !.snap = server]
             ELSE [t EXCEPT !.step = "contextAnswered", !.snap[t.dev] = server[t.dev]]}
    /\ UNCHANGED <<server, unasked>>

Serve(id) ==
    /\ \E t \in tasks : t.id = id /\ (ServePost(t) \/ ServeLoad(t))
    /\ UNCHANGED <<view, flags, counts, told>>

-----------------------------------------------------------------------------------
(* A callback goes on with its answer.                                               *)

ReceivePosted(t) ==
    /\ t.step = "posted"
    /\ tasks' = (tasks \ {t}) \cup AfterPost(t)
    /\ told' = IF t.kind \in {"alias", "inline"} THEN [told EXCEPT ![t.dev] = t.alias] ELSE told
    /\ Released(t, AfterPost(t))
    /\ UNCHANGED view

(* Mutant: the dashboard leaves every selection to the operator.                     *)
SelectionsByClick(rows) == {selected}
(* The selections that may follow a list of rows: the first row, whose order is not  *)
(* modelled, if the one there was is gone.                                           *)
Selections(rows) ==
    IF selected \in Listed(rows) THEN {selected}
    ELSE IF Listed(rows) = {} THEN {NoDevice} ELSE Listed(rows)

(* Mutant: the answer adds the rows that are new and leaves those there are.         *)
ReceiveCoreAdding(t) ==
    /\ t.step = "coreAnswered"
    /\ list' = [d \in Device |-> IF d \in Listed(list) THEN list[d] ELSE t.snap[d]]
    /\ \E d \in Selections(t.snap) : selected' = IF t.kind = "create" THEN t.dev ELSE d
    /\ profile' = IF selected' = NoDevice THEN NoProfile ELSE profile
    /\ aliasInput' = AliasForm(selected', list')
    /\ tasks' = (tasks \ {t}) \cup AfterCore(t) \cup OnSelect(selected')
    /\ Released(t, AfterCore(t))
    /\ UNCHANGED told
(* createDevice then selects its device.  An older answer may overwrite a newer one. *)
ReceiveCore(t) ==
    /\ t.step = "coreAnswered"
    /\ list' = t.snap
    /\ \E d \in Selections(t.snap) : selected' = IF t.kind = "create" THEN t.dev ELSE d
    /\ profile' = IF selected' = NoDevice THEN NoProfile ELSE profile
    /\ aliasInput' = AliasForm(selected', list')
    /\ tasks' = (tasks \ {t}) \cup AfterCore(t) \cup OnSelect(selected')
    /\ Released(t, AfterCore(t))
    /\ UNCHANGED told

(* The selection may have changed since the load was sent; nothing looks at it.      *)
ReceiveContext(t) ==
    /\ t.step = "contextAnswered"
    /\ profile' = [dev |-> t.dev, row |-> t.snap[t.dev]]
    /\ tasks' = tasks \ {t}
    /\ Released(t, {})
    /\ UNCHANGED <<list, selected, aliasInput, told>>

Receive(id) ==
    /\ \E t \in tasks : t.id = id /\ (ReceivePosted(t) \/ ReceiveCore(t) \/ ReceiveContext(t))
    /\ UNCHANGED <<server, counts, unasked>>

(* Mutant: the flag is cleared where the answer is handled, not in a finally block.  *)
FailEndsSilently(t) ==
    /\ t.step \notin {"core", "coreAnswered"}
    /\ tasks' = tasks \ {t}
    /\ UNCHANGED <<view, flags>>
(* Mutant: createDevice selects its device in the finally block.                     *)
FailEndsSelecting(t) ==
    /\ t.step \notin {"core", "coreAnswered"}
    /\ selected' = IF t.kind = "create" THEN t.dev ELSE selected
    /\ tasks' = tasks \ {t}
    /\ Released(t, {})
    /\ UNCHANGED <<list, profile, aliasInput>>
(* A failed request or context ends the operation.                                   *)
FailEnds(t) ==
    /\ t.step \notin {"core", "coreAnswered"}
    /\ tasks' = tasks \ {t}
    /\ Released(t, {})
    /\ UNCHANGED view

(* loadCore reports its failure itself, and the operation goes on.                   *)
FailCore(t) ==
    /\ t.step \in {"core", "coreAnswered"}
    /\ selected' = IF t.kind = "create" THEN t.dev ELSE selected
    /\ aliasInput' = AliasForm(selected', list)
    /\ tasks' = (tasks \ {t}) \cup AfterCore(t) \cup OnSelect(selected')
    /\ Released(t, AfterCore(t))
    /\ UNCHANGED <<list, profile>>

(* A request is lost on its way or its answer is; the server may have acted on it.   *)
Lose(id) ==
    /\ lost < MaxLost
    /\ lost' = lost + 1
    /\ \E t \in tasks : t.id = id /\ (FailEnds(t) \/ FailCore(t))
    /\ UNCHANGED <<server, clicks, changes, histories>>

TaskId == 1 .. MaxPolls + 2 * MaxClicks + 2

DashboardNext ==
    \/ Poll
    \/ \E d \in Device :
        \/ ServerChange(d) \/ Select(d) \/ SetDevicePolicy(d)
        \/ \E a \in Alias : CreateDevice(d, a) \/ SaveInlineAlias(d, a)
    \/ \E kind \in {"enroll", "alias", "edit", "reissue"}, a \in Alias : EditSelected(kind, a)
    \/ DownloadExport
    \/ \E id \in TaskId : Serve(id) \/ Receive(id) \/ Lose(id)

(* The timer keeps firing, and every request is answered and its answer handled.     *)
DashboardFairness ==
    /\ WF_dashboardVars(Poll)
    /\ \A id \in TaskId : WF_dashboardVars(Serve(id) \/ Receive(id))

DashboardSpec == DashboardInit /\ [][DashboardNext]_dashboardVars /\ DashboardFairness

-----------------------------------------------------------------------------------
(* Whatever overlaps, once the server rests the list becomes and stays what it has:  *)
(* an old answer that overwrites a new one does not have the last word.              *)
ListConverges == <>[](list = server)

(* The dashboard does not stay on a device it has no row of, as it can be for a      *)
(* while when an old answer or a failed load crosses a creation.                     *)
SelectionConverges == <>[](selected \in Listed(list))

(* No operation keeps its button disabled, whichever of its requests fails.          *)
OperationsEnd ==
    /\ \A kind \in Operation : []<>(kind \notin busy)
    /\ \A d \in Device : []<>(busyDevice # d)

(* A row as the server has it, or as it had it at an earlier version.                *)
Served(row, d) == row.ver <= server[d].ver /\ (row.ver = server[d].ver => row = server[d])

(* Nothing is invented: whatever answers cross and whatever requests are lost, each   *)
(* row shown is one the server has or had, the device selected is one it has, and so *)
(* is the device of every request but that of a creation (loadCore, createDevice,    *)
(* App.tsx:731-791, 905-947).                                                        *)
NothingInvented ==
    /\ \A d \in Device : Served(list[d], d)
    /\ profile.dev = NoDevice \/ Served(profile.row, profile.dev)
    /\ selected \in Listed(server) \cup {NoDevice}
    /\ \A t \in tasks :
        t.dev \in Listed(server) \cup {NoDevice} \/ (t.kind = "create" /\ t.step = "post")

(* "Rotating the key will reset this device to enrolled until it verifies again.     *)
(* Continue?" (App.tsx:1068): no key is replaced before the operator was asked.  The *)
(* question depends on the profile shown, even one of another device whose answer    *)
(* came last; clicks made while one is loading are not held against it.              *)
RotationConfirmed == unasked = {}

(* "Alias updated to ..." (App.tsx:1036): an alias the operator was told a device has *)
(* stays until the operator enters another one.                                      *)
RenameKept == \A d \in Device : told[d] \in {NoAlias, server[d].alias}
=============================================================================
