------------------------------ MODULE DashboardProofs ------------------------------
(* Theorems of Dashboard, for any number of devices, polls and clicks: whatever the  *)
(* callbacks overlap with, a flag is set exactly while its operation is under way.   *)
EXTENDS Dashboard, FiniteSetTheorems, TLAPS

Unflagged == {"poll", "select", "policy"}
(* The operations whose flag is to be set.                                           *)
Flags(S) == {t.kind : t \in {u \in S : u.kind \notin Unflagged}}

(* A poll ends with its core, an export with its request; the rest is of a device.   *)
OfDevice(t) ==
    \/ t.dev \in Device
    \/ t.kind = "poll" /\ t.step \in {"core", "coreAnswered"}
    \/ t.kind = "export" /\ t.step \in {"post", "posted"}
Tasks(S) ==
    /\ S \subseteq Task /\ IsFiniteSet(S)
    /\ \A t, u \in S : t.id = u.id => t = u
    /\ \A t, u \in S : t.kind = u.kind => t = u \/ t.kind \in Unflagged
    /\ \A t \in S : OfDevice(t)

ViewType ==
    /\ server \in Snapshot /\ list \in Snapshot
    /\ selected \in Device \cup {NoDevice}
    /\ profile \in [dev : Device \cup {NoDevice}, row : Row]
    /\ aliasInput \in Alias
    /\ unasked \subseteq Device
    /\ told \in [Device -> Alias]
BusyDevice(dev, S) == dev = NoDevice \/ \E t \in S : t.kind = "policy" /\ t.dev = dev
FlagInv == Tasks(tasks) /\ busy = Flags(tasks) /\ BusyDevice(busyDevice, tasks)
DashboardInv == ViewType /\ FlagInv

-----------------------------------------------------------------------------------
(* Sets of tasks.                                                                    *)

LEMMA NewIdIsNew ==
    ASSUME Tasks(tasks) PROVE NewId \in Nat /\ \A t \in tasks : t.id # NewId
  <1> DEFINE n == Cardinality(tasks)
             Free(i) == \A t \in tasks : t.id # i
  <1>1. IsFiniteSet(tasks) /\ n \in Nat
    BY FS_CardinalityType DEF Tasks
  <1>2. \E i \in 1 .. n + 1 : Free(i)
    <2> SUFFICES ASSUME \A i \in 1 .. n + 1 : \E t \in tasks : t.id = i PROVE FALSE
      OBVIOUS
    <2> DEFINE f == [i \in 1 .. n + 1 |-> CHOOSE t \in tasks : t.id = i]
    <2>1. \A i \in 1 .. n + 1 : f[i] \in tasks /\ f[i].id = i
      OBVIOUS
    <2>2. f \in [1 .. n + 1 -> tasks]
      BY <2>1
    <2>3. IsFiniteSet(1 .. n + 1) /\ Cardinality(1 .. n + 1) = n + 1
      <3>1. 1 \in Int /\ n + 1 \in Int /\ ~(1 > n + 1) /\ n + 1 - 1 + 1 = n + 1
        BY <1>1
      <3> QED BY <3>1, FS_Interval
    <2>4. Cardinality(tasks) < Cardinality(1 .. n + 1)
      BY <1>1, <2>3
    <2> HIDE DEF f
    <2>5. \E i, j \in 1 .. n + 1 : i # j /\ f[i] = f[j]
      BY <1>1, <2>2, <2>3, <2>4, FS_PigeonHole
    <2> QED BY <2>1, <2>5
  <1>3. NewId \in 1 .. n + 1 /\ Free(NewId)
    BY <1>2 DEF NewId
  <1> QED BY <1>1, <1>3

LEMMA TasksRemoved == ASSUME NEW S, Tasks(S), NEW T \in SUBSET S PROVE Tasks(T)
  BY FS_Subset DEF Tasks

LEMMA TaskAdded ==
    ASSUME NEW S, Tasks(S), NEW n \in Task, OfDevice(n), \A t \in S : t.id # n.id,
           n.kind \in Unflagged \/ \A t \in S : t.kind # n.kind
    PROVE  Tasks(S \cup {n})
  <1>1. IsFiniteSet(S \cup {n})
    BY FS_AddElement DEF Tasks
  <1> QED BY <1>1 DEF Tasks

(* A callback that goes on has the same task at another step.                        *)
Continues(v, t) ==
    v \in Task /\ v.id = t.id /\ v.kind = t.kind /\ v.dev = t.dev /\ OfDevice(v)

(* Another callback starts.                                                          *)
LEMMA TaskStarts ==
    ASSUME FlagInv, NEW n \in Task, OfDevice(n), n.id = NewId,
           n.kind \in Unflagged \/ n.kind \notin busy
    PROVE  /\ Tasks(tasks \cup {n})
           /\ Flags(tasks \cup {n}) = busy \cup ({n.kind} \ Unflagged)
           /\ BusyDevice(busyDevice, tasks \cup {n})
  <1>1. n.kind \in Unflagged \/ \A t \in tasks : t.kind # n.kind
    BY DEF FlagInv, Flags
  <1>2. Tasks(tasks \cup {n})
    BY <1>1, NewIdIsNew, TaskAdded DEF FlagInv
  <1> QED BY <1>2 DEF FlagInv, Flags, BusyDevice

(* A callback goes on or ends, and may have changed the selection on the way.        *)
LEMMA TaskGoesOn ==
    ASSUME FlagInv, NEW t \in tasks, NEW rest, Released(t, rest),
           rest = {} \/ \E v : rest = {v} /\ Continues(v, t),
           NEW more, more = {} \/ \E n \in Task : /\ more = {n} /\ n.id = NewId
                                                  /\ n.kind = "select" /\ OfDevice(n),
           tasks' = (tasks \ {t}) \cup rest \cup more
    PROVE  FlagInv'
  <1> DEFINE kept == tasks \ {t}
             going == kept \cup rest
  <1>1. Tasks(kept) /\ t \in Task /\ \A u \in kept : u.id # t.id
    <2>1. Tasks(kept)
      BY TasksRemoved DEF FlagInv
    <2> QED BY <2>1 DEF FlagInv, Tasks
  <1>2. t.kind \in Unflagged \/ \A u \in kept : u.kind # t.kind
    BY DEF FlagInv, Tasks
  <1>3. Tasks(going) /\ \A u \in going : u.id # NewId
    <2>1. CASE rest = {}
      BY <1>1, <2>1, NewIdIsNew DEF FlagInv
    <2>2. ASSUME NEW v, rest = {v}, Continues(v, t) PROVE Tasks(going) /\ v.id # NewId
      <3>1. v \in Task /\ OfDevice(v) /\ v.id = t.id /\ v.kind = t.kind
        BY <2>2 DEF Continues
      <3>2. Tasks(kept \cup {v})
        BY <1>1, <1>2, <3>1, TaskAdded
      <3> QED BY <2>2, <3>1, <3>2, NewIdIsNew DEF FlagInv
    <2>3. \A u \in kept : u.id # NewId
      BY NewIdIsNew DEF FlagInv
    <2> QED BY <2>1, <2>2, <2>3
  <1>4. tasks' = going \cup more
    OBVIOUS
  <1>5. Tasks(tasks')
    <2>1. ASSUME NEW n \in Task, more = {n}, n.id = NewId, n.kind = "select", OfDevice(n)
          PROVE  Tasks(going \cup {n})
      BY <1>3, <2>1, TaskAdded DEF Unflagged
    <2> QED BY <1>3, <1>4, <2>1
  <1>6. Flags(tasks') = Flags(going)
    BY <1>4 DEF Flags, Unflagged
  <1>7. busy' = Flags(going)
    <2>1. CASE rest = {}
      <3>1. Flags(kept) = Flags(tasks) \ {t.kind}
        BY <1>2 DEF Flags
      <3> QED BY <2>1, <3>1 DEF Released, FlagInv
    <2>2. ASSUME NEW v, rest = {v}, Continues(v, t) PROVE busy' = Flags(going)
      <3>1. Flags(going) = Flags(tasks)
        BY <2>2 DEF Flags, Continues
      <3> QED BY <2>2, <3>1 DEF Released, FlagInv
    <2> QED BY <2>1, <2>2
  <1>8. BusyDevice(busyDevice', tasks')
    <2>1. CASE rest = {} /\ t.kind = "policy"
      BY <2>1 DEF Released, BusyDevice
    <2>2. CASE rest = {} /\ t.kind # "policy"
      BY <2>2 DEF Released, BusyDevice, FlagInv
    <2>3. ASSUME NEW v, rest = {v}, Continues(v, t) PROVE BusyDevice(busyDevice', tasks')
      BY <2>3 DEF Released, BusyDevice, FlagInv, Continues
    <2> QED BY <2>1, <2>2, <2>3
  <1> QED BY <1>5, <1>6, <1>7, <1>8 DEF FlagInv

-----------------------------------------------------------------------------------
(* The types of what tasks are made of.                                              *)

LEMMA Empty == NoRow \in Row /\ NoSnapshot \in Snapshot /\ NoProfile.row = NoRow
  BY DashboardAssumption DEF NoRow, Row, NoSnapshot, Snapshot, NoProfile

LEMMA NewTaskType ==
    ASSUME ViewType, Tasks(tasks),
           NEW kind \in AllOperations \cup {"poll", "select"}, NEW d \in Device \cup {NoDevice},
           NEW step \in Step, NEW a \in Alias
    PROVE  LET n == NewTask(kind, d, step, a) IN
           /\ n \in Task /\ n.id = NewId /\ n.kind = kind /\ n.dev = d /\ n.step = step
  <1>1. NewId \in Nat
    BY NewIdIsNew
  <1>2. profile.row.keyed \in BOOLEAN
    BY DEF ViewType, Row
  <1> QED BY <1>1, <1>2, Empty DEF NewTask, Task

LEMMA AtType ==
    ASSUME NEW t \in Task, NEW step \in Step
    PROVE  LET v == At(t, step) IN
           /\ v \in Task /\ v.id = t.id /\ v.kind = t.kind /\ v.dev = t.dev /\ v.step = step
           /\ v.context = t.context
  BY Empty DEF At, Task

LEMMA OnSelectEffect ==
    ASSUME ViewType, Tasks(tasks), NEW d \in Device \cup {NoDevice}
    PROVE  OnSelect(d) = {} \/ \E n \in Task : /\ OnSelect(d) = {n} /\ n.id = NewId
                                               /\ n.kind = "select" /\ OfDevice(n)
  <1>1. CASE d \in {selected, NoDevice}
    BY <1>1 DEF OnSelect
  <1>2. CASE d \notin {selected, NoDevice}
    <2> DEFINE n == NewTask("select", d, "context", NoAlias)
    <2>1. n \in Task /\ n.id = NewId /\ n.kind = "select" /\ n.dev = d
      <3>1. "select" \in AllOperations \cup {"poll", "select"} /\ "context" \in Step
        BY DEF Step
      <3> QED BY <3>1, NewTaskType, DashboardAssumption
    <2> HIDE DEF n
    <2>2. OfDevice(n)
      BY <1>2, <2>1 DEF OfDevice
    <2>3. OnSelect(d) = {n}
      BY <1>2 DEF OnSelect, n
    <2> QED BY <2>1, <2>2, <2>3
  <1> QED BY <1>1, <1>2

LEMMA AliasFormType ==
    ASSUME ViewType, NEW d \in Device \cup {NoDevice}, NEW rows \in Snapshot
    PROVE  AliasForm(d, rows) \in Alias
  BY DashboardAssumption DEF AliasForm, ViewType, Snapshot, Row

(* What is left of an operation is the same task at its next step.                   *)
LEMMA AfterEffect ==
    ASSUME Tasks(tasks), NEW t \in tasks
    PROVE  /\ t.step \in {"posted", "post"} =>
                AfterPost(t) = {} \/ \E v : AfterPost(t) = {v} /\ Continues(v, t)
           /\ t.step \in {"core", "coreAnswered"} =>
                AfterCore(t) = {} \/ \E v : AfterCore(t) = {v} /\ Continues(v, t)
  <1>0. t \in Task /\ OfDevice(t)
    BY DEF Tasks
  <1>1. ASSUME t.step \in {"posted", "post"}, t.kind # "export",
               NEW step \in {"core", "context"}
        PROVE  Continues(At(t, step), t)
    <2>1. step \in Step
      BY DEF Step
    <2>2. t.dev \in Device
      BY <1>0, <1>1 DEF OfDevice
    <2> QED BY <1>0, <2>1, <2>2, AtType DEF Continues, OfDevice
  <1>2. ASSUME t.step \in {"core", "coreAnswered"}, t.kind # "poll"
        PROVE  Continues(At(t, "context"), t)
    <2>1. "context" \in Step
      BY DEF Step
    <2>2. t.dev \in Device
      BY <1>0, <1>2 DEF OfDevice
    <2> QED BY <1>0, <2>1, <2>2, AtType DEF Continues, OfDevice
  <1>3. ASSUME t.step \in {"posted", "post"}
        PROVE  AfterPost(t) = {} \/ \E v : AfterPost(t) = {v} /\ Continues(v, t)
    BY <1>1, <1>3 DEF AfterPost
  <1>4. ASSUME t.step \in {"core", "coreAnswered"}
        PROVE  AfterCore(t) = {} \/ \E v : AfterCore(t) = {v} /\ Continues(v, t)
    BY <1>2, <1>4 DEF AfterCore
  <1> QED BY <1>3, <1>4

-----------------------------------------------------------------------------------
(* The clicks and the timer.                                                         *)

LEMMA PollKeeps == ASSUME DashboardInv, Poll PROVE DashboardInv'
  <1> DEFINE n == NewTask("poll", NoDevice, "core", NoAlias)
  <1>1. n \in Task /\ n.id = NewId /\ n.kind = "poll" /\ n.step = "core"
    BY NewTaskType, DashboardAssumption DEF DashboardInv, FlagInv, Step
  <1>2. tasks' = tasks \cup {n}
    BY DEF Poll
  <1> HIDE DEF n
  <1>3. Tasks(tasks') /\ Flags(tasks') = busy /\ BusyDevice(busyDevice, tasks')
    BY <1>1, <1>2, TaskStarts DEF DashboardInv, OfDevice, Unflagged
  <1> QED BY <1>3 DEF Poll, DashboardInv, ViewType, FlagInv, view, flags, histories

LEMMA ServerChangeKeeps ==
    ASSUME DashboardInv, NEW d \in Device, ServerChange(d) PROVE DashboardInv'
  <1>1. server' \in Snapshot
    BY DEF ServerChange, DashboardInv, ViewType, Snapshot, Row
  <1> QED BY <1>1 DEF ServerChange, DashboardInv, ViewType, FlagInv, view, flags, histories

LEMMA SelectKeeps == ASSUME DashboardInv, NEW d \in Device, Select(d) PROVE DashboardInv'
  <1>0. ViewType /\ FlagInv /\ Tasks(tasks)
    BY DEF DashboardInv, FlagInv
  <1>1. ViewType'
    <2>1. aliasInput' \in Alias
      BY <1>0, AliasFormType DEF Select, ViewType
    <2> QED BY <1>0, <2>1 DEF Select, Click, ViewType
  <1>2. FlagInv'
    <2>1. tasks' = tasks \cup OnSelect(d) /\ busy' = busy /\ busyDevice' = busyDevice
      BY DEF Select, flags
    <2>2. CASE OnSelect(d) = {}
      BY <1>0, <2>1, <2>2 DEF FlagInv
    <2>3. ASSUME NEW n \in Task, OnSelect(d) = {n}, n.id = NewId, n.kind = "select", OfDevice(n)
          PROVE  FlagInv'
      BY <1>0, <2>1, <2>3, TaskStarts DEF FlagInv, Unflagged
    <2> QED BY <1>0, <2>2, <2>3, OnSelectEffect
  <1> QED BY <1>1, <1>2 DEF DashboardInv

LEMMA BeginKeeps ==
    ASSUME DashboardInv, NEW kind \in AllOperations \ Unflagged, NEW d \in Device \cup {NoDevice},
           NEW a \in Alias, Begin(kind, d, a), d \in Device \/ kind = "export",
           aliasInput' \in Alias, told' \in [Device -> Alias]
    PROVE  DashboardInv'
  <1> DEFINE n == NewTask(kind, d, "post", a)
  <1>0. ViewType /\ FlagInv /\ Tasks(tasks)
    BY DEF DashboardInv, FlagInv
  <1>1. n \in Task /\ n.id = NewId /\ n.kind = kind /\ n.dev = d /\ n.step = "post"
    BY <1>0, NewTaskType DEF Step
  <1>2. tasks' = tasks \cup {n} /\ kind \notin busy /\ busy' = busy \cup {kind}
        /\ busyDevice' = busyDevice
    BY DEF Begin
  <1> HIDE DEF n
  <1>3. /\ Tasks(tasks') /\ Flags(tasks') = busy \cup ({kind} \ Unflagged)
        /\ BusyDevice(busyDevice, tasks')
    BY <1>0, <1>1, <1>2, TaskStarts DEF OfDevice
  <1>4. FlagInv'
    BY <1>2, <1>3 DEF FlagInv
  <1>5. ViewType'
    BY <1>0 DEF Begin, Click, ViewType
  <1> QED BY <1>4, <1>5 DEF DashboardInv

LEMMA VoidType == ASSUME ViewType, NEW d \in Device, Void(d) PROVE told' \in [Device -> Alias]
  BY DashboardAssumption DEF Void, ViewType

LEMMA ClickKeeps ==
    ASSUME DashboardInv
    PROVE  /\ \A d \in Device, a \in Alias :
                CreateDevice(d, a) \/ SaveInlineAlias(d, a) => DashboardInv'
           /\ \A kind \in {"enroll", "alias", "edit", "reissue"}, a \in Alias :
                EditSelected(kind, a) => DashboardInv'
           /\ DownloadExport => DashboardInv'
  <1>0. ViewType
    BY DEF DashboardInv
  <1>1. ASSUME NEW d \in Device, NEW a \in Alias, CreateDevice(d, a) \/ SaveInlineAlias(d, a)
        PROVE  DashboardInv'
    <2>1. told' \in [Device -> Alias] /\ aliasInput' \in Alias
      BY <1>0, <1>1, VoidType DEF CreateDevice, SaveInlineAlias, ViewType
    <2>2. \E kind \in {"create", "inline"} : Begin(kind, d, a)
      BY <1>1 DEF CreateDevice, SaveInlineAlias
    <2>3. {"create", "inline"} \subseteq AllOperations \ Unflagged
      BY DEF AllOperations, Unflagged
    <2> QED BY <2>1, <2>2, <2>3, BeginKeeps
  <1>2. ASSUME NEW kind \in {"enroll", "alias", "edit", "reissue"}, NEW a \in Alias,
               EditSelected(kind, a)
        PROVE  DashboardInv'
    <2>1. selected \in Device /\ Begin(kind, selected, a)
      BY <1>2 DEF EditSelected, Editable, Listed
    <2>2. told' \in [Device -> Alias] /\ aliasInput' \in Alias
      BY <1>0, <1>2, <2>1, VoidType DEF EditSelected, ViewType
    <2>3. kind \in AllOperations \ Unflagged
      BY DEF AllOperations, Unflagged
    <2> QED BY <2>1, <2>2, <2>3, BeginKeeps
  <1>3. ASSUME DownloadExport PROVE DashboardInv'
    <2>1. told' \in [Device -> Alias] /\ aliasInput' \in Alias
      BY <1>0, <1>3 DEF DownloadExport, ViewType
    <2>2. "export" \in AllOperations \ Unflagged
      BY DEF AllOperations, Unflagged
    <2> QED BY <1>3, <2>1, <2>2, BeginKeeps, DashboardAssumption DEF DownloadExport
  <1> QED BY <1>1, <1>2, <1>3

LEMMA SetDevicePolicyKeeps ==
    ASSUME DashboardInv, NEW d \in Device, SetDevicePolicy(d) PROVE DashboardInv'
  <1> DEFINE n == NewTask("policy", d, "post", NoAlias)
  <1>0. ViewType /\ FlagInv /\ Tasks(tasks)
    BY DEF DashboardInv, FlagInv
  <1>1. n \in Task /\ n.id = NewId /\ n.kind = "policy" /\ n.dev = d
    <2>1. "policy" \in AllOperations /\ "post" \in Step
      BY DEF AllOperations, Step
    <2> QED BY <1>0, <2>1, NewTaskType, DashboardAssumption
  <1>2. tasks' = tasks \cup {n} /\ busy' = busy /\ busyDevice' = d
    BY DEF SetDevicePolicy
  <1> HIDE DEF n
  <1>3. Tasks(tasks') /\ Flags(tasks') = busy
    BY <1>0, <1>1, <1>2, TaskStarts DEF OfDevice, Unflagged
  <1>4. FlagInv'
    BY <1>1, <1>2, <1>3 DEF FlagInv, BusyDevice
  <1>5. ViewType'
    BY <1>0 DEF SetDevicePolicy, Click, ViewType
  <1> QED BY <1>4, <1>5 DEF DashboardInv

-----------------------------------------------------------------------------------
(* The server.                                                                       *)

LEMMA ServeKeeps == ASSUME DashboardInv, NEW id, Serve(id) PROVE DashboardInv'
  <1>0. ViewType /\ FlagInv /\ Tasks(tasks)
    BY DEF DashboardInv, FlagInv
  <1>1. PICK t \in tasks : ServePost(t) \/ ServeLoad(t)
    BY DEF Serve
  <1>2. t \in Task /\ OfDevice(t) /\ t.alias \in Alias
    BY <1>0 DEF Tasks, Task
  <1>3. UNCHANGED <<list, selected, profile, aliasInput, busy, busyDevice, told>>
    BY DEF Serve, view, flags
  <1>4. ASSUME NEW v, Continues(v, t), tasks' = (tasks \ {t}) \cup {v} PROVE FlagInv'
    <2>1. Released(t, {v})
      BY <1>3 DEF Released
    <2>2. tasks' = (tasks \ {t}) \cup {v} \cup {}
      BY <1>4
    <2>3. \E u : {v} = {u} /\ Continues(u, t)
      BY <1>4
    <2> QED BY <1>0, <2>1, <2>2, <2>3, TaskGoesOn
  <1>5. CASE ServePost(t)
    <2>1. Continues(At(t, "posted"), t)
      <3>1. "posted" \in Step
        BY DEF Step
      <3> QED BY <1>2, <1>5, <3>1, AtType DEF ServePost, Continues, OfDevice
    <2>2. FlagInv'
      BY <1>4, <1>5, <2>1 DEF ServePost
    <2>3. server' \in Snapshot
      <3> DEFINE row == [ver |-> server[t.dev].ver + 1,
                         keyed |-> server[t.dev].keyed \/ t.kind = "enroll",
                         alias |-> t.alias]
      <3>1. CASE t.kind \in {"reissue", "export"}
        BY <1>0, <1>5, <3>1 DEF ServePost, Effect, ViewType
      <3>2. CASE t.kind \in {"policy", "edit"}
        <4> DEFINE newer == [server[t.dev] EXCEPT !.ver = @ + 1]
        <4>1. t.dev \in Device
          BY <1>2, <3>2 DEF OfDevice
        <4>2. server[t.dev] \in Row
          BY <1>0, <4>1 DEF ViewType, Snapshot
        <4>3. newer \in Row
          BY <4>2 DEF Row
        <4>4. server' = [server EXCEPT ![t.dev] = newer]
          BY <1>5, <3>2 DEF ServePost, Effect
        <4> HIDE DEF newer
        <4> QED BY <1>0, <4>3, <4>4 DEF ViewType, Snapshot
      <3>3. CASE t.kind \notin {"reissue", "export", "policy", "edit"}
        <4>1. t.dev \in Device
          <5>1. t.step = "post"
            BY <1>5 DEF ServePost
          <5> QED BY <1>2, <3>3, <5>1 DEF OfDevice
        <4>2. server[t.dev] \in Row
          BY <1>0, <4>1 DEF ViewType, Snapshot
        <4>3. (server[t.dev].keyed \/ t.kind = "enroll") \in BOOLEAN
          OBVIOUS
        <4>4. row \in Row
          BY <1>2, <4>2, <4>3 DEF Row
        <4>5. server' = [server EXCEPT ![t.dev] = row]
          BY <1>5, <3>3 DEF ServePost, Effect
        <4> HIDE DEF row
        <4> QED BY <1>0, <4>4, <4>5 DEF ViewType, Snapshot
      <3> QED BY <3>1, <3>2, <3>3
    <2>4. unasked' \subseteq Device
      <3>1. t.kind = "enroll" => t.dev \in Device
        BY <1>2 DEF OfDevice
      <3> QED BY <1>0, <1>5, <3>1 DEF ServePost, ViewType
    <2> QED BY <1>0, <1>3, <2>2, <2>3, <2>4 DEF DashboardInv, ViewType
  <1>6. CASE ServeLoad(t)
    <2>1. UNCHANGED <<server, unasked>>
      BY <1>6 DEF ServeLoad
    <2>2. CASE t.step = "core"
      <3> DEFINE v == [t EXCEPT !.step = "coreAnswered", !.snap = server]
      <3>1. Continues(v, t)
        BY <1>0, <1>2, <2>2 DEF Continues, Task, Step, OfDevice, ViewType
      <3>2. tasks' = (tasks \ {t}) \cup {v}
        BY <1>6, <2>2 DEF ServeLoad
      <3> HIDE DEF v
      <3> QED BY <1>0, <1>3, <1>4, <2>1, <3>1, <3>2 DEF DashboardInv, ViewType
    <2>3. CASE t.step = "context"
      <3> DEFINE v == [t EXCEPT !.step = "contextAnswered", !.snap[t.dev] = server[t.dev]]
      <3>1. t.dev \in Device /\ t.snap \in Snapshot /\ server[t.dev] \in Row
        BY <1>0, <1>2, <2>3 DEF OfDevice, Task, ViewType, Snapshot
      <3>2. Continues(v, t)
        BY <1>2, <3>1 DEF Continues, Task, Step, OfDevice, Snapshot
      <3>3. tasks' = (tasks \ {t}) \cup {v}
        BY <1>6, <2>3 DEF ServeLoad
      <3> HIDE DEF v
      <3> QED BY <1>0, <1>3, <1>4, <2>1, <3>2, <3>3 DEF DashboardInv, ViewType
    <2> QED BY <1>6, <2>2, <2>3 DEF ServeLoad
  <1> QED BY <1>1, <1>5, <1>6

-----------------------------------------------------------------------------------
(* The callbacks.                                                                    *)

LEMMA ReceivePostedKeeps ==
    ASSUME DashboardInv, NEW t \in tasks, ReceivePosted(t), UNCHANGED <<server, unasked>>
    PROVE  DashboardInv'
  <1>0. ViewType /\ FlagInv /\ Tasks(tasks)
    BY DEF DashboardInv, FlagInv
  <1>1. FlagInv'
    <2>1. tasks' = (tasks \ {t}) \cup AfterPost(t) \cup {} /\ Released(t, AfterPost(t))
      BY DEF ReceivePosted
    <2>2. AfterPost(t) = {} \/ \E v : AfterPost(t) = {v} /\ Continues(v, t)
      BY <1>0, AfterEffect DEF ReceivePosted
    <2> QED BY <1>0, <2>1, <2>2, TaskGoesOn
  <1>2. told' \in [Device -> Alias]
    <2>1. t.alias \in Alias
      BY <1>0 DEF Tasks, Task
    <2> QED BY <1>0, <2>1 DEF ReceivePosted, ViewType
  <1> QED BY <1>0, <1>1, <1>2 DEF ReceivePosted, view, DashboardInv, ViewType

(* An answered or a failed load: the operation goes on, with another selection.      *)
LEMMA CoreGoesOn ==
    ASSUME DashboardInv, NEW t \in tasks, t.step \in {"core", "coreAnswered"},
           NEW d \in Device \cup {NoDevice},
           tasks' = (tasks \ {t}) \cup AfterCore(t) \cup OnSelect(d), Released(t, AfterCore(t))
    PROVE  FlagInv'
  <1>0. ViewType /\ FlagInv /\ Tasks(tasks)
    BY DEF DashboardInv, FlagInv
  <1>1. AfterCore(t) = {} \/ \E v : AfterCore(t) = {v} /\ Continues(v, t)
    BY <1>0, AfterEffect
  <1>2. OnSelect(d) = {} \/ \E n \in Task : /\ OnSelect(d) = {n} /\ n.id = NewId
                                            /\ n.kind = "select" /\ OfDevice(n)
    BY <1>0, OnSelectEffect
  <1> QED BY <1>0, <1>1, <1>2, TaskGoesOn

LEMMA ReceiveCoreKeeps ==
    ASSUME DashboardInv, NEW t \in tasks, ReceiveCore(t), UNCHANGED <<server, unasked>>
    PROVE  DashboardInv'
  <1>0. ViewType /\ Tasks(tasks)
    BY DEF DashboardInv, FlagInv
  <1>1. t \in Task /\ OfDevice(t) /\ t.snap \in Snapshot
    BY <1>0 DEF Tasks, Task
  <1>2. selected' \in Device \cup {NoDevice}
    <2>1. t.kind = "create" => t.dev \in Device
      BY <1>1 DEF OfDevice
    <2>2. \A d \in Selections(t.snap) : d \in Device \cup {NoDevice}
      BY <1>0 DEF Selections, Listed, ViewType
    <2>3. \E d \in Selections(t.snap) : selected' = IF t.kind = "create" THEN t.dev ELSE d
      BY DEF ReceiveCore
    <2> QED BY <2>1, <2>2, <2>3
  <1>3. FlagInv'
    BY <1>2, CoreGoesOn DEF ReceiveCore
  <1>4. list' \in Snapshot
    BY <1>1 DEF ReceiveCore
  <1>5. aliasInput' \in Alias
    <2>1. aliasInput' = AliasForm(selected', list')
      BY DEF ReceiveCore
    <2> QED BY <1>0, <1>2, <1>4, <2>1, AliasFormType
  <1>6. profile' \in [dev : Device \cup {NoDevice}, row : Row]
    <2>1. NoProfile \in [dev : Device \cup {NoDevice}, row : Row]
      BY Empty DEF NoProfile
    <2> QED BY <1>0, <2>1 DEF ReceiveCore, ViewType
  <1> QED BY <1>0, <1>2, <1>3, <1>4, <1>5, <1>6 DEF ReceiveCore, DashboardInv, ViewType

LEMMA ReceiveContextKeeps ==
    ASSUME DashboardInv, NEW t \in tasks, ReceiveContext(t), UNCHANGED <<server, unasked>>
    PROVE  DashboardInv'
  <1>0. ViewType /\ FlagInv /\ Tasks(tasks)
    BY DEF DashboardInv, FlagInv
  <1>1. FlagInv'
    <2>1. tasks' = (tasks \ {t}) \cup {} \cup {} /\ Released(t, {})
      BY DEF ReceiveContext
    <2> QED BY <1>0, <2>1, TaskGoesOn
  <1>2. profile' \in [dev : Device \cup {NoDevice}, row : Row]
    <2>1. t \in Task /\ OfDevice(t) /\ t.step = "contextAnswered"
      BY <1>0 DEF Tasks, ReceiveContext
    <2>2. t.dev \in Device /\ t.snap[t.dev] \in Row
      BY <2>1 DEF OfDevice, Task, Snapshot
    <2> QED BY <2>2 DEF ReceiveContext
  <1> QED BY <1>0, <1>1, <1>2 DEF ReceiveContext, DashboardInv, ViewType

LEMMA LoseKeeps == ASSUME DashboardInv, NEW id, Lose(id) PROVE DashboardInv'
  <1>0. ViewType /\ FlagInv /\ Tasks(tasks)
    BY DEF DashboardInv, FlagInv
  <1>1. PICK t \in tasks : FailEnds(t) \/ FailCore(t)
    BY DEF Lose
  <1>2. UNCHANGED <<server, unasked, told>>
    BY DEF Lose, histories
  <1>3. CASE FailEnds(t)
    <2>1. tasks' = (tasks \ {t}) \cup {} \cup {} /\ Released(t, {})
      BY <1>3 DEF FailEnds
    <2>2. FlagInv'
      BY <1>0, <2>1, TaskGoesOn
    <2> QED BY <1>0, <1>2, <1>3, <2>2 DEF FailEnds, view, DashboardInv, ViewType
  <1>4. CASE FailCore(t)
    <2>1. selected' \in Device \cup {NoDevice}
      <3>1. t.kind = "create" => t.dev \in Device
        BY <1>0 DEF Tasks, OfDevice
      <3> QED BY <1>0, <1>4, <3>1 DEF FailCore, ViewType
    <2>2. FlagInv'
      BY <1>4, <2>1, CoreGoesOn DEF FailCore
    <2>3. aliasInput' \in Alias
      BY <1>0, <1>4, <2>1, AliasFormType DEF FailCore, ViewType
    <2> QED BY <1>0, <1>2, <1>4, <2>1, <2>2, <2>3 DEF FailCore, DashboardInv, ViewType
  <1> QED BY <1>1, <1>3, <1>4

LEMMA ReceiveKeeps == ASSUME DashboardInv, NEW id, Receive(id) PROVE DashboardInv'
  <1>1. UNCHANGED <<server, unasked>>
    BY DEF Receive
  <1> QED BY <1>1, ReceivePostedKeeps, ReceiveCoreKeeps, ReceiveContextKeeps DEF Receive

-----------------------------------------------------------------------------------
DashboardSafety == DashboardInit /\ [][DashboardNext]_dashboardVars

LEMMA DashboardInvInit == DashboardInit => DashboardInv
  <1> SUFFICES ASSUME DashboardInit PROVE DashboardInv
    OBVIOUS
  <1>1. FlagInv
    <2>1. IsFiniteSet({})
      BY FS_EmptySet
    <2> QED BY <2>1 DEF DashboardInit, FlagInv, Tasks, Flags, BusyDevice
  <1>2. ViewType
    <2>1. server \in Snapshot
      BY DashboardAssumption DEF DashboardInit, Snapshot, Row
    <2>2. profile \in [dev : Device \cup {NoDevice}, row : Row]
      BY Empty DEF DashboardInit, NoProfile
    <2> QED BY <2>1, <2>2, Empty, DashboardAssumption DEF DashboardInit, ViewType
  <1> QED BY <1>1, <1>2 DEF DashboardInv

LEMMA DashboardStutter == ASSUME DashboardInv, UNCHANGED dashboardVars PROVE DashboardInv'
  BY DEF dashboardVars, view, flags, counts, histories, DashboardInv, ViewType, FlagInv

LEMMA DashboardInvStep == DashboardInv /\ [DashboardNext]_dashboardVars => DashboardInv'
  BY PollKeeps, ServerChangeKeeps, SelectKeeps, SetDevicePolicyKeeps, ClickKeeps, ServeKeeps,
     ReceiveKeeps, LoseKeeps, DashboardStutter
     DEF DashboardNext

(* Whatever callbacks overlap, a saving flag is set exactly while its operation is   *)
(* under way, and busyDeviceId names the device of a policy request that is (the     *)
(* finally blocks of App.tsx:872-1170).                                              *)
THEOREM FlagsMatchOperations == DashboardSafety => []DashboardTypeOK
  <1>1. DashboardInv => DashboardTypeOK
    BY DEF DashboardInv, ViewType, FlagInv, Tasks, Flags, Unflagged, BusyDevice,
           DashboardTypeOK
  <1> QED BY <1>1, DashboardInvInit, DashboardInvStep, PTL DEF DashboardSafety

-----------------------------------------------------------------------------------
(* Nothing is invented: the server's versions only grow, and each snapshot under way *)
(* was the server's when it was taken.                                               *)

ServedBy(rows, row, d) == row.ver <= rows[d].ver /\ (row.ver = rows[d].ver => row = rows[d])
TaskServed(rows, t) ==
    /\ t.dev \in Listed(rows) \cup {NoDevice} \/ (t.kind = "create" /\ t.step = "post")
    /\ t.step = "coreAnswered" => \A d \in Device : ServedBy(rows, t.snap[d], d)
    /\ t.step = "contextAnswered" => ServedBy(rows, t.snap[t.dev], t.dev)
ViewServed(rows) ==
    /\ \A d \in Device : ServedBy(rows, list[d], d)
    /\ profile.dev = NoDevice \/ ServedBy(rows, profile.row, profile.dev)
    /\ selected \in Listed(rows) \cup {NoDevice}
ServedInv == ViewServed(server) /\ \A t \in tasks : TaskServed(server, t)

Grows(old, new) ==
    \A d \in Device : /\ old[d].ver <= new[d].ver
                      /\ old[d].ver = new[d].ver => old[d] = new[d]

(* What was served once stays served.                                                *)
LEMMA ServedStays ==
    ASSUME NEW old \in Snapshot, NEW new \in Snapshot, Grows(old, new)
    PROVE  /\ \A d \in Device, row \in Row : ServedBy(old, row, d) => ServedBy(new, row, d)
           /\ Listed(old) \subseteq Listed(new)
           /\ \A t \in Task : OfDevice(t) /\ TaskServed(old, t) => TaskServed(new, t)
  <1>1. \A d \in Device : old[d] \in Row /\ new[d] \in Row
    BY DEF Snapshot
  <1>2. \A d \in Device : old[d].ver \in Nat /\ new[d].ver \in Nat
    BY <1>1 DEF Row
  <1>3. \A d \in Device, row \in Row : ServedBy(old, row, d) => ServedBy(new, row, d)
    <2> SUFFICES ASSUME NEW d \in Device, NEW row \in Row, ServedBy(old, row, d)
                 PROVE  ServedBy(new, row, d)
      OBVIOUS
    <2>1. row.ver \in Nat
      BY DEF Row
    <2> QED BY <1>2, <2>1 DEF ServedBy, Grows
  <1>4. Listed(old) \subseteq Listed(new)
    BY <1>2 DEF Listed, Grows
  <1>5. ASSUME NEW t \in Task, OfDevice(t), TaskServed(old, t) PROVE TaskServed(new, t)
    <2>1. \A d \in Device : t.snap[d] \in Row
      BY DEF Task, Snapshot
    <2>2. t.step = "contextAnswered" => t.dev \in Device
      BY <1>5 DEF OfDevice
    <2> QED BY <1>3, <1>4, <1>5, <2>1, <2>2 DEF TaskServed
  <1> QED BY <1>3, <1>4, <1>5

LEMMA ListedServed == ASSUME DashboardInv, ServedInv PROVE Listed(list) \subseteq Listed(server)
  <1>1. ASSUME NEW d \in Device PROVE list[d].ver \in Nat /\ server[d].ver \in Nat
    BY DEF DashboardInv, ViewType, Snapshot, Row
  <1> QED BY <1>1 DEF ServedInv, ViewServed, ServedBy, Listed

(* A step that leaves the server alone: what is new in it has to be served.          *)
LEMMA ViewStep ==
    ASSUME ServedInv, server' = server,
           list' = list \/ \A d \in Device : ServedBy(server, list'[d], d),
           \/ profile' = profile \/ profile'.dev = NoDevice
           \/ ServedBy(server, profile'.row, profile'.dev),
           selected' \in Listed(server) \cup {NoDevice},
           \A t \in tasks' : t \in tasks \/ TaskServed(server, t)
    PROVE  ServedInv'
  BY DEF ServedInv, ViewServed

(* A callback that has no answer, of a device the server has.                        *)
LEMMA UnansweredServed ==
    ASSUME NEW t, t.step \notin {"coreAnswered", "contextAnswered"},
           \/ t.dev \in Listed(server) \cup {NoDevice}
           \/ t.kind = "create" /\ t.step = "post"
    PROVE  TaskServed(server, t)
  BY DEF TaskServed

LEMMA NewServed ==
    ASSUME DashboardInv, NEW kind \in AllOperations \cup {"poll", "select"},
           NEW d \in Device \cup {NoDevice}, NEW step \in {"post", "core", "context"},
           NEW a \in Alias,
           d \in Listed(server) \cup {NoDevice} \/ (kind = "create" /\ step = "post")
    PROVE  TaskServed(server, NewTask(kind, d, step, a))
  <1> DEFINE n == NewTask(kind, d, step, a)
  <1>2. n.kind = kind /\ n.dev = d /\ n.step = step
    BY DEF NewTask
  <1> HIDE DEF n
  <1>3. TaskServed(server, n)
    BY <1>2, UnansweredServed
  <1> QED BY <1>3 DEF n

LEMMA SelectServed ==
    ASSUME DashboardInv, NEW d \in Listed(server) \cup {NoDevice}
    PROVE  \A t \in OnSelect(d) : TaskServed(server, t)
  <1>1. d \in Device \cup {NoDevice} /\ "select" \in AllOperations \cup {"poll", "select"}
    BY DEF Listed
  <1> QED BY <1>1, NewServed, DashboardAssumption DEF OnSelect

LEMMA AtServed ==
    ASSUME DashboardInv, ServedInv, NEW t \in tasks, t.step # "post",
           NEW step \in {"core", "context"}
    PROVE  TaskServed(server, At(t, step))
  <1>1. t \in Task /\ step \in Step
    BY DEF DashboardInv, FlagInv, Tasks, Step
  <1>2. At(t, step).dev = t.dev /\ At(t, step).step = step
    BY <1>1, AtType
  <1>3. t.dev \in Listed(server) \cup {NoDevice}
    BY DEF ServedInv, TaskServed
  <1> QED BY <1>2, <1>3, UnansweredServed

LEMMA ClicksServe ==
    ASSUME DashboardInv, ServedInv
    PROVE  /\ Poll => ServedInv'
           /\ \A d \in Device : Select(d) \/ SetDevicePolicy(d) => ServedInv'
           /\ \A d \in Device, a \in Alias : CreateDevice(d, a) \/ SaveInlineAlias(d, a) => ServedInv'
           /\ \A kind \in {"enroll", "alias", "edit", "reissue"}, a \in Alias :
                EditSelected(kind, a) => ServedInv'
           /\ DownloadExport => ServedInv'
  <1>0. /\ Listed(list) \subseteq Listed(server)
        /\ selected \in Listed(server) \cup {NoDevice}
        /\ NoAlias \in Alias
        /\ {"poll", "policy", "create", "inline", "export"} \subseteq AllOperations \cup {"poll"}
        /\ {"enroll", "alias", "edit", "reissue"} \subseteq AllOperations
    BY ListedServed, DashboardAssumption DEF ServedInv, ViewServed, AllOperations
  <1>1. ASSUME Poll PROVE ServedInv'
    <2>1. TaskServed(server, NewTask("poll", NoDevice, "core", NoAlias))
      BY <1>0, NewServed
    <2> QED BY <1>0, <1>1, <2>1, ViewStep DEF Poll, view
  <1>2. ASSUME NEW d \in Device, Select(d) PROVE ServedInv'
    <2>1. d \in Listed(server)
      BY <1>0, <1>2 DEF Select
    <2>2. \A t \in OnSelect(d) : TaskServed(server, t)
      BY <2>1, SelectServed
    <2> QED BY <1>2, <2>1, <2>2, ViewStep DEF Select, Click
  <1>3. ASSUME NEW d \in Device, SetDevicePolicy(d) PROVE ServedInv'
    <2>1. d \in Listed(server)
      BY <1>0, <1>3 DEF SetDevicePolicy
    <2>2. TaskServed(server, NewTask("policy", d, "post", NoAlias))
      BY <1>0, <2>1, NewServed
    <2> QED BY <1>0, <1>3, <2>2, ViewStep DEF SetDevicePolicy, Click
  <1>4. ASSUME NEW kind \in AllOperations, NEW d \in Device \cup {NoDevice}, NEW a \in Alias,
               Begin(kind, d, a), d \in Listed(server) \cup {NoDevice} \/ kind = "create"
        PROVE  ServedInv'
    <2>1. TaskServed(server, NewTask(kind, d, "post", a))
      BY <1>4, NewServed
    <2> QED BY <1>0, <1>4, <2>1, ViewStep DEF Begin, Click
  <1>5. ASSUME NEW d \in Device, NEW a \in Alias, CreateDevice(d, a) PROVE ServedInv'
    BY <1>0, <1>4, <1>5 DEF CreateDevice
  <1>6. ASSUME NEW d \in Device, NEW a \in Alias, SaveInlineAlias(d, a) PROVE ServedInv'
    BY <1>0, <1>4, <1>6 DEF SaveInlineAlias
  <1>7. ASSUME NEW kind \in {"enroll", "alias", "edit", "reissue"}, NEW a \in Alias,
               EditSelected(kind, a)
        PROVE  ServedInv'
    <2>1. selected \in Device /\ Begin(kind, selected, a) /\ kind \in AllOperations
      BY <1>0, <1>7 DEF EditSelected, Editable, Listed
    <2> QED BY <1>0, <1>4, <2>1
  <1>8. ASSUME DownloadExport PROVE ServedInv'
    BY <1>0, <1>4, <1>8 DEF DownloadExport
  <1> QED BY <1>1, <1>2, <1>3, <1>5, <1>6, <1>7, <1>8

(* A change at the server, asked for here or elsewhere, is a new version of a row.   *)
LEMMA ServerGrows ==
    ASSUME DashboardInv, DashboardInv', ServedInv, Grows(server, server'),
           UNCHANGED <<list, profile, selected>>,
           \A t \in tasks' : t \in tasks \/ TaskServed(server', t)
    PROVE  ServedInv'
  <1>1. /\ server \in Snapshot /\ server' \in Snapshot
        /\ profile.dev \in Device \cup {NoDevice} /\ profile.row \in Row
        /\ \A d \in Device : list[d] \in Row
        /\ \A t \in tasks : t \in Task /\ OfDevice(t)
    BY DEF DashboardInv, ViewType, Snapshot, FlagInv, Tasks
  <1>2. PICK new \in Snapshot : server' = new
    BY <1>1
  <1>3. Grows(server, new)
    BY <1>2
  <1>4. /\ \A d \in Device, row \in Row : ServedBy(server, row, d) => ServedBy(new, row, d)
        /\ Listed(server) \subseteq Listed(new)
        /\ \A t \in Task : OfDevice(t) /\ TaskServed(server, t) => TaskServed(new, t)
    BY <1>1, <1>3, ServedStays
  <1>5. ViewServed(server)' = ViewServed(new)
    BY <1>2 DEF ViewServed
  <1>6. ViewServed(new)
    BY <1>1, <1>4 DEF ServedInv, ViewServed
  <1>7. \A t \in tasks' : TaskServed(new, t)
    BY <1>1, <1>2, <1>4 DEF ServedInv
  <1> QED BY <1>2, <1>5, <1>6, <1>7 DEF ServedInv

LEMMA ServerChangeServes ==
    ASSUME DashboardInv, DashboardInv', ServedInv, NEW d \in Device, ServerChange(d)
    PROVE  ServedInv'
  <1>1. \A e \in Device : server[e].ver \in Nat
    BY DEF DashboardInv, ViewType, Snapshot, Row
  <1>2. server'[d].ver = server[d].ver + 1 /\ \A e \in Device \ {d} : server'[e] = server[e]
    <2> DEFINE row == [server[d] EXCEPT !.ver = @ + 1]
    <2>1. row.ver = server[d].ver + 1
      <3>1. server[d] \in Row
        BY DEF DashboardInv, ViewType, Snapshot
      <3> QED BY <3>1 DEF Row
    <2>2. server' = [server EXCEPT ![d] = row]
      BY DEF ServerChange
    <2> HIDE DEF row
    <2> QED BY <2>1, <2>2 DEF DashboardInv, ViewType, Snapshot
  <1>3. Grows(server, server')
    BY <1>1, <1>2 DEF Grows
  <1> QED BY <1>3, ServerGrows DEF ServerChange, view

LEMMA ServeServes ==
    ASSUME DashboardInv, DashboardInv', ServedInv, NEW id, Serve(id) PROVE ServedInv'
  <1>1. PICK t \in tasks : ServePost(t) \/ ServeLoad(t)
    BY DEF Serve
  <1>2. t \in Task /\ OfDevice(t) /\ TaskServed(server, t)
    BY DEF DashboardInv, FlagInv, Tasks, ServedInv
  <1>3. UNCHANGED <<list, profile, selected>>
    BY DEF Serve, view
  <1>4. \A d \in Device : server[d].ver \in Nat /\ server[d] \in Row
    BY DEF DashboardInv, ViewType, Snapshot, Row
  <1>5. CASE ServePost(t)
    <2>1. t.step = "post" /\ server' = Effect(t) /\ tasks' = (tasks \ {t}) \cup {At(t, "posted")}
      BY <1>5 DEF ServePost
    <2>2. ASSUME t.kind \notin {"reissue", "export"}
          PROVE  /\ t.dev \in Device /\ server'[t.dev].ver = server[t.dev].ver + 1
                 /\ \A e \in Device \ {t.dev} : server'[e] = server[e]
      <3>1. t.dev \in Device
        BY <1>2, <2>1, <2>2 DEF OfDevice
      <3>2. PICK row : row.ver = server[t.dev].ver + 1 /\ server' = [server EXCEPT ![t.dev] = row]
        <4>1. CASE t.kind \in {"policy", "edit"}
          <5> DEFINE row == [server[t.dev] EXCEPT !.ver = @ + 1]
          <5>1. row.ver = server[t.dev].ver + 1
            BY <1>4, <3>1 DEF Row
          <5>2. server' = [server EXCEPT ![t.dev] = row]
            BY <2>1, <4>1 DEF Effect
          <5> HIDE DEF row
          <5> QED BY <5>1, <5>2
        <4>2. CASE t.kind \notin {"policy", "edit"}
          <5> DEFINE row == [ver |-> server[t.dev].ver + 1,
                             keyed |-> server[t.dev].keyed \/ t.kind = "enroll",
                             alias |-> t.alias]
          <5>1. row.ver = server[t.dev].ver + 1
            OBVIOUS
          <5>2. server' = [server EXCEPT ![t.dev] = row]
            BY <2>1, <2>2, <4>2 DEF Effect
          <5> HIDE DEF row
          <5> QED BY <5>1, <5>2
        <4> QED BY <4>1, <4>2
      <3> QED BY <3>1, <3>2 DEF DashboardInv, ViewType, Snapshot
    <2>3. Grows(server, server')
      <3>1. CASE t.kind \in {"reissue", "export"}
        BY <1>4, <2>1, <3>1 DEF Effect, Grows
      <3>2. CASE t.kind \notin {"reissue", "export"}
        BY <1>4, <2>2, <3>2 DEF Grows
      <3> QED BY <3>1, <3>2
    <2>4. TaskServed(server', At(t, "posted"))
      <3>1. At(t, "posted").step = "posted" /\ At(t, "posted").dev = t.dev
        BY <1>2, AtType DEF Step
      <3>2. t.dev \in Listed(server') \cup {NoDevice}
        <4>1. CASE t.kind \in {"reissue", "export"}
          BY <1>2, <2>1, <4>1 DEF Effect, TaskServed
        <4>2. CASE t.kind \notin {"reissue", "export"}
          BY <1>4, <2>2, <4>2 DEF Listed
        <4> QED BY <4>1, <4>2
      <3> QED BY <3>1, <3>2 DEF TaskServed
    <2> QED BY <1>3, <2>1, <2>3, <2>4, ServerGrows
  <1>6. CASE ServeLoad(t)
    <2>1. server' = server /\ t.dev \in Listed(server) \cup {NoDevice}
      BY <1>2, <1>6 DEF ServeLoad, TaskServed
    <2>2. CASE t.step = "core"
      <3> DEFINE v == [t EXCEPT !.step = "coreAnswered", !.snap = server]
      <3>1. v.dev = t.dev /\ v.step = "coreAnswered" /\ v.snap = server
        BY <1>2 DEF Task
      <3>2. tasks' = (tasks \ {t}) \cup {v}
        BY <1>6, <2>2 DEF ServeLoad
      <3> HIDE DEF v
      <3>3. TaskServed(server, v)
        BY <1>4, <2>1, <3>1 DEF TaskServed, ServedBy
      <3> QED BY <1>3, <2>1, <3>2, <3>3, ViewStep DEF ServedInv, ViewServed
    <2>3. CASE t.step = "context"
      <3> DEFINE v == [t EXCEPT !.step = "contextAnswered", !.snap[t.dev] = server[t.dev]]
      <3>1. t.dev \in Device
        BY <1>2, <2>3 DEF OfDevice
      <3>2. v.dev = t.dev /\ v.step = "contextAnswered" /\ v.snap[t.dev] = server[t.dev]
        BY <1>2, <3>1 DEF Task, Snapshot
      <3>3. tasks' = (tasks \ {t}) \cup {v}
        BY <1>6, <2>3 DEF ServeLoad
      <3> HIDE DEF v
      <3>4. TaskServed(server, v)
        BY <1>4, <2>1, <3>1, <3>2 DEF TaskServed, ServedBy
      <3> QED BY <1>3, <2>1, <3>3, <3>4, ViewStep DEF ServedInv, ViewServed
    <2> QED BY <1>6, <2>2, <2>3 DEF ServeLoad
  <1> QED BY <1>1, <1>5, <1>6

(* What an operation goes on with after a load, whether it was answered or not.      *)
LEMMA CoreServes ==
    ASSUME DashboardInv, ServedInv, NEW t \in tasks, t.step \in {"core", "coreAnswered"},
           NEW d \in Listed(server) \cup {NoDevice},
           tasks' = (tasks \ {t}) \cup AfterCore(t) \cup OnSelect(d)
    PROVE  \A u \in tasks' : u \in tasks \/ TaskServed(server, u)
  <1>1. \A u \in OnSelect(d) : TaskServed(server, u)
    BY SelectServed
  <1>2. TaskServed(server, At(t, "context"))
    BY AtServed
  <1>3. \A u \in AfterCore(t) : TaskServed(server, u)
    BY <1>2 DEF AfterCore
  <1> QED BY <1>1, <1>3

LEMMA AnswersServe ==
    ASSUME DashboardInv, ServedInv, NEW t \in tasks, server' = server,
           ReceivePosted(t) \/ ReceiveCore(t) \/ ReceiveContext(t) \/ FailEnds(t) \/ FailCore(t)
    PROVE  ServedInv'
  <1>0. /\ TaskServed(server, t) /\ selected \in Listed(server) \cup {NoDevice}
        /\ t \in Task /\ OfDevice(t) /\ NoDevice \notin Device
    BY DashboardAssumption DEF ServedInv, ViewServed, DashboardInv, FlagInv, Tasks
  <1>1. CASE ReceivePosted(t)
    <2>1. \A u \in AfterPost(t) : TaskServed(server, u)
      <3>1. TaskServed(server, At(t, "context")) /\ TaskServed(server, At(t, "core"))
        BY <1>1, AtServed DEF ReceivePosted
      <3> QED BY <3>1 DEF AfterPost
    <2> QED BY <1>0, <1>1, <2>1, ViewStep DEF ReceivePosted, view
  <1>2. CASE ReceiveCore(t)
    <2>1. \A d \in Device : ServedBy(server, t.snap[d], d)
      BY <1>0, <1>2 DEF ReceiveCore, TaskServed
    <2>2. Listed(t.snap) \subseteq Listed(server)
      <3>1. \A d \in Device : t.snap[d].ver \in Nat /\ server[d].ver \in Nat
        BY <1>0 DEF Task, Snapshot, Row, DashboardInv, ViewType
      <3> QED BY <2>1, <3>1 DEF Listed, ServedBy
    <2>3. Selections(t.snap) \subseteq Listed(server) \cup {NoDevice}
      BY <1>0, <2>2 DEF Selections
    <2>4. t.kind = "create" => t.dev \in Listed(server) \cup {NoDevice}
      BY <1>0, <1>2 DEF ReceiveCore, TaskServed
    <2>5. selected' \in Listed(server) \cup {NoDevice}
      BY <1>2, <2>3, <2>4 DEF ReceiveCore
    <2>6. \A u \in tasks' : u \in tasks \/ TaskServed(server, u)
      BY <1>2, <2>5, CoreServes DEF ReceiveCore
    <2>7. profile' = profile \/ profile'.dev = NoDevice
      BY <1>2 DEF ReceiveCore, NoProfile
    <2> QED BY <1>2, <2>1, <2>5, <2>6, <2>7, ViewStep DEF ReceiveCore
  <1>3. CASE ReceiveContext(t)
    <2>1. profile'.dev = t.dev /\ profile'.row = t.snap[t.dev]
      BY <1>3 DEF ReceiveContext
    <2>2. ServedBy(server, t.snap[t.dev], t.dev)
      BY <1>0, <1>3 DEF ReceiveContext, TaskServed
    <2> QED BY <1>0, <1>3, <2>1, <2>2, ViewStep DEF ReceiveContext
  <1>4. CASE FailEnds(t)
    BY <1>0, <1>4, ViewStep DEF FailEnds, view
  <1>5. CASE FailCore(t)
    <2>1. selected' \in Listed(server) \cup {NoDevice}
      BY <1>0, <1>5 DEF FailCore, TaskServed
    <2>2. \A u \in tasks' : u \in tasks \/ TaskServed(server, u)
      BY <1>5, <2>1, CoreServes DEF FailCore
    <2> QED BY <1>5, <2>1, <2>2, ViewStep DEF FailCore
  <1> QED BY <1>1, <1>2, <1>3, <1>4, <1>5

LEMMA ServedInit == DashboardInit => ServedInv
  <1> SUFFICES ASSUME DashboardInit PROVE ServedInv
    OBVIOUS
  <1>1. \A d \in Device : ServedBy(server, list[d], d)
    <2> SUFFICES ASSUME NEW d \in Device PROVE ServedBy(server, list[d], d)
      OBVIOUS
    <2>1. list[d] = [ver |-> 0, keyed |-> FALSE, alias |-> NoAlias]
      BY DEF DashboardInit, NoSnapshot, NoRow
    <2>2. server[d] = [ver |-> IF d \in Present THEN 1 ELSE 0, keyed |-> d \in Keyed,
                       alias |-> NoAlias]
      BY DEF DashboardInit
    <2>3. CASE d \in Present
      BY <2>1, <2>2, <2>3 DEF ServedBy
    <2>4. CASE d \notin Present
      <3>1. (d \in Keyed) = FALSE
        BY <2>4, DashboardAssumption
      <3>2. server[d] = [ver |-> 0, keyed |-> FALSE, alias |-> NoAlias]
        BY <2>2, <2>4, <3>1, Zenon
      <3> QED BY <2>1, <3>2 DEF ServedBy
    <2> QED BY <2>3, <2>4
  <1> QED BY <1>1 DEF DashboardInit, ServedInv, ViewServed, NoProfile

LEMMA ServedStep ==
    ASSUME DashboardInv, DashboardInv', ServedInv, [DashboardNext]_dashboardVars
    PROVE  ServedInv'
  <1>1. ASSUME NEW id, Receive(id) \/ Lose(id) PROVE ServedInv'
    BY <1>1, AnswersServe DEF Receive, Lose
  <1>2. CASE UNCHANGED dashboardVars
    BY <1>2 DEF dashboardVars, view, ServedInv, ViewServed
  <1> QED BY <1>1, <1>2, ClicksServe, ServerChangeServes, ServeServes DEF DashboardNext

(* Whatever answers cross and whatever requests are lost, every row shown is one the *)
(* server has or had, and the device selected and those of the requests but of a     *)
(* creation are ones it has (App.tsx:731-842, 905-947).                              *)
THEOREM NothingIsInvented == DashboardSafety => []NothingInvented
  <1>1. ServedInv => NothingInvented
    BY DEF ServedInv, ViewServed, ServedBy, TaskServed, NothingInvented, Served
  <1> QED BY <1>1, DashboardInvInit, DashboardInvStep, ServedInit, ServedStep, PTL
          DEF DashboardSafety

-----------------------------------------------------------------------------------
(* Why the list converges: once it has caught up and no older answer is on its way,  *)
(* nothing but a change at the server makes it differ again.                         *)

Fresh(t) == t.step = "coreAnswered" => t.snap = server
CaughtUp == list = server /\ \A t \in tasks : Fresh(t)
CaughtUpStays == [][CaughtUp /\ server' = server => CaughtUp']_dashboardVars

LEMMA CaughtUpStep ==
    ASSUME DashboardInv, DashboardNext, CaughtUp, server' = server
    PROVE  CaughtUp'
  <1>0. \A t \in tasks : t \in Task
    BY DEF DashboardInv, FlagInv, Tasks
  <1>1. SUFFICES /\ list' = list \/ \E t \in tasks : t.step = "coreAnswered" /\ list' = t.snap
                 /\ \A v \in tasks' : v \in tasks \/ Fresh(v)
    BY DEF CaughtUp, Fresh
  <1>2. ASSUME NEW kind, NEW d, NEW step, step # "coreAnswered", NEW a
        PROVE  Fresh(NewTask(kind, d, step, a))
    BY <1>2 DEF Fresh, NewTask
  <1>3. \A d : \A v \in OnSelect(d) : Fresh(v)
    BY <1>2 DEF OnSelect
  <1>4. ASSUME NEW t \in tasks, NEW step, step # "coreAnswered" PROVE Fresh(At(t, step))
    <2>1. At(t, step).step = step
      BY <1>0 DEF At, Task
    <2> QED BY <1>4, <2>1 DEF Fresh
  <1>5. \A t \in tasks : \A v \in AfterPost(t) \cup AfterCore(t) : Fresh(v)
    BY <1>4 DEF AfterPost, AfterCore
  <1>6. CASE Poll
    BY <1>2, <1>6 DEF Poll, view
  <1>7. ASSUME NEW d \in Device, ServerChange(d) \/ Select(d) \/ SetDevicePolicy(d)
        PROVE  /\ list' = list
               /\ \A v \in tasks' : v \in tasks \/ Fresh(v)
    BY <1>2, <1>3, <1>7 DEF ServerChange, Select, SetDevicePolicy, Click, view
  <1>8. ASSUME NEW kind, NEW d, NEW a, Begin(kind, d, a)
        PROVE  /\ list' = list
               /\ \A v \in tasks' : v \in tasks \/ Fresh(v)
    BY <1>2, <1>8 DEF Begin, Click
  <1>9. ASSUME \/ DownloadExport
               \/ \E d \in Device, a \in Alias : CreateDevice(d, a) \/ SaveInlineAlias(d, a)
               \/ \E kind \in {"enroll", "alias", "edit", "reissue"}, a \in Alias :
                    EditSelected(kind, a)
        PROVE  /\ list' = list
               /\ \A v \in tasks' : v \in tasks \/ Fresh(v)
    BY <1>8, <1>9 DEF DownloadExport, CreateDevice, SaveInlineAlias, EditSelected
  <1>10. ASSUME NEW id, Serve(id)
         PROVE  /\ list' = list
                /\ \A v \in tasks' : v \in tasks \/ Fresh(v)
    <2>1. PICK t \in tasks : ServePost(t) \/ ServeLoad(t)
      BY <1>10 DEF Serve
    <2>2. CASE ServePost(t)
      BY <1>4, <1>10, <2>2 DEF ServePost, Serve, view
    <2>3. CASE ServeLoad(t)
      <3> DEFINE v == IF t.step = "core" THEN [t EXCEPT !.step = "coreAnswered", !.snap = server]
                      ELSE [t EXCEPT !.step = "contextAnswered", !.snap[t.dev] = server[t.dev]]
      <3>1. v.step = "coreAnswered" => v.snap = server
        BY <1>0, <2>1 DEF Task
      <3>2. tasks' = (tasks \ {t}) \cup {v}
        BY <2>3 DEF ServeLoad
      <3> HIDE DEF v
      <3> QED BY <1>10, <3>1, <3>2 DEF Serve, view, Fresh
    <2> QED BY <2>1, <2>2, <2>3
  <1>11. ASSUME NEW id, Receive(id) \/ Lose(id)
         PROVE  /\ list' = list \/ \E t \in tasks : t.step = "coreAnswered" /\ list' = t.snap
                /\ \A v \in tasks' : v \in tasks \/ Fresh(v)
    <2>1. PICK t \in tasks : \/ ReceivePosted(t) \/ ReceiveCore(t) \/ ReceiveContext(t)
                            \/ FailEnds(t) \/ FailCore(t)
      BY <1>11 DEF Receive, Lose
    <2>2. CASE ReceivePosted(t) \/ ReceiveContext(t) \/ FailEnds(t)
      BY <1>5, <2>2 DEF ReceivePosted, ReceiveContext, FailEnds, view
    <2>3. CASE ReceiveCore(t) \/ FailCore(t)
      BY <1>3, <1>5, <2>3 DEF ReceiveCore, FailCore
    <2> QED BY <2>1, <2>2, <2>3
  <1> QED BY <1>6, <1>7, <1>9, <1>10, <1>11 DEF DashboardNext

(* An old answer does not have the last word: while the server rests, a list that    *)
(* has caught up stays what the server has (loadCore, App.tsx:731-791).              *)
THEOREM OldAnswersRunOut == DashboardSafety => CaughtUpStays
  <1>1. DashboardInv /\ [DashboardNext]_dashboardVars =>
            [CaughtUp /\ server' = server => CaughtUp']_dashboardVars
    BY CaughtUpStep
  <1> QED BY <1>1, DashboardInvInit, DashboardInvStep, PTL DEF DashboardSafety, CaughtUpStays
=====================================================================================
