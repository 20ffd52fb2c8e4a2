------------------------------ MODULE PagesProofs ------------------------------
(***************************************************************************)
(* Proofs about what the pages of the user interface show at rest, for any *)
(* number of calls in flight, here and of pages left.                      *)
(*                                                                         *)
(* What a page shows at rest was decided while calls were in flight. So    *)
(* the invariant PInv says for each page what is still due: a list that is *)
(* older than it ought to be has a reason, a call in flight that will      *)
(* bring a newer one (Due) or a disturbance that hist records; a mark, a   *)
(* restore, or an editor on the screen without the focus has its call; the *)
(* pane has the last call sent for what is selected (LastForSelected). On  *)
(* the exchange page it says cell by cell that a table agrees with the     *)
(* control plane but for the saves whose continuation is to come           *)
(* (ExchangeAgrees), unless a call in flight will disturb the page.        *)
(*                                                                         *)
(* An answer says what was true when it was given. Typed keeps for each    *)
(* call the range of revisions its answer can have, which only grows; it   *)
(* is kept for the calls of pages left, too, since they change the control *)
(* plane that answers the mounted page.                                    *)
(***************************************************************************)
EXTENDS ControlPlaneUIProofs

-----------------------------------------------------------------------------
\* The operations by what they are answered with.
PlainReads ==
    {"services.list", "versions.list", "versions.check", "clients.list", "system.get",
     "redis.info", "redis.keys", "logs.getAll", "prometheus.targets", "prometheus.rules"}
Changing ==
    {"services.restart", "exchange.setValue", "actions.push", "actions.remove",
     "actions.purge", "redis.restore"}
TableReads == {"exchange.getTable", "exchange.search"}

\* The type of a file, and of the value v a call is answered with after at most
\* r changes.
FileTyped(f) == f \in {Backup, ErrorObject}

TypedValue(c, v, r) ==
    /\ c.op \in PlainReads \cup Changing => v \in [rev : 0 .. r]
    /\ c.op = "actions.list"      => v \in [rev : 0 .. r, guids : SUBSET Nat]
    /\ c.op \in TableReads        => v.rev \in 0 .. r
    /\ c.op = "versions.history"  => v \in [updates : Nat] \cup {Null}
    /\ c.op = "redis.backup"      => FileTyped(v)
    /\ c.op = "prometheus.alerts" => v.firing \subseteq Alerts
    /\ c.op = "logs.get"          => v = c.arg

\* A call that has its type, when r changes have been made.
Typed(c, r) ==
    /\ c.op \in {"actions.push", "actions.remove"} => c.arg.guid \in Nat
    /\ c.answer.state = "fulfilled" => TypedValue(c, c.answer.value, r)

\* A list as of the change n, or a later one, is still to be shown: a call for
\* it is in flight, and has not been answered with an older one.
Due(op, n) ==
    \E c \in ToSet(calls) : c.op = op /\ (c.answer.state = "fulfilled" => c.answer.value.rev >= n)

\* The list that is shown is the newest the page was answered, and as new as n.
UpToDate(list, n) == list # Null /\ list.rev = hist.seen /\ hist.seen >= n

-----------------------------------------------------------------------------
\* What holds of each page while it is mounted.  The load of the dashboard is
\* the first two calls, and every other call is for a service.
LoadLeads(cs) ==
    /\ Len(cs) >= 2 /\ cs[1].op = "services.list" /\ cs[2].op = "versions.list"
    /\ cs[1].arg = Null /\ cs[2].arg = Null
    /\ \A i \in 3 .. Len(cs) : cs[i].arg \in Services

LoadsFirst(cs) == (\A c \in ToSet(cs) : c.arg \in Services) \/ LoadLeads(cs)

DashboardInv ==
    /\ DOMAIN hooks = {"page", "activeTab", "servicesList", "versionInfos", "loading",
                       "restarting", "actionOpen"}
    /\ Dashboard!TypeOK
    /\ hist.acked <= world.rev
    /\ LoadsFirst(calls)
    /\ \A c \in ToSet(calls) : c.op \in {"services.list", "versions.list", "services.restart"}
    /\ hooks.restarting # Null => \E c \in ToSet(calls) : c.arg = hooks.restarting
    /\ ~hist.disturbed => Due("services.list", hist.acked) \/ UpToDate(hooks.servicesList, hist.acked)

ActionsInv ==
    /\ DOMAIN hooks = {"page", "activeTab", "data", "loading", "showInject", "form"}
    /\ Actions!TypeOK
    /\ hooks.data \in [rev : Nat, guids : SUBSET Nat] \cup {Null}
    /\ hist.acked <= world.rev
    /\ ~hist.disturbed => Due("actions.list", hist.acked) \/ UpToDate(hooks.data, hist.acked)

\* The saves of a cell that were answered and whose continuation is to come.
AppliedSave(c) == c.op = "exchange.setValue" /\ c.answer.state = "fulfilled"
Unapplied(k)   == {c \in ToSet(calls) : AppliedSave(c) /\ c.arg.index = k}

\* A call whose continuation disturbs the page.
Disturbs(c) ==
    \/ c.answer.state = "rejected"
    \/ c.answer.state = "fulfilled" /\ c.answer.value.rev < hist.seen

\* A table, or rows of it, as of the change n differ from what the control plane
\* holds only in cells that a save in flight has changed since.
AgreesSince(table, n) ==
    \A k \in DOMAIN table : table[k] # world.table[k] =>
        \E c \in Unapplied(k) : c.answer.value.rev > n

ExchangeAgrees ==
    /\ left = EmptyBag
    /\ hooks.tableData = Null => \E c \in ToSet(calls) : c.op = "exchange.getTable"
    /\ \A table \in {hooks.tableData, hooks.searchResults} :
          table # Null => \A k \in DOMAIN table : Unapplied(k) = {} => table[k] = world.table[k]
    /\ \A c \in ToSet(calls) :
          c.op \in TableReads /\ c.answer.state = "fulfilled"
             => AgreesSince(c.answer.value.table, c.answer.value.rev)
    /\ \A k \in Cells : \A c \in Unapplied(k) :
          \/ c.arg.value = world.table[k]
          \/ \E d \in Unapplied(k) : d.answer.value.rev > c.answer.value.rev

\* The editor of the page, and whether it waits for a save.
EditorWaits ==
    /\ hooks.focus => Exchange!EditorShown(hooks)
    /\ Exchange!EditorShown(hooks) /\ ~hooks.focus =>
          \E c \in ToSet(calls) : c.op = "exchange.setValue"

\* What the page knows of the tables.
TablesKnown == ~hist.disturbed => (\E c \in ToSet(calls) : Disturbs(c)) \/ ExchangeAgrees

ExchangeHooks == {"page", "activeTab", "tableData", "searchQuery", "searchResults",
                  "loading", "editingIndex", "editValue", "focus"}

ExchangeInv ==
    /\ DOMAIN hooks = ExchangeHooks
    /\ Exchange!TypeOK
    /\ EditorWaits
    /\ \A c \in ToSet(calls) : c.op \in TableReads \cup {"exchange.setValue"}
    /\ TablesKnown

\* The last call for the logs of a service is for the one that is selected.
LastOf(cs, c, op) ==
    \E i \in DOMAIN cs : cs[i] = c /\ \A j \in DOMAIN cs : j > i => cs[j].op # op

LastForSelected ==
    \E c \in ToSet(calls) :
        c.op = "logs.get" /\ c.arg = hooks.selectedService /\ LastOf(calls, c, "logs.get")

LogsInv ==
    /\ DOMAIN hooks = {"page", "activeTab", "allLogs", "serviceLogs", "selectedService",
                       "serviceList", "loading"}
    /\ Logs!TypeOK
    /\ \A c \in ToSet(calls) : c.op = "logs.get" => c.arg \in Services
    /\ hooks.selectedService = Null =>
          hooks.serviceLogs = Null /\ \A c \in ToSet(calls) : c.op # "logs.get"
    /\ ~hist.overtaken /\ hooks.activeTab = "by-service" =>
          \/ LastForSelected
          \/ /\ hooks.serviceLogs \in {Null, hooks.selectedService}
             /\ \A c \in ToSet(calls) : c.op # "logs.get"

RedisMonitorInv ==
    /\ DOMAIN hooks = {"page", "activeTab", "info", "keys", "loading", "backingUp", "restoring"}
    /\ RedisMonitor!TypeOK
    /\ hist.acked <= world.rev /\ hist.entered <= world.rev
    /\ ~hist.disturbed /\ hooks.activeTab = "keys" =>
          Due("redis.keys", hist.entered) \/ UpToDate(hooks.keys, hist.entered)
    /\ RedisMonitor!OneRestoreAtATime

VersionsInv ==
    /\ DOMAIN hooks = {"page", "activeTab", "versionList", "historyList", "loading", "checking"}
    /\ Versions!TypeOK
    /\ ~hist.disturbed =>
          \/ UpToDate(hooks.versionList, hist.acked)
          \/ /\ hooks.versionList = Null /\ hist.acked = 0
             /\ \E c \in ToSet(calls) : c.op = "versions.list"

MetricsInv ==
    /\ DOMAIN hooks = {"page", "activeTab", "range", "chart", "targets", "loading"}
    /\ Metrics!TypeOK

AlertsInv ==
    /\ DOMAIN hooks = {"page", "activeTab", "active", "rules"}
    /\ AlertsView!TypeOK
    /\ hooks.activeTab = "active" =>
          /\ hooks.active \in [alerts : SUBSET Alerts, loading : BOOLEAN, error : BOOLEAN]
          /\ hooks.rules = Null
          /\ \A c \in ToSet(calls) : c.op = "prometheus.alerts"
    /\ hooks.activeTab = "rules" =>
          /\ hooks.rules \in [groups : {<<>>, Groups}, loading : BOOLEAN,
                              expanded : ToSet(Groups) \cup {Null}]
          /\ hooks.active = Null
          /\ \A c \in ToSet(calls) : c.op = "prometheus.rules"
    /\ AlertsView!AllClear => hist.last = "clear"

ClientsInv ==
    /\ DOMAIN hooks = {"page", "clientsList", "loading", "selectedClient"}
    /\ ClientsView!TypeOK

SystemInv ==
    /\ DOMAIN hooks = {"page", "activeTab", "sysInfo", "loading"}
    /\ System!TypeOK

\* The inductive invariant of the pages, on top of IInv.
PInv ==
    /\ hooks.page = Page[route] /\ events \in Nat /\ WorldOK
    /\ \A c \in InFlight : Typed(c, world.rev)
    /\ hooks.page = "dashboard" => DashboardInv
    /\ hooks.page = "actions"   => ActionsInv
    /\ hooks.page = "exchange"  => ExchangeInv
    /\ hooks.page = "logs"      => LogsInv
    /\ hooks.page = "redis"     => RedisMonitorInv
    /\ hooks.page = "versions"  => VersionsInv
    /\ hooks.page = "metrics"   => MetricsInv
    /\ hooks.page = "alerts"    => AlertsInv
    /\ hooks.page = "clients"   => ClientsInv
    /\ hooks.page = "system"    => SystemInv

-----------------------------------------------------------------------------
\* The calls in flight as a set, when one is sent and when one is over.
LEMMA CallSets ==
  ASSUME IInv
  PROVE  /\ \A i \in DOMAIN calls : calls[i] \in ToSet(calls)
         /\ \A c : ToSet(Append(calls, c)) = ToSet(calls) \cup {c}
         /\ \A i \in DOMAIN calls :
               /\ ToSet(Without(i)) \subseteq ToSet(calls)
               /\ ToSet(calls) \subseteq ToSet(Without(i)) \cup {calls[i]}
               /\ \A c : ToSet(Append(Without(i), c)) = ToSet(Without(i)) \cup {c}
<1>1. calls \in Seq(ToSet(calls))
  BY DEF IInv
<1>2. \A i \in DOMAIN calls : calls[i] \in ToSet(calls)
  BY DEF ToSet
<1>3. ASSUME NEW cs, cs \in Seq(ToSet(cs)), NEW c
      PROVE  ToSet(Append(cs, c)) = ToSet(cs) \cup {c}
  <2>. DEFINE S == ToSet(cs) \cup {c}
  <2>1. cs \in Seq(S) /\ c \in S
    BY <1>3, SeqMonotonic
  <2>. HIDE DEF S
  <2>. QED
    BY <2>1, AppendElements
<1>4. ASSUME NEW i \in DOMAIN calls
      PROVE  /\ Without(i) \in Seq(ToSet(Without(i))) /\ ToSet(Without(i)) \subseteq ToSet(calls)
             /\ ToSet(calls) \subseteq ToSet(Without(i)) \cup {calls[i]}
  <2>1. Without(i) = RemoveAt(calls, i)
    BY DEF Without, RemoveAt
  <2>2. RemoveAt(calls, i) \in Seq(ToSet(calls))
    BY <1>1, RemoveAtType
  <2>. DEFINE t == RemoveAt(calls, i)
  <2>3. t \in Seq(ToSet(t)) /\ ToSet(t) \subseteq ToSet(calls)
    <3>. HIDE DEF t
    <3>. QED
      BY <2>2, OverItself DEF t
  <2>4. Len(calls) \in Nat /\ DOMAIN calls = 1 .. Len(calls) /\ i \in 1 .. Len(calls)
    BY <1>1, LenProperties
  <2>5. Len(t) = Len(calls) - 1
        /\ \A j \in 1 .. Len(calls) - 1 : t[j] = calls[IF j < i THEN j ELSE j + 1]
    BY <1>1, <2>4, RemoveAtLeaves
  <2>6. DOMAIN t = 1 .. Len(calls) - 1
    <3>. HIDE DEF t
    <3>. QED
      BY <2>3, <2>5, LenProperties
  <2>. HIDE DEF t
  <2>7. ASSUME NEW m \in 1 .. Len(calls), m # i
        PROVE  calls[m] \in ToSet(t)
    <3>1. CASE m < i
      <4>1. m \in 1 .. Len(calls) - 1 /\ t[m] = calls[m]
        BY <2>4, <2>5, <3>1
      <4>. QED
        BY <2>6, <4>1 DEF ToSet
    <3>2. CASE ~ (m < i)
      <4>1. m - 1 \in 1 .. Len(calls) - 1 /\ ~ (m - 1 < i) /\ (m - 1) + 1 = m
        BY <2>4, <2>7, <3>2
      <4>2. t[m - 1] = calls[m]
        BY <2>5, <4>1
      <4>. QED
        BY <2>6, <4>1, <4>2 DEF ToSet
    <3>. QED
      BY <3>1, <3>2
  <2>8. \A c \in ToSet(calls) : c \in ToSet(t) \cup {calls[i]}
    BY <2>4, <2>7 DEF ToSet
  <2>. QED
    BY <2>1, <2>3, <2>8 DEF t
<1>. QED
  BY <1>1, <1>2, <1>3, <1>4

\* The calls at rest.
LEMMA NoCalls ==
  ASSUME calls = <<>>
  PROVE  ToSet(calls) = {} /\ DOMAIN calls = {}
BY DEF ToSet

\* A call keeps its type when more changes are made.
LEMMA TypedGrows ==
  ASSUME NEW r \in Nat, NEW s \in Nat, r <= s, NEW c, Typed(c, r)
  PROVE  Typed(c, s)
<1>1. 0 .. r \subseteq 0 .. s
  OBVIOUS
<1>2. c.answer.state = "fulfilled" => TypedValue(c, c.answer.value, s)
  <2>. SUFFICES ASSUME c.answer.state = "fulfilled", TypedValue(c, c.answer.value, r)
                PROVE  TypedValue(c, c.answer.value, s)
    BY DEF Typed
  <2>1. c.answer.value \in [rev : 0 .. r] => c.answer.value \in [rev : 0 .. s]
    BY <1>1
  <2>2. c.answer.value \in [rev : 0 .. r, guids : SUBSET Nat]
          => c.answer.value \in [rev : 0 .. s, guids : SUBSET Nat]
    BY <1>1
  <2>. QED
    BY <1>1, <2>1, <2>2 DEF TypedValue
<1>. QED
  BY <1>2 DEF Typed

\* What a step of a page does to the part of PInv that is not its own.
StepTyped ==
    /\ hooks'.page = hooks.page /\ events' \in Nat /\ WorldOK'
    /\ world.rev \in Nat /\ world'.rev \in Nat /\ world.rev <= world'.rev
    /\ \A c \in ToSet(calls') : c \in ToSet(calls) \/ Typed(c, world'.rev)

\* A call that was just sent.
JustSent(c) ==
    /\ c.answer.state = "pending"
    /\ c.op \in {"actions.push", "actions.remove"} => c.arg.guid \in Nat

\* A step that leaves the control plane alone.
LEMMA CalmTyped ==
  ASSUME PInv, world' = world, hooks'.page = hooks.page,
         events' = events \/ (events > 0 /\ events' = events - 1),
         \A c \in ToSet(calls') : c \in ToSet(calls) \/ JustSent(c)
  PROVE  StepTyped
<1>1. WorldOK /\ world.rev \in Nat /\ WorldOK'
  BY DEF PInv, WorldOK
<1>2. events' \in Nat
  BY DEF PInv
<1>3. \A c : JustSent(c) => Typed(c, world'.rev)
  BY DEF JustSent, Typed
<1>. QED
  BY <1>1, <1>2, <1>3 DEF StepTyped

\* A step of others, with the world w before it is counted.
LEMMA OthersTyped ==
  ASSUME IInv, PInv, NEW w, DOMAIN w = DOMAIN world, w.rev = world.rev, w.queue \subseteq Nat,
         w.table = world.table, w.files = world.files,
         w.updates \in Nat, w.firing \subseteq Alerts, world' = [w EXCEPT !.rev = @ + 1],
         events > 0, events' = events - 1, UNCHANGED <<hooks, calls>>
  PROVE  StepTyped
<1>1. DOMAIN w = {"rev", "queue", "table", "files", "updates", "firing"}
  BY DEF IInv, WorldFits
<1>2. /\ world'.rev = world.rev + 1 /\ world'.queue = w.queue /\ world'.table = world.table
      /\ world'.files = world.files /\ world'.updates = w.updates
      /\ world'.firing = w.firing
  BY <1>1
<1>3. WorldOK /\ events \in Nat
  BY DEF PInv
<1>4. WorldOK'
  BY <1>2, <1>3 DEF WorldOK
<1>5. events' \in Nat
  BY <1>3
<1>. QED
  BY <1>2, <1>3, <1>4, <1>5 DEF StepTyped, WorldOK

-----------------------------------------------------------------------------
\* A list that is due stays due when calls are sent, and when one for something
\* else is over.
LEMMA StaysDue ==
  ASSUME IInv, NEW op, NEW n, Due(op, n),
         \/ ToSet(calls) \subseteq ToSet(calls')
         \/ \E i \in DOMAIN calls : calls[i].op # op /\ ToSet(Without(i)) \subseteq ToSet(calls')
  PROVE  \E c \in ToSet(calls') :
            c.op = op /\ (c.answer.state = "fulfilled" => c.answer.value.rev >= n)
BY CallSets DEF Due

\* When a call for the list is over, it is still due, or was answered with
\* what is due.
LEMMA DueOrAnswered ==
  ASSUME IInv, NEW op, NEW n, Due(op, n), NEW i \in DOMAIN calls, calls' = Without(i)
  PROVE  \/ \E c \in ToSet(calls') :
               c.op = op /\ (c.answer.state = "fulfilled" => c.answer.value.rev >= n)
         \/ calls[i].answer.state = "fulfilled" => calls[i].answer.value.rev >= n
BY CallSets DEF Due

\* The answer that is applied, if it is no older than what was seen, is as new
\* as was due, or a newer one is still to come.
LEMMA ShownAnswer ==
  ASSUME IInv, NEW op, NEW n \in Nat, NEW i \in DOMAIN calls, calls' = Without(i),
         calls[i].answer.state = "fulfilled", calls[i].answer.value.rev \in Nat, hist.seen \in Nat,
         hist'.seen = IF calls[i].answer.value.rev > hist.seen
                      THEN calls[i].answer.value.rev ELSE hist.seen,
         calls[i].answer.value.rev >= hist.seen,
         Due(op, n) \/ hist.seen >= n
  PROVE  /\ hist'.seen = calls[i].answer.value.rev
         /\ \/ hist'.seen >= n
            \/ \E c \in ToSet(calls') :
                  c.op = op /\ (c.answer.state = "fulfilled" => c.answer.value.rev >= n)
<1>1. hist'.seen = calls[i].answer.value.rev
  OBVIOUS
<1>2. CASE hist.seen >= n
  BY <1>1, <1>2
<1>3. CASE Due(op, n)
  BY <1>1, <1>3, DueOrAnswered
<1>. QED
  BY <1>1, <1>2, <1>3

\* Every step of the action queue.
LEMMA ActionsStepKeeps ==
  ASSUME IInv, PInv, hooks.page = "actions", Actions!Next
  PROVE  StepTyped /\ ActionsInv'
<1>. USE DEF Actions!Handle, Actions!Continue, Actions!Typing, Actions!Call, Actions!Pending
<1>0. ActionsInv /\ events \in Nat /\ WorldOK /\ world.rev \in Nat
  BY DEF PInv, WorldOK
<1>w. \A i \in DOMAIN calls : Actions!Without(i) = Without(i)
  BY DEF Actions!Without, Without
<1>t. \A i \in DOMAIN calls : Typed(calls[i], world.rev)
  BY CallSets DEF PInv, InFlight
<1>1. ASSUME UNCHANGED <<hist, world>>, ToSet(calls) \subseteq ToSet(calls'),
             hooks' \in {[hooks EXCEPT !.activeTab = "queue"], [hooks EXCEPT !.activeTab = "history"],
                         [hooks EXCEPT !.showInject = TRUE], [hooks EXCEPT !.showInject = FALSE],
                         [hooks EXCEPT !.form = "typed"], hooks}
      PROVE  ActionsInv' /\ hooks'.page = hooks.page
  <2>1. DOMAIN hooks' = DOMAIN hooks /\ hooks'.data = hooks.data /\ hooks'.loading = hooks.loading
        /\ hooks'.page = hooks.page
    BY <1>0, <1>1 DEF ActionsInv
  <2>2. hooks'.activeTab \in {"queue", "history"} /\ hooks'.showInject \in BOOLEAN
        /\ hooks'.form \in {"empty", "typed"}
    BY <1>0, <1>1 DEF ActionsInv, Actions!TypeOK
  <2>3. (Actions!TypeOK)'
    BY <1>0, <1>1, <2>1, <2>2 DEF ActionsInv, Actions!TypeOK, Actions!HistoryOK
  <2>4. (~hist.disturbed => Due("actions.list", hist.acked) \/ UpToDate(hooks.data, hist.acked))'
    BY <1>0, <1>1, <2>1, StaysDue DEF ActionsInv, Due, UpToDate
  <2>. QED
    BY <1>0, <1>1, <2>1, <2>3, <2>4 DEF ActionsInv
<1>2. ASSUME NEW t \in {"queue", "history"}, NEW g,
             \/ Actions!SelectTab(t) \/ Actions!OpenModal \/ Actions!CloseModal
             \/ Actions!TypeForm \/ Actions!handleInject \/ Actions!handlePurge
             \/ g \in hooks.data.guids /\ hooks.data # Null /\ Actions!handleRemove(g)
      PROVE  StepTyped /\ ActionsInv'
  <2>1. /\ hooks' \in {[hooks EXCEPT !.activeTab = "queue"], [hooks EXCEPT !.activeTab = "history"],
                       [hooks EXCEPT !.showInject = TRUE], [hooks EXCEPT !.showInject = FALSE],
                       [hooks EXCEPT !.form = "typed"], hooks}
        /\ UNCHANGED <<hist, world>>
        /\ events' = events \/ (events > 0 /\ events' = events - 1)
    BY <1>2 DEF Actions!SelectTab, Actions!OpenModal, Actions!CloseModal, Actions!TypeForm,
       Actions!handleInject, Actions!handlePurge, Actions!handleRemove
  <2>2. calls' = calls \/ \E c : JustSent(c) /\ calls' = Append(calls, c)
    <3>1. CASE Actions!SelectTab(t) \/ Actions!OpenModal \/ Actions!CloseModal \/ Actions!TypeForm
      BY <3>1 DEF Actions!SelectTab, Actions!OpenModal, Actions!CloseModal, Actions!TypeForm
    <3>2. CASE Actions!handleInject
      <4>. DEFINE c == Actions!Call("actions.push", [guid |-> Actions!FreshGUID])
      <4>1. JustSent(c) /\ calls' = Append(calls, c)
        BY <1>0, <3>2 DEF Actions!handleInject, JustSent, Actions!FreshGUID
      <4>. QED
        BY <4>1
    <3>3. CASE Actions!handlePurge
      <4>. DEFINE c == Actions!Call("actions.purge", Null)
      <4>1. JustSent(c) /\ calls' = Append(calls, c)
        BY <1>0, <3>3 DEF Actions!handlePurge, JustSent
      <4>. QED
        BY <4>1
    <3>4. CASE g \in hooks.data.guids /\ hooks.data # Null /\ Actions!handleRemove(g)
      <4>. DEFINE c == Actions!Call("actions.remove", [guid |-> g])
      <4>1. g \in Nat
        BY <1>0, <3>4 DEF ActionsInv
      <4>2. JustSent(c) /\ calls' = Append(calls, c)
        BY <3>4, <4>1 DEF Actions!handleRemove, JustSent
      <4>. QED
        BY <4>2
    <3>. QED
      BY <1>2, <3>1, <3>2, <3>3, <3>4
  <2>3. /\ \A c \in ToSet(calls') : c \in ToSet(calls) \/ JustSent(c)
        /\ ToSet(calls) \subseteq ToSet(calls')
    <3>1. CASE calls' = calls
      BY <3>1
    <3>2. ASSUME NEW c, JustSent(c), calls' = Append(calls, c)
          PROVE  ToSet(calls') = ToSet(calls) \cup {c}
      BY <3>2, CallSets
    <3>. QED
      BY <2>2, <3>1, <3>2
  <2>. QED
    BY <1>1, <2>1, <2>3, CalmTyped
<1>3. ASSUME NEW i \in DOMAIN calls, Actions!Listed(i)
      PROVE  StepTyped /\ ActionsInv'
  <2>. DEFINE v == calls[i].answer.value
  <2>1. calls' = Without(i) /\ world' = world /\ events' = events
    BY <1>3, <1>w DEF Actions!Listed
  <2>2. CASE Actions!IsFulfilled(i)
    <3>1. v \in [rev : 0 .. world.rev, guids : SUBSET Nat] /\ v.rev \in Nat
      BY <1>0, <1>3, <1>t, <2>2 DEF Actions!Listed, Actions!IsFulfilled, Typed, TypedValue
    <3>2. /\ hooks' = [hooks EXCEPT !.data = v, !.loading = FALSE]
          /\ hist' = [hist EXCEPT !.seen = IF v.rev > @ THEN v.rev ELSE @,
                                  !.disturbed = @ \/ v.rev < hist.seen]
      BY <1>3, <2>2 DEF Actions!Listed, Actions!Value, Actions!Seen
    <3>. HIDE DEF v
    <3>3. /\ DOMAIN hooks' = DOMAIN hooks /\ hooks'.data = v /\ hooks'.loading = FALSE
          /\ hooks'.page = hooks.page /\ hooks'.activeTab = hooks.activeTab
          /\ hooks'.showInject = hooks.showInject /\ hooks'.form = hooks.form
      BY <1>0, <3>2 DEF ActionsInv
    <3>4. /\ hist \in [acked : Nat, seen : Nat, disturbed : BOOLEAN]
          /\ hist' \in [acked : Nat, seen : Nat, disturbed : BOOLEAN]
          /\ hist'.acked = hist.acked
          /\ hist'.seen = IF v.rev > hist.seen THEN v.rev ELSE hist.seen
          /\ hist'.disturbed = (hist.disturbed \/ v.rev < hist.seen)
      BY <1>0, <3>1, <3>2 DEF ActionsInv, Actions!TypeOK, Actions!HistoryOK
    <3>5. (Actions!TypeOK)' /\ hooks'.data \in [rev : Nat, guids : SUBSET Nat] \cup {Null}
      BY <1>0, <3>1, <3>3, <3>4 DEF ActionsInv, Actions!TypeOK, Actions!HistoryOK
    <3>6. hooks'.data # Null
      <4>1. v \in [rev : Nat, guids : SUBSET Nat]
        BY <3>1
      <4>. QED
        BY <3>3, <4>1, NullAssumption
    <3>7. (~hist.disturbed => Due("actions.list", hist.acked) \/ UpToDate(hooks.data, hist.acked))'
      <4>. SUFFICES ASSUME ~hist'.disturbed
                    PROVE  (Due("actions.list", hist.acked) \/ UpToDate(hooks.data, hist.acked))'
        OBVIOUS
      <4>1. v.rev >= hist.seen /\ ~hist.disturbed
        BY <3>1, <3>4
      <4>2. Due("actions.list", hist.acked) \/ hist.seen >= hist.acked
        BY <1>0, <4>1 DEF ActionsInv, UpToDate
      <4>3. hist.acked \in Nat /\ hist.seen \in Nat /\ calls[i].answer.state = "fulfilled"
        BY <2>2, <3>4 DEF Actions!IsFulfilled
      <4>4. /\ hist'.seen = v.rev
            /\ \/ hist'.seen >= hist.acked
               \/ \E c \in ToSet(calls') : c.op = "actions.list"
                     /\ (c.answer.state = "fulfilled" => c.answer.value.rev >= hist.acked)
        BY <2>1, <3>1, <3>4, <4>1, <4>2, <4>3, ShownAnswer DEF v
      <4>. QED
        BY <3>3, <3>4, <3>6, <4>4 DEF Due, UpToDate
    <3>8. hist'.acked <= world'.rev
      BY <1>0, <2>1, <3>4 DEF ActionsInv
    <3>9. StepTyped
      BY <2>1, <3>3, CallSets, CalmTyped
    <3>. QED
      BY <1>0, <3>3, <3>5, <3>7, <3>8, <3>9 DEF ActionsInv
  <2>3. CASE ~Actions!IsFulfilled(i)
    <3>1. hooks' = [hooks EXCEPT !.loading = FALSE] /\ hist' = [hist EXCEPT !.disturbed = TRUE]
      BY <1>3, <2>3 DEF Actions!Listed, Actions!Disturbed
    <3>2. hist'.disturbed /\ (Actions!TypeOK)' /\ DOMAIN hooks' = DOMAIN hooks
          /\ hooks'.page = hooks.page /\ hooks'.data = hooks.data /\ hist'.acked = hist.acked
      BY <1>0, <3>1 DEF ActionsInv, Actions!TypeOK, Actions!HistoryOK
    <3>3. StepTyped
      BY <2>1, <3>2, CallSets, CalmTyped
    <3>. QED
      BY <1>0, <2>1, <3>2, <3>3 DEF ActionsInv
  <2>. QED
    BY <2>2, <2>3
<1>4. ASSUME NEW i \in DOMAIN calls, Actions!Changed(i)
      PROVE  StepTyped /\ ActionsInv'
  <2>. DEFINE v == calls[i].answer.value
  <2>1. world' = world /\ events' = events /\ calls[i].op # "actions.list"
    BY <1>4 DEF Actions!Changed, Actions!fetchData, Actions!Changes
  <2>2. CASE Actions!IsFulfilled(i)
    <3>. DEFINE h == Actions!AfterChange(calls[i].op)
                c == Actions!ListCall
    <3>1. v.rev \in 0 .. world.rev
      <4>1. calls[i].op \in Changing
        BY <1>4 DEF Actions!Changed, Actions!Changes, Changing
      <4>. QED
        BY <1>t, <2>2, <4>1 DEF Actions!IsFulfilled, Typed, TypedValue
    <3>2. /\ hooks' = [h EXCEPT !.loading = TRUE] /\ calls' = Append(Without(i), c)
          /\ hist' = [hist EXCEPT !.acked = IF v.rev > @ THEN v.rev ELSE @]
      BY <1>4, <1>w, <2>2 DEF Actions!Changed, Actions!fetchData, Actions!Value, Actions!Acked
    <3>3. h \in {hooks, [hooks EXCEPT !.showInject = FALSE, !.form = "empty"]}
      BY DEF Actions!AfterChange
    <3>4. JustSent(c) /\ c.op = "actions.list"
      BY DEF JustSent, Actions!ListCall
    <3>. HIDE DEF v, h, c
    <3>5. DOMAIN hooks' = DOMAIN hooks /\ hooks'.page = hooks.page /\ hooks'.data = hooks.data
          /\ hooks'.activeTab = hooks.activeTab
          /\ hooks'.loading = TRUE /\ hooks'.showInject \in BOOLEAN /\ hooks'.form \in {"empty", "typed"}
      BY <1>0, <3>2, <3>3 DEF ActionsInv, Actions!TypeOK
    <3>6. hist' \in [acked : Nat, seen : Nat, disturbed : BOOLEAN] /\ hist'.acked <= world'.rev
      BY <1>0, <2>1, <3>1, <3>2 DEF ActionsInv, Actions!TypeOK, Actions!HistoryOK
    <3>7. (Actions!TypeOK)'
      BY <1>0, <3>5, <3>6 DEF ActionsInv, Actions!TypeOK, Actions!HistoryOK
    <3>8. ToSet(calls') = ToSet(Without(i)) \cup {c}
      BY <3>2, CallSets
    <3>9. Due("actions.list", hist.acked)'
      BY <3>4, <3>8 DEF Due, JustSent
    <3>10. StepTyped
      BY <2>1, <3>4, <3>5, <3>8, CallSets, CalmTyped
    <3>. QED
      BY <1>0, <3>5, <3>6, <3>7, <3>9, <3>10 DEF ActionsInv
  <2>3. CASE ~Actions!IsFulfilled(i)
    <3>1. hooks' = hooks /\ hist' = hist /\ calls' = Without(i)
      BY <1>4, <1>w, <2>3 DEF Actions!Changed
    <3>2. StepTyped
      BY <2>1, <3>1, CallSets, CalmTyped
    <3>3. (~hist.disturbed => Due("actions.list", hist.acked) \/ UpToDate(hooks.data, hist.acked))'
      BY <1>0, <2>1, <3>1, StaysDue DEF ActionsInv, Due, UpToDate
    <3>. QED
      BY <1>0, <2>1, <3>1, <3>2, <3>3 DEF ActionsInv, Actions!TypeOK, Actions!HistoryOK
  <2>. QED
    BY <2>2, <2>3
<1>5. CASE Actions!Others
  <2>1. PICK g : Actions!OthersChange([world EXCEPT !.queue = @ \ {g}])
    BY <1>5 DEF Actions!Others
  <2>. DEFINE w == [world EXCEPT !.queue = @ \ {g}]
  <2>2. /\ DOMAIN w = DOMAIN world /\ w.rev = world.rev /\ w.queue \subseteq Nat
        /\ w.table = world.table /\ w.files = world.files
        /\ w.updates = world.updates /\ w.firing = world.firing
    BY <1>0 DEF IInv, WorldFits, WorldOK
  <2>3. world' = [w EXCEPT !.rev = @ + 1] /\ UNCHANGED <<hooks, calls, hist>>
        /\ events > 0 /\ events' = events - 1
    BY <2>1 DEF Actions!OthersChange
  <2>. HIDE DEF w
  <2>4. StepTyped
    BY <1>0, <2>2, <2>3, OthersTyped DEF WorldOK
  <2>5. hist.acked <= world'.rev
    BY <1>0, <2>4 DEF StepTyped, ActionsInv, Actions!TypeOK, Actions!HistoryOK
  <2>6. (~hist.disturbed => Due("actions.list", hist.acked) \/ UpToDate(hooks.data, hist.acked))'
    BY <1>0, <2>3 DEF ActionsInv, Due, UpToDate
  <2>. QED
    BY <1>0, <2>3, <2>4, <2>5, <2>6 DEF ActionsInv, Actions!TypeOK, Actions!HistoryOK
<1>. QED
  BY <1>2, <1>3, <1>4, <1>5 DEF Actions!Next, Actions!Clicks, Actions!Continuations

\* Every step of the updates page.
LEMMA VersionsStepKeeps ==
  ASSUME IInv, PInv, hooks.page = "versions", Versions!Next
  PROVE  StepTyped /\ VersionsInv'
<1>. USE DEF Versions!Handle, Versions!Continue, Versions!Call, Versions!Pending
<1>0. VersionsInv /\ events \in Nat /\ WorldOK /\ world.rev \in Nat
  BY DEF PInv, WorldOK
<1>w. \A i \in DOMAIN calls : Versions!Without(i) = Without(i)
  BY DEF Versions!Without, Without
<1>t. \A i \in DOMAIN calls : Typed(calls[i], world.rev)
  BY CallSets DEF PInv, InFlight
<1>n. \A v \in [rev : Nat] : v # Null
  BY NullAssumption
\* What is shown of the versions, when they and what is known of them stay.
<1>s. ASSUME hooks'.versionList = hooks.versionList, hist'.acked = hist.acked, hist'.seen = hist.seen,
             hist'.disturbed = hist.disturbed,
             \/ ToSet(calls) \subseteq ToSet(calls')
             \/ \E i \in DOMAIN calls : calls[i].op # "versions.list" /\ calls' = Without(i)
      PROVE  (~hist.disturbed =>
                 \/ UpToDate(hooks.versionList, hist.acked)
                 \/ /\ hooks.versionList = Null /\ hist.acked = 0
                    /\ \E c \in ToSet(calls) : c.op = "versions.list")'
  <2>1. (\E c \in ToSet(calls) : c.op = "versions.list")
           => \E c \in ToSet(calls') : c.op = "versions.list"
    BY <1>s, CallSets
  <2>. QED
    BY <1>0, <1>s, <2>1 DEF VersionsInv, UpToDate
<1>1. ASSUME NEW t \in {"updates", "history"}, Versions!SelectTab(t) \/ Versions!handleCheckUpdates
      PROVE  StepTyped /\ VersionsInv'
  <2>1. /\ UNCHANGED <<hist, world>> /\ events > 0 /\ events' = events - 1
        /\ hooks' \in {[hooks EXCEPT !.activeTab = t, !.loading = TRUE], [hooks EXCEPT !.activeTab = t],
                       [hooks EXCEPT !.checking = TRUE]}
    BY <1>1 DEF Versions!SelectTab, Versions!handleCheckUpdates
  <2>2. /\ DOMAIN hooks' = DOMAIN hooks /\ hooks'.page = hooks.page
        /\ hooks'.versionList = hooks.versionList /\ hooks'.historyList = hooks.historyList
        /\ hooks'.activeTab \in {"updates", "history"} /\ hooks'.loading \in BOOLEAN
        /\ hooks'.checking \in BOOLEAN
    BY <1>0, <2>1 DEF VersionsInv, Versions!TypeOK
  <2>3. \/ calls' = calls
        \/ calls' = Append(calls, Versions!Call("versions.history", Null))
        \/ calls' = Append(calls, Versions!Call("versions.check", Null))
    BY <1>1 DEF Versions!SelectTab, Versions!handleCheckUpdates
  <2>4. \A op \in {"versions.history", "versions.check"} : JustSent(Versions!Call(op, Null))
    BY DEF JustSent
  <2>5. /\ ToSet(calls) \subseteq ToSet(calls')
        /\ \A c \in ToSet(calls') : c \in ToSet(calls) \/ JustSent(c)
    <3>1. ASSUME NEW c, JustSent(c), calls' = Append(calls, c)
          PROVE  ToSet(calls') = ToSet(calls) \cup {c}
      BY <3>1, CallSets
    <3>. HIDE DEF Versions!Call
    <3>. QED
      BY <2>3, <2>4, <3>1
  <2>6. StepTyped
    BY <2>1, <2>2, <2>5, CalmTyped
  <2>. QED
    BY <1>0, <1>s, <2>1, <2>2, <2>5, <2>6 DEF VersionsInv, Versions!TypeOK, Versions!HistoryOK
\* An answer about the versions.
<1>2. ASSUME NEW i \in DOMAIN calls, Versions!VersionsRead(i) \/ Versions!UpdatesChecked(i)
      PROVE  StepTyped /\ VersionsInv'
  <2>. DEFINE v == calls[i].answer.value
  <2>1. calls' = Without(i) /\ world' = world /\ events' = events
        /\ calls[i].op \in {"versions.list", "versions.check"}
    BY <1>2, <1>w DEF Versions!VersionsRead, Versions!UpdatesChecked
  <2>2. CASE Versions!IsFulfilled(i)
    <3>1. v \in [rev : 0 .. world.rev] /\ v.rev \in Nat
      BY <1>0, <1>t, <2>1, <2>2 DEF Versions!IsFulfilled, Typed, TypedValue, PlainReads
    <3>2. /\ hooks' \in {[hooks EXCEPT !.versionList = v, !.loading = FALSE],
                         [hooks EXCEPT !.versionList = v, !.checking = FALSE]}
          /\ \/ hist' = [hist EXCEPT !.seen = IF v.rev > @ THEN v.rev ELSE @,
                                     !.disturbed = @ \/ v.rev < hist.seen]
             \/ hist' = [[hist EXCEPT !.seen = IF v.rev > @ THEN v.rev ELSE @,
                                      !.disturbed = @ \/ v.rev < hist.seen] EXCEPT !.acked = v.rev]
      BY <1>2, <2>2 DEF Versions!VersionsRead, Versions!UpdatesChecked, Versions!Value, Versions!Seen
    <3>. HIDE DEF v
    <3>3. /\ DOMAIN hooks' = DOMAIN hooks /\ hooks'.page = hooks.page /\ hooks'.versionList = v
          /\ hooks'.historyList = hooks.historyList /\ hooks'.activeTab = hooks.activeTab
          /\ hooks'.loading \in BOOLEAN /\ hooks'.checking \in BOOLEAN
      BY <1>0, <3>2 DEF VersionsInv, Versions!TypeOK
    <3>4. /\ hist \in [acked : Nat, seen : Nat, disturbed : BOOLEAN]
          /\ hist' \in [acked : Nat, seen : Nat, disturbed : BOOLEAN]
          /\ hist'.acked \in {hist.acked, v.rev}
          /\ hist'.seen = (IF v.rev > hist.seen THEN v.rev ELSE hist.seen)
          /\ hist'.disturbed = (hist.disturbed \/ v.rev < hist.seen)
      BY <1>0, <3>1, <3>2 DEF VersionsInv, Versions!TypeOK, Versions!HistoryOK
    <3>5. (Versions!TypeOK)'
      BY <1>0, <3>1, <3>3, <3>4 DEF VersionsInv, Versions!TypeOK, Versions!HistoryOK
    <3>6. v # Null
      BY <1>n, <3>1
    <3>7. ~hist'.disturbed => UpToDate(hooks.versionList, hist.acked)'
      <4>. SUFFICES ASSUME ~hist'.disturbed
                    PROVE  v.rev = hist'.seen /\ hist'.seen >= hist'.acked
        BY <3>3, <3>6 DEF UpToDate
      <4>1. ~hist.disturbed /\ ~ (v.rev < hist.seen)
        BY <3>4
      <4>2. hist.seen >= hist.acked \/ hist.acked = 0
        BY <1>0, <4>1 DEF VersionsInv, UpToDate
      <4>3. hist'.seen = v.rev /\ v.rev >= hist.acked
        BY <3>1, <3>4, <4>1, <4>2
      <4>4. hist'.acked = hist.acked \/ hist'.acked = v.rev
        BY <3>4
      <4>. QED
        BY <3>1, <4>3, <4>4
    <3>8. StepTyped
      BY <2>1, <3>3, CallSets, CalmTyped
    <3>. QED
      BY <1>0, <3>3, <3>4, <3>5, <3>7, <3>8 DEF VersionsInv
  <2>3. CASE ~Versions!IsFulfilled(i)
    <3>1. /\ hooks' \in {[hooks EXCEPT !.loading = FALSE], [hooks EXCEPT !.checking = FALSE]}
          /\ hist' = [hist EXCEPT !.disturbed = TRUE]
      BY <1>2, <2>3 DEF Versions!VersionsRead, Versions!UpdatesChecked, Versions!Disturbed
    <3>2. hist'.disturbed /\ (Versions!TypeOK)' /\ DOMAIN hooks' = DOMAIN hooks
          /\ hooks'.page = hooks.page
      BY <1>0, <3>1 DEF VersionsInv, Versions!TypeOK, Versions!HistoryOK
    <3>3. StepTyped
      BY <2>1, <3>2, CallSets, CalmTyped
    <3>. QED
      BY <1>0, <3>2, <3>3 DEF VersionsInv
  <2>. QED
    BY <2>2, <2>3
\* An answer about the history.
<1>3. ASSUME NEW i \in DOMAIN calls, Versions!HistoryRead(i)
      PROVE  StepTyped /\ VersionsInv'
  <2>. DEFINE v == calls[i].answer.value
  <2>1. calls' = Without(i) /\ world' = world /\ events' = events
        /\ calls[i].op = "versions.history"
    BY <1>3, <1>w DEF Versions!HistoryRead
  <2>2. /\ DOMAIN hooks' = DOMAIN hooks /\ hooks'.page = hooks.page
        /\ hooks'.versionList = hooks.versionList /\ hooks'.activeTab = hooks.activeTab
        /\ hooks'.loading = FALSE /\ hooks'.checking = hooks.checking
        /\ hist' = hist
    BY <1>0, <1>3 DEF VersionsInv, Versions!HistoryRead
  <2>3. hooks'.historyList \in [updates : Nat] \cup {Null}
    <3>1. CASE Versions!IsFulfilled(i)
      <4>1. v \in [updates : Nat] \cup {Null}
        BY <1>t, <2>1, <3>1 DEF Versions!IsFulfilled, Typed, TypedValue
      <4>2. hooks' = [hooks EXCEPT !.historyList = v, !.loading = FALSE]
        BY <1>3, <3>1 DEF Versions!HistoryRead, Versions!Value
      <4>. HIDE DEF v
      <4>. QED
        BY <1>0, <4>1, <4>2 DEF VersionsInv
    <3>2. CASE ~Versions!IsFulfilled(i)
      BY <1>0, <1>3, <3>2 DEF VersionsInv, Versions!TypeOK, Versions!HistoryRead
    <3>. QED
      BY <3>1, <3>2
  <2>4. StepTyped
    BY <2>1, <2>2, CallSets, CalmTyped
  <2>5. (Versions!TypeOK)'
    BY <1>0, <2>2, <2>3 DEF VersionsInv, Versions!TypeOK, Versions!HistoryOK
  <2>. QED
    BY <1>0, <1>s, <2>1, <2>2, <2>4, <2>5 DEF VersionsInv
<1>4. CASE Versions!Others
  <2>. DEFINE w == [world EXCEPT !.updates = @ + 1]
  <2>2. /\ DOMAIN w = DOMAIN world /\ w.rev = world.rev /\ w.queue = world.queue
        /\ w.table = world.table /\ w.files = world.files
        /\ w.updates \in Nat /\ w.firing = world.firing
    BY <1>0 DEF IInv, WorldFits, WorldOK
  <2>3. world' = [w EXCEPT !.rev = @ + 1] /\ UNCHANGED <<hooks, calls, hist>>
        /\ events > 0 /\ events' = events - 1
    BY <1>4 DEF Versions!Others, Versions!OthersChange
  <2>. HIDE DEF w
  <2>4. StepTyped
    BY <1>0, <2>2, <2>3, OthersTyped DEF WorldOK
  <2>. QED
    BY <1>0, <2>3, <2>4 DEF VersionsInv, Versions!TypeOK, Versions!HistoryOK, UpToDate
<1>. QED
  BY <1>1, <1>2, <1>3, <1>4 DEF Versions!Next, Versions!Clicks, Versions!Continuations

-----------------------------------------------------------------------------
\* The positions of the calls, when one is over.
LEMMA Positions ==
  ASSUME IInv, NEW i \in DOMAIN calls
  PROVE  /\ Len(calls) \in Nat /\ DOMAIN calls = 1 .. Len(calls)
         /\ Len(Without(i)) = Len(calls) - 1 /\ DOMAIN Without(i) = 1 .. Len(calls) - 1
         /\ \A j \in 1 .. Len(calls) - 1 : Without(i)[j] = calls[IF j < i THEN j ELSE j + 1]
<1>1. calls \in Seq(ToSet(calls))
  BY DEF IInv
<1>2. Len(calls) \in Nat /\ DOMAIN calls = 1 .. Len(calls)
  BY <1>1, LenProperties
<1>. DEFINE t == RemoveAt(calls, i)
<1>3. t = Without(i)
  BY DEF Without, RemoveAt
<1>4. Len(t) = Len(calls) - 1 /\ \A j \in 1 .. Len(calls) - 1 : t[j] = calls[IF j < i THEN j ELSE j + 1]
  BY <1>1, <1>2, RemoveAtLeaves
<1>5. t \in Seq(ToSet(calls))
  BY <1>1, RemoveAtType
<1>. HIDE DEF t
<1>6. DOMAIN t = 1 .. Len(calls) - 1
  BY <1>4, <1>5, LenProperties
<1>. QED
  BY <1>2, <1>3, <1>4, <1>6

\* The restores among the calls of a list: some, and no two.
SomeRestore(cs) == \E i \in DOMAIN cs : RedisMonitor!Restoring(cs[i])
OneRestore(cs)  ==
    \A i, j \in DOMAIN cs : RedisMonitor!Restoring(cs[i]) /\ RedisMonitor!Restoring(cs[j]) => i = j

\* A call that is sent after the others of a list.
LEMMA RestoreSent ==
  ASSUME NEW S, NEW cs \in Seq(S), NEW c
  PROVE  /\ ~RedisMonitor!Restoring(c) =>
               /\ SomeRestore(Append(cs, c)) <=> SomeRestore(cs)
               /\ OneRestore(cs) => OneRestore(Append(cs, c))
         /\ RedisMonitor!Restoring(c) /\ ~SomeRestore(cs) =>
               SomeRestore(Append(cs, c)) /\ OneRestore(Append(cs, c))
<1>. DEFINE t == Append(cs, c)
<1>1. cs \in Seq(S \cup {c})
  BY SeqMonotonic
<1>2. t \in Seq(S \cup {c})
  BY <1>1, AppendProperties
<1>3. /\ Len(cs) \in Nat /\ DOMAIN cs = 1 .. Len(cs) /\ DOMAIN t = 1 .. Len(cs) + 1
      /\ \A j \in 1 .. Len(cs) : t[j] = cs[j]
      /\ t[Len(cs) + 1] = c
  BY <1>1, <1>2, AppendProperties, LenProperties
<1>. HIDE DEF t
<1>4. /\ \A j \in DOMAIN t : j \in DOMAIN cs \/ j = Len(cs) + 1
      /\ \A j \in DOMAIN cs : j \in DOMAIN t /\ t[j] = cs[j]
      /\ Len(cs) + 1 \in DOMAIN t /\ t[Len(cs) + 1] = c
  BY <1>3
<1>. QED
  BY <1>4 DEF SomeRestore, OneRestore, t

\* A call that is over.
LEMMA RestoreOver ==
  ASSUME IInv, NEW i \in DOMAIN calls, OneRestore(calls)
  PROVE  /\ OneRestore(Without(i))
         /\ RedisMonitor!Restoring(calls[i]) => ~SomeRestore(Without(i))
         /\ ~RedisMonitor!Restoring(calls[i]) => (SomeRestore(Without(i)) <=> SomeRestore(calls))
<1>. DEFINE t == Without(i)
            n(j) == IF j < i THEN j ELSE j + 1
            m(k) == IF k < i THEN k ELSE k - 1
<1>1. /\ Len(calls) \in Nat /\ DOMAIN calls = 1 .. Len(calls)
      /\ DOMAIN t = 1 .. Len(calls) - 1
      /\ \A j \in 1 .. Len(calls) - 1 : t[j] = calls[n(j)]
  BY Positions
<1>. HIDE DEF t
<1>2. \A j \in DOMAIN t : n(j) \in DOMAIN calls /\ n(j) # i /\ t[j] = calls[n(j)]
  BY <1>1
<1>3. \A j, k \in DOMAIN t : n(j) = n(k) => j = k
  BY <1>1
<1>4. \A k \in DOMAIN calls : k # i => m(k) \in DOMAIN t /\ t[m(k)] = calls[k]
  BY <1>1
<1>. HIDE DEF n, m
<1>5. OneRestore(t)
  BY <1>2, <1>3 DEF OneRestore
<1>6. RedisMonitor!Restoring(calls[i]) => ~SomeRestore(t)
  BY <1>2 DEF OneRestore, SomeRestore
<1>7. ~RedisMonitor!Restoring(calls[i]) => (SomeRestore(t) <=> SomeRestore(calls))
  BY <1>2, <1>4 DEF SomeRestore
<1>. QED
  BY <1>5, <1>6, <1>7 DEF t

\* What holds of the restores after a step of the page that is none, or that
\* sends a restore when there is none, passes it on, or ends it.
LEMMA RestoresKept ==
  ASSUME IInv, RedisMonitor!OneRestoreAtATime, hooks.restoring \in BOOLEAN,
         \/ /\ hooks'.restoring = hooks.restoring
            /\ \/ calls' = calls
               \/ \E c : ~RedisMonitor!Restoring(c) /\ calls' = Append(calls, c)
               \/ \E i \in DOMAIN calls : ~RedisMonitor!Restoring(calls[i]) /\ calls' = Without(i)
               \/ \E i \in DOMAIN calls : \E c :
                     /\ RedisMonitor!Restoring(calls[i]) /\ RedisMonitor!Restoring(c)
                     /\ calls' = Append(Without(i), c)
         \/ /\ ~hooks.restoring /\ hooks'.restoring = TRUE
            /\ \E c : RedisMonitor!Restoring(c) /\ calls' = Append(calls, c)
         \/ /\ hooks'.restoring = FALSE
            /\ \E i \in DOMAIN calls : RedisMonitor!Restoring(calls[i]) /\ calls' = Without(i)
  PROVE  (RedisMonitor!OneRestoreAtATime)'
<1>1. (hooks.restoring <=> SomeRestore(calls)) /\ OneRestore(calls)
  BY DEF RedisMonitor!OneRestoreAtATime, SomeRestore, OneRestore
<1>. SUFFICES (hooks'.restoring <=> SomeRestore(calls')) /\ OneRestore(calls')
  BY DEF RedisMonitor!OneRestoreAtATime, SomeRestore, OneRestore
<1>2. calls \in Seq(ToSet(calls))
  BY DEF IInv
<1>3. \A i \in DOMAIN calls : Without(i) \in Seq(ToSet(calls))
  <2>. TAKE i \in DOMAIN calls
  <2>1. Without(i) = RemoveAt(calls, i)
    BY DEF Without, RemoveAt
  <2>. QED
    BY <1>2, <2>1, RemoveAtType
<1>4. ASSUME NEW i \in DOMAIN calls, RedisMonitor!Restoring(calls[i])
      PROVE  hooks.restoring = TRUE
  BY <1>1, <1>4 DEF SomeRestore
<1>5. CASE hooks'.restoring = hooks.restoring /\ calls' = calls
  BY <1>1, <1>5
<1>6. ASSUME NEW c, ~RedisMonitor!Restoring(c), calls' = Append(calls, c),
             hooks'.restoring = hooks.restoring
      PROVE  (hooks'.restoring <=> SomeRestore(calls')) /\ OneRestore(calls')
  BY <1>1, <1>2, <1>6, RestoreSent
<1>7. ASSUME NEW i \in DOMAIN calls, ~RedisMonitor!Restoring(calls[i]), calls' = Without(i),
             hooks'.restoring = hooks.restoring
      PROVE  (hooks'.restoring <=> SomeRestore(calls')) /\ OneRestore(calls')
  BY <1>1, <1>7, RestoreOver
<1>8. ASSUME NEW i \in DOMAIN calls, NEW c, RedisMonitor!Restoring(calls[i]),
             RedisMonitor!Restoring(c), calls' = Append(Without(i), c),
             hooks'.restoring = hooks.restoring
      PROVE  (hooks'.restoring <=> SomeRestore(calls')) /\ OneRestore(calls')
  <2>1. ~SomeRestore(Without(i)) /\ Without(i) \in Seq(ToSet(calls))
    BY <1>1, <1>3, <1>8, RestoreOver
  <2>. QED
    BY <1>4, <1>8, <2>1, RestoreSent
<1>9. ASSUME NEW c, RedisMonitor!Restoring(c), calls' = Append(calls, c), ~hooks.restoring,
             hooks'.restoring = TRUE
      PROVE  (hooks'.restoring <=> SomeRestore(calls')) /\ OneRestore(calls')
  BY <1>1, <1>2, <1>9, RestoreSent
<1>10. ASSUME NEW i \in DOMAIN calls, RedisMonitor!Restoring(calls[i]), calls' = Without(i),
              hooks'.restoring = FALSE
       PROVE  (hooks'.restoring <=> SomeRestore(calls')) /\ OneRestore(calls')
  BY <1>1, <1>10, RestoreOver
<1>. QED
  BY <1>5, <1>6, <1>7, <1>8, <1>9, <1>10

\* Every step of the Redis monitor.
LEMMA RedisMonitorStepKeeps ==
  ASSUME IInv, PInv, hooks.page = "redis", RedisMonitor!Next
  PROVE  StepTyped /\ RedisMonitorInv'
<1>. USE DEF RedisMonitor!Handle, RedisMonitor!Continue, RedisMonitor!Call, RedisMonitor!Pending
<1>0. RedisMonitorInv /\ events \in Nat /\ WorldOK /\ world.rev \in Nat
  BY DEF PInv, WorldOK
<1>w. \A i \in DOMAIN calls : RedisMonitor!Without(i) = Without(i)
  BY DEF RedisMonitor!Without, Without
<1>t. \A i \in DOMAIN calls : Typed(calls[i], world.rev)
  BY CallSets DEF PInv, InFlight
<1>n. \A v \in [rev : Nat] : v # Null
  BY NullAssumption
<1>h. /\ hist.acked \in Nat /\ hist.seen \in Nat /\ hist.disturbed \in BOOLEAN
      /\ hist.entered \in Nat
      /\ DOMAIN hist = {"acked", "seen", "disturbed", "entered"}
  BY <1>0 DEF RedisMonitorInv, RedisMonitor!TypeOK
<1>r. RedisMonitor!OneRestoreAtATime /\ hooks.restoring \in BOOLEAN
  BY <1>0 DEF RedisMonitorInv, RedisMonitor!TypeOK
\* What is shown of the keys, when they and what is known of them stay.
<1>s. ASSUME hooks'.keys = hooks.keys, hist'.entered = hist.entered, hist'.seen = hist.seen,
             hist'.disturbed = hist.disturbed, hooks'.activeTab = hooks.activeTab \/ hooks'.activeTab # "keys",
             \/ ToSet(calls) \subseteq ToSet(calls')
             \/ \E i \in DOMAIN calls :
                   calls[i].op # "redis.keys" /\ ToSet(Without(i)) \subseteq ToSet(calls')
      PROVE  (~hist.disturbed /\ hooks.activeTab = "keys" =>
                 Due("redis.keys", hist.entered) \/ UpToDate(hooks.keys, hist.entered))'
  BY <1>0, <1>s, StaysDue DEF RedisMonitorInv, Due, UpToDate
<1>1. ASSUME NEW t \in {"overview", "keys", "backup"}, RedisMonitor!SelectTab(t)
      PROVE  StepTyped /\ RedisMonitorInv'
  <2>1. /\ world' = world /\ events > 0 /\ events' = events - 1
        /\ hooks' = [hooks EXCEPT !.activeTab = t, !.loading = @ \/ RedisMonitor!TabCalls(t) # <<>>]
        /\ calls' = calls \o RedisMonitor!TabCalls(t)
        /\ hist' = IF t = "keys" THEN [hist EXCEPT !.entered = hist.acked] ELSE hist
    BY <1>1 DEF RedisMonitor!SelectTab
  <2>2. /\ DOMAIN hooks' = DOMAIN hooks /\ hooks'.page = hooks.page /\ hooks'.activeTab = t
        /\ hooks'.info = hooks.info /\ hooks'.keys = hooks.keys /\ hooks'.loading \in BOOLEAN
        /\ hooks'.backingUp = hooks.backingUp /\ hooks'.restoring = hooks.restoring
    BY <1>0, <2>1 DEF RedisMonitorInv, RedisMonitor!TypeOK
  <2>3. /\ hist' \in [acked : Nat, seen : Nat, disturbed : BOOLEAN, entered : Nat]
        /\ hist'.acked <= world'.rev /\ hist'.entered <= world'.rev
        /\ hist'.seen = hist.seen /\ hist'.disturbed = hist.disturbed
        /\ t # "keys" => hist'.entered = hist.entered
    BY <1>0, <1>h, <2>1 DEF RedisMonitorInv, RedisMonitor!TypeOK
  <2>4. calls \in Seq(ToSet(calls))
    BY DEF IInv
  <2>5. \/ t = "backup" /\ calls' = calls
        \/ t = "overview" /\ calls' = Append(calls, RedisMonitor!InfoCall)
        \/ t = "keys" /\ calls' = Append(calls, RedisMonitor!KeysCall)
    <3>1. \A c : calls \o <<c>> = Append(calls, c)
      <4>. TAKE c
      <4>. DEFINE S == ToSet(calls) \cup {c}
      <4>1. calls \in Seq(S) /\ c \in S
        BY <2>4, SeqMonotonic
      <4>. HIDE DEF S
      <4>. QED
        BY <4>1
    <3>2. calls \o <<>> = calls
      BY <2>4
    <3>. QED
      BY <2>1, <3>1, <3>2 DEF RedisMonitor!TabCalls
  <2>6. JustSent(RedisMonitor!InfoCall) /\ JustSent(RedisMonitor!KeysCall)
        /\ RedisMonitor!KeysCall.op = "redis.keys"
    BY DEF JustSent, RedisMonitor!InfoCall, RedisMonitor!KeysCall
  <2>7. /\ ToSet(calls) \subseteq ToSet(calls')
        /\ \A c \in ToSet(calls') : c \in ToSet(calls) \/ JustSent(c)
        /\ t = "keys" => RedisMonitor!KeysCall \in ToSet(calls')
    <3>1. ASSUME NEW c, calls' = Append(calls, c)
          PROVE  ToSet(calls') = ToSet(calls) \cup {c}
      BY <3>1, CallSets
    <3>. HIDE DEF RedisMonitor!Call
    <3>. QED
      BY <2>5, <2>6, <3>1
  <2>8. StepTyped
    BY <2>1, <2>2, <2>7, CalmTyped
  <2>9. (~hist.disturbed /\ hooks.activeTab = "keys" =>
            Due("redis.keys", hist.entered) \/ UpToDate(hooks.keys, hist.entered))'
    <3>1. CASE t = "keys"
      <4>1. Due("redis.keys", hist.entered)'
        BY <2>6, <2>7, <3>1 DEF Due, JustSent
      <4>. QED
        BY <4>1
    <3>2. CASE t # "keys"
      BY <1>s, <2>2, <2>3, <2>7, <3>2
    <3>. QED
      BY <3>1, <3>2
  <2>10. (RedisMonitor!TypeOK)'
    BY <1>0, <2>2, <2>3 DEF RedisMonitorInv, RedisMonitor!TypeOK
  <2>11. (RedisMonitor!OneRestoreAtATime)'
    <3>1. ~RedisMonitor!Restoring(RedisMonitor!InfoCall) /\ ~RedisMonitor!Restoring(RedisMonitor!KeysCall)
      BY DEF RedisMonitor!Restoring, RedisMonitor!InfoCall, RedisMonitor!KeysCall
    <3>2. hooks'.restoring = hooks.restoring
      BY <1>0, <2>1 DEF RedisMonitorInv
    <3>. HIDE DEF RedisMonitor!Call
    <3>. QED
      BY <1>r, <2>5, <3>1, <3>2, RestoresKept
  <2>. QED
    BY <1>0, <2>2, <2>3, <2>8, <2>9, <2>10, <2>11 DEF RedisMonitorInv
<1>2. ASSUME NEW f, RedisMonitor!handleBackup \/ RedisMonitor!handleRestore(f)
      PROVE  StepTyped /\ RedisMonitorInv'
  <2>1. /\ UNCHANGED <<hist, world>> /\ events > 0 /\ events' = events - 1
        /\ hooks' \in {[hooks EXCEPT !.backingUp = TRUE], [hooks EXCEPT !.restoring = TRUE]}
        /\ calls' \in {Append(calls, RedisMonitor!Call("redis.backup", Null)),
                       Append(calls, RedisMonitor!Call("file.text", f))}
    BY <1>2 DEF RedisMonitor!handleBackup, RedisMonitor!handleRestore
  <2>2. DOMAIN hooks' = DOMAIN hooks /\ hooks'.page = hooks.page /\ hooks'.keys = hooks.keys
        /\ hooks'.activeTab = hooks.activeTab /\ (RedisMonitor!TypeOK)'
    BY <1>0, <2>1 DEF RedisMonitorInv, RedisMonitor!TypeOK
  <2>3. JustSent(RedisMonitor!Call("redis.backup", Null))
        /\ JustSent(RedisMonitor!Call("file.text", f))
    BY DEF JustSent
  <2>4. /\ ToSet(calls) \subseteq ToSet(calls')
        /\ \A c \in ToSet(calls') : c \in ToSet(calls) \/ JustSent(c)
    <3>1. ASSUME NEW c, calls' = Append(calls, c)
          PROVE  ToSet(calls') = ToSet(calls) \cup {c}
      BY <3>1, CallSets
    <3>. HIDE DEF RedisMonitor!Call
    <3>. QED
      BY <2>1, <2>3, <3>1
  <2>5. StepTyped
    BY <2>1, <2>2, <2>4, CalmTyped
  <2>6. (RedisMonitor!OneRestoreAtATime)'
    <3>1. CASE RedisMonitor!handleBackup
      <4>. DEFINE c == RedisMonitor!Call("redis.backup", Null)
      <4>1. /\ hooks'.restoring = hooks.restoring /\ calls' = Append(calls, c)
            /\ ~RedisMonitor!Restoring(c)
        BY <1>0, <3>1 DEF RedisMonitorInv, RedisMonitor!handleBackup, RedisMonitor!Restoring
      <4>. HIDE DEF c
      <4>. QED
        BY <1>r, <4>1, RestoresKept
    <3>2. CASE RedisMonitor!handleRestore(f)
      <4>. DEFINE c == RedisMonitor!Call("file.text", f)
      <4>1. /\ ~hooks.restoring /\ hooks'.restoring = TRUE /\ calls' = Append(calls, c)
            /\ RedisMonitor!Restoring(c)
        BY <1>0, <3>2 DEF RedisMonitorInv, RedisMonitor!handleRestore, RedisMonitor!Restoring
      <4>. HIDE DEF c
      <4>. QED
        BY <1>r, <4>1, RestoresKept
    <3>. QED
      BY <1>2, <3>1, <3>2
  <2>. QED
    BY <1>0, <1>s, <2>1, <2>2, <2>4, <2>5, <2>6 DEF RedisMonitorInv
<1>3. ASSUME NEW i \in DOMAIN calls, RedisMonitor!KeysRead(i)
      PROVE  StepTyped /\ RedisMonitorInv'
  <2>. DEFINE v == calls[i].answer.value
  <2>1. calls' = Without(i) /\ world' = world /\ events' = events /\ calls[i].op = "redis.keys"
    BY <1>3, <1>w DEF RedisMonitor!KeysRead
  <2>r. (RedisMonitor!OneRestoreAtATime)'
    <3>1. hooks'.restoring = hooks.restoring /\ ~RedisMonitor!Restoring(calls[i])
      BY <1>0, <1>3 DEF RedisMonitorInv, RedisMonitor!KeysRead, RedisMonitor!Restoring
    <3>. QED
      BY <1>r, <2>1, <3>1, RestoresKept
  <2>2. CASE RedisMonitor!IsFulfilled(i)
    <3>1. v \in [rev : 0 .. world.rev] /\ v.rev \in Nat
      BY <1>0, <1>t, <2>1, <2>2 DEF RedisMonitor!IsFulfilled, Typed, TypedValue, PlainReads
    <3>2. /\ hooks' = [hooks EXCEPT !.keys = v, !.loading = FALSE]
          /\ hist' = [hist EXCEPT !.seen = IF v.rev > @ THEN v.rev ELSE @,
                                  !.disturbed = @ \/ v.rev < hist.seen]
      BY <1>3, <2>2 DEF RedisMonitor!KeysRead, RedisMonitor!Value, RedisMonitor!Seen
    <3>. HIDE DEF v
    <3>3. /\ DOMAIN hooks' = DOMAIN hooks /\ hooks'.page = hooks.page /\ hooks'.keys = v
          /\ hooks'.info = hooks.info /\ hooks'.activeTab = hooks.activeTab
          /\ hooks'.loading = FALSE /\ hooks'.backingUp = hooks.backingUp
          /\ hooks'.restoring = hooks.restoring
      BY <1>0, <3>2 DEF RedisMonitorInv
    <3>4. /\ hist' \in [acked : Nat, seen : Nat, disturbed : BOOLEAN, entered : Nat]
          /\ hist'.acked = hist.acked /\ hist'.entered = hist.entered
          /\ hist'.seen = (IF v.rev > hist.seen THEN v.rev ELSE hist.seen)
          /\ hist'.disturbed = (hist.disturbed \/ v.rev < hist.seen)
      BY <1>0, <1>h, <3>1, <3>2 DEF RedisMonitorInv, RedisMonitor!TypeOK
    <3>5. (RedisMonitor!TypeOK)'
      BY <1>0, <3>1, <3>3, <3>4 DEF RedisMonitorInv, RedisMonitor!TypeOK
    <3>6. v # Null
      BY <1>n, <3>1
    <3>7. (~hist.disturbed /\ hooks.activeTab = "keys" =>
              Due("redis.keys", hist.entered) \/ UpToDate(hooks.keys, hist.entered))'
      <4>. SUFFICES ASSUME ~hist'.disturbed, hooks.activeTab = "keys"
                    PROVE  (Due("redis.keys", hist.entered) \/ UpToDate(hooks.keys, hist.entered))'
        BY <3>3
      <4>1. ~hist.disturbed /\ ~ (v.rev < hist.seen)
        BY <3>4
      <4>2. Due("redis.keys", hist.entered) \/ hist.seen >= hist.entered
        BY <1>0, <4>1 DEF RedisMonitorInv, UpToDate
      <4>3. v.rev >= hist.seen /\ calls[i].answer.state = "fulfilled"
        BY <1>h, <2>2, <3>1, <4>1 DEF RedisMonitor!IsFulfilled
      <4>4. /\ hist'.seen = v.rev
            /\ \/ hist'.seen >= hist.entered
               \/ \E c \in ToSet(calls') : c.op = "redis.keys"
                     /\ (c.answer.state = "fulfilled" => c.answer.value.rev >= hist.entered)
        BY <1>h, <2>1, <3>1, <3>4, <4>2, <4>3, ShownAnswer DEF v
      <4>. QED
        BY <3>3, <3>4, <3>6, <4>4 DEF Due, UpToDate
    <3>8. StepTyped
      BY <2>1, <3>3, CallSets, CalmTyped
    <3>. QED
      BY <1>0, <2>1, <2>r, <3>3, <3>4, <3>5, <3>7, <3>8 DEF RedisMonitorInv
  <2>3. CASE ~RedisMonitor!IsFulfilled(i)
    <3>1. /\ hooks' = [hooks EXCEPT !.keys = Null, !.loading = FALSE]
          /\ hist' = [hist EXCEPT !.disturbed = TRUE]
      BY <1>3, <2>3 DEF RedisMonitor!KeysRead, RedisMonitor!Disturbed
    <3>2. hist'.disturbed /\ (RedisMonitor!TypeOK)' /\ DOMAIN hooks' = DOMAIN hooks
          /\ hooks'.page = hooks.page /\ hist'.acked = hist.acked /\ hist'.entered = hist.entered
      BY <1>0, <1>h, <3>1 DEF RedisMonitorInv, RedisMonitor!TypeOK
    <3>3. StepTyped
      BY <2>1, <3>2, CallSets, CalmTyped
    <3>. QED
      BY <1>0, <2>1, <2>r, <3>2, <3>3 DEF RedisMonitorInv
  <2>. QED
    BY <2>2, <2>3
<1>4. ASSUME NEW i \in DOMAIN calls, RedisMonitor!InfoRead(i) \/ RedisMonitor!RestoreDone(i)
      PROVE  StepTyped /\ RedisMonitorInv'
  <2>. DEFINE v == calls[i].answer.value
  <2>1. /\ calls' = Without(i) /\ world' = world /\ events' = events
        /\ calls[i].op \in {"redis.info", "redis.restore"}
    BY <1>4, <1>w DEF RedisMonitor!InfoRead, RedisMonitor!RestoreDone
  <2>2. RedisMonitor!IsFulfilled(i) => v \in [rev : Nat] /\ v.rev \in 0 .. world.rev
    BY <1>t, <2>1 DEF RedisMonitor!IsFulfilled, Typed, TypedValue, PlainReads, Changing
  <2>3. /\ \/ hooks' = [hooks EXCEPT !.restoring = FALSE]
           \/ \E x \in [rev : Nat] \cup {Null} : hooks' = [hooks EXCEPT !.info = x, !.loading = FALSE]
        /\ \/ hist' = hist
           \/ \E n \in 0 .. world.rev : hist' = [hist EXCEPT !.acked = IF n > @ THEN n ELSE @]
    BY <1>4, <2>2
       DEF RedisMonitor!InfoRead, RedisMonitor!RestoreDone, RedisMonitor!Acked, RedisMonitor!Value
  <2>4. /\ DOMAIN hooks' = DOMAIN hooks /\ hooks'.page = hooks.page /\ hooks'.keys = hooks.keys
        /\ hooks'.activeTab = hooks.activeTab /\ hooks'.info \in [rev : Nat] \cup {Null}
        /\ hooks'.loading \in BOOLEAN /\ hooks'.backingUp \in BOOLEAN /\ hooks'.restoring \in BOOLEAN
    BY <1>0, <2>3 DEF RedisMonitorInv, RedisMonitor!TypeOK
  <2>5. /\ hist' \in [acked : Nat, seen : Nat, disturbed : BOOLEAN, entered : Nat]
        /\ hist'.acked <= world.rev /\ hist'.entered = hist.entered /\ hist'.seen = hist.seen
        /\ hist'.disturbed = hist.disturbed
    <3>1. ASSUME NEW n \in 0 .. world.rev, hist' = [hist EXCEPT !.acked = IF n > @ THEN n ELSE @]
          PROVE  hist'.acked \in Nat /\ hist'.acked <= world.rev /\ DOMAIN hist' = DOMAIN hist
                 /\ hist'.entered = hist.entered /\ hist'.seen = hist.seen
                 /\ hist'.disturbed = hist.disturbed
                 /\ hist' \in [acked : Nat, seen : Nat, disturbed : BOOLEAN, entered : Nat]
      BY <1>0, <1>h, <3>1 DEF RedisMonitorInv, RedisMonitor!TypeOK
    <3>2. CASE hist' = hist
      BY <1>0, <1>h, <3>2 DEF RedisMonitorInv, RedisMonitor!TypeOK
    <3>. QED
      BY <2>3, <3>1, <3>2
  <2>6. (RedisMonitor!TypeOK)'
    BY <1>0, <2>4, <2>5 DEF RedisMonitorInv, RedisMonitor!TypeOK
  <2>7. StepTyped
    BY <2>1, <2>4, CallSets, CalmTyped
  <2>8. (RedisMonitor!OneRestoreAtATime)'
    <3>1. \/ hooks'.restoring = hooks.restoring /\ ~RedisMonitor!Restoring(calls[i])
          \/ hooks'.restoring = FALSE /\ RedisMonitor!Restoring(calls[i])
      BY <1>0, <1>4
         DEF RedisMonitorInv, RedisMonitor!InfoRead, RedisMonitor!RestoreDone, RedisMonitor!Restoring
    <3>. QED
      BY <1>r, <2>1, <3>1, RestoresKept
  <2>. QED
    BY <1>0, <1>s, <2>1, <2>4, <2>5, <2>6, <2>7, <2>8 DEF RedisMonitorInv
<1>5. ASSUME NEW i \in DOMAIN calls, RedisMonitor!FileRead(i)
      PROVE  StepTyped /\ RedisMonitorInv'
  <2>. DEFINE c == RedisMonitor!Call("redis.restore", RedisMonitor!Value(i))
  <2>1. /\ UNCHANGED <<world, events, hist>> /\ calls[i].op = "file.text"
        /\ hooks' \in {hooks, [hooks EXCEPT !.restoring = FALSE]}
        /\ calls' = Append(Without(i), c) \/ calls' = Without(i)
    BY <1>5, <1>w DEF RedisMonitor!FileRead
  <2>2. DOMAIN hooks' = DOMAIN hooks /\ hooks'.page = hooks.page /\ hooks'.keys = hooks.keys
        /\ hooks'.activeTab = hooks.activeTab /\ (RedisMonitor!TypeOK)'
    BY <1>0, <2>1 DEF RedisMonitorInv, RedisMonitor!TypeOK
  <2>3. JustSent(c)
    BY DEF JustSent
  <2>. HIDE DEF c
  <2>4. /\ ToSet(Without(i)) \subseteq ToSet(calls')
        /\ \A d \in ToSet(calls') : d \in ToSet(calls) \/ JustSent(d)
    <3>1. ToSet(Append(Without(i), c)) = ToSet(Without(i)) \cup {c}
      BY CallSets
    <3>2. ToSet(Without(i)) \subseteq ToSet(calls)
      BY CallSets
    <3>. QED
      BY <2>1, <2>3, <3>1, <3>2
  <2>5. StepTyped
    BY <2>1, <2>2, <2>4, CalmTyped
  <2>6. RedisMonitor!Restoring(calls[i]) /\ RedisMonitor!Restoring(c)
    BY <2>1 DEF RedisMonitor!Restoring, c
  <2>7. \/ hooks'.restoring = hooks.restoring /\ calls' = Append(Without(i), c)
        \/ hooks'.restoring = FALSE /\ calls' = Without(i)
    BY <1>0, <1>5, <1>w DEF RedisMonitorInv, RedisMonitor!FileRead, c
  <2>8. (RedisMonitor!OneRestoreAtATime)'
    BY <1>r, <2>6, <2>7, RestoresKept
  <2>. QED
    BY <1>0, <1>s, <2>1, <2>2, <2>4, <2>5, <2>8 DEF RedisMonitorInv
<1>6. ASSUME NEW i \in DOMAIN calls, RedisMonitor!BackedUp(i)
      PROVE  StepTyped /\ RedisMonitorInv'
  <2>1. /\ hooks' = [hooks EXCEPT !.backingUp = FALSE] /\ UNCHANGED <<hist, events>>
        /\ calls' = Without(i) /\ calls[i].op = "redis.backup"
    BY <1>6, <1>w DEF RedisMonitor!BackedUp
  <2>2. DOMAIN hooks' = DOMAIN hooks /\ hooks'.page = hooks.page /\ hooks'.keys = hooks.keys
        /\ hooks'.activeTab = hooks.activeTab /\ (RedisMonitor!TypeOK)'
    BY <1>0, <2>1 DEF RedisMonitorInv, RedisMonitor!TypeOK
  <2>3. WorldOK' /\ world'.rev = world.rev
    <3>1. CASE RedisMonitor!IsFulfilled(i)
      <4>. DEFINE v == calls[i].answer.value
      <4>1. FileTyped(v)
        BY <1>t, <2>1, <3>1 DEF RedisMonitor!IsFulfilled, Typed, TypedValue
      <4>2. world' = [world EXCEPT !.files = @ \cup {v}]
        BY <1>6, <3>1 DEF RedisMonitor!BackedUp, RedisMonitor!Value
      <4>. HIDE DEF v
      <4>3. /\ world'.files = world.files \cup {v} /\ world'.rev = world.rev
            /\ world'.queue = world.queue /\ world'.table = world.table
            /\ world'.updates = world.updates
            /\ world'.firing = world.firing
        BY <4>2 DEF IInv, WorldFits
      <4>. QED
        BY <1>0, <4>1, <4>3 DEF WorldOK, FileTyped
    <3>2. CASE ~RedisMonitor!IsFulfilled(i)
      BY <1>0, <1>6, <3>2 DEF RedisMonitor!BackedUp, WorldOK
    <3>. QED
      BY <3>1, <3>2
  <2>4. StepTyped
    <3>1. ToSet(calls') \subseteq ToSet(calls)
      BY <2>1, CallSets
    <3>. QED
      BY <1>0, <2>1, <2>2, <2>3, <3>1 DEF StepTyped
  <2>5. (RedisMonitor!OneRestoreAtATime)'
    <3>1. hooks'.restoring = hooks.restoring /\ ~RedisMonitor!Restoring(calls[i])
      BY <1>0, <2>1 DEF RedisMonitorInv, RedisMonitor!Restoring
    <3>. QED
      BY <1>r, <2>1, <3>1, RestoresKept
  <2>. QED
    BY <1>0, <1>s, <2>1, <2>2, <2>3, <2>4, <2>5 DEF RedisMonitorInv
<1>7. CASE RedisMonitor!Others
  <2>3. world' = [world EXCEPT !.rev = @ + 1] /\ UNCHANGED <<hooks, calls, hist>>
        /\ events > 0 /\ events' = events - 1
    BY <1>7 DEF RedisMonitor!Others, RedisMonitor!OthersChange
  <2>4. StepTyped
    BY <1>0, <2>3, OthersTyped DEF WorldOK
  <2>5. hist.acked <= world'.rev /\ hist.entered <= world'.rev
    BY <1>0, <1>h, <2>4 DEF StepTyped, RedisMonitorInv
  <2>6. (RedisMonitor!OneRestoreAtATime)'
    BY <1>r, <2>3, RestoresKept
  <2>. QED
    BY <1>0, <1>s, <2>3, <2>4, <2>5, <2>6 DEF RedisMonitorInv, RedisMonitor!TypeOK
<1>. QED
  BY <1>1, <1>2, <1>3, <1>4, <1>5, <1>6, <1>7
     DEF RedisMonitor!Next, RedisMonitor!Clicks, RedisMonitor!Continuations

\* Every step of the metrics page: its chart has its type by IInv.
LEMMA MetricsStepKeeps ==
  ASSUME IInv, IInv', PInv, hooks.page = "metrics", Metrics!Next
  PROVE  StepTyped /\ MetricsInv'
<1>. USE DEF Metrics!Handle, Metrics!Continue, Metrics!Call, Metrics!Pending
<1>0. MetricsInv /\ events \in Nat /\ WorldOK
  BY DEF PInv
<1>w. \A i \in DOMAIN calls : Metrics!Without(i) = Without(i)
  BY DEF Metrics!Without, Without
<1>c. \A r : JustSent(Metrics!RangeCall(r)) /\ JustSent(Metrics!TargetsCall)
  BY DEF JustSent, Metrics!RangeCall, Metrics!TargetsCall
<1>1. ASSUME world' = world, events' = events \/ (events > 0 /\ events' = events - 1),
             \A c \in ToSet(calls') : c \in ToSet(calls) \/ JustSent(c),
             DOMAIN hooks' = DOMAIN hooks, hooks'.page = hooks.page,
             hooks'.activeTab \in {"system", "api", "targets"},
             hooks'.targets \in [rev : Nat] \cup {Null}, hooks'.loading \in BOOLEAN
      PROVE  StepTyped /\ MetricsInv'
  <2>1. hooks'.range \in Ranges /\ hooks'.chart \in Metrics!Charts \cup {Null}
    BY <1>1 DEF IInv, MetricsFits, Metrics!Charts
  <2>2. StepTyped
    BY <1>1, CalmTyped
  <2>. QED
    BY <1>0, <1>1, <2>1, <2>2 DEF MetricsInv, Metrics!TypeOK, Metrics!Charts
<1>2. ASSUME NEW r \in Ranges, Metrics!SelectRange(r) \/ Metrics!Tick
      PROVE  StepTyped /\ MetricsInv'
  <2>1. /\ world' = world /\ (events' = events \/ (events > 0 /\ events' = events - 1))
        /\ calls' = calls \/ \E x : calls' = Append(calls, Metrics!RangeCall(x))
        /\ \/ hooks' = [hooks EXCEPT !.range = r]
           \/ hooks' = [hooks EXCEPT !.range = r, !.chart = Metrics!RangeEffect(r)]
           \/ hooks' = [hooks EXCEPT !.chart = Metrics!Fetching(@)]
    BY <1>2 DEF Metrics!SelectRange, Metrics!Tick
  <2>2. DOMAIN hooks' = DOMAIN hooks /\ hooks'.page = hooks.page
        /\ hooks'.activeTab = hooks.activeTab /\ hooks'.targets = hooks.targets
        /\ hooks'.loading = hooks.loading
    BY <1>0, <2>1 DEF MetricsInv
  <2>3. \A c \in ToSet(calls') : c \in ToSet(calls) \/ JustSent(c)
    <3>1. ASSUME NEW c, calls' = Append(calls, c)
          PROVE  ToSet(calls') = ToSet(calls) \cup {c}
      BY <3>1, CallSets
    <3>. HIDE DEF Metrics!Call
    <3>. QED
      BY <1>c, <2>1, <3>1
  <2>. QED
    BY <1>0, <1>1, <2>1, <2>2, <2>3 DEF MetricsInv, Metrics!TypeOK
<1>3. ASSUME NEW t \in {"system", "api", "targets"}, Metrics!SelectTab(t) \/ Metrics!Refresh
      PROVE  StepTyped /\ MetricsInv'
  <2>1. /\ world' = world /\ events > 0 /\ events' = events - 1
        /\ \E c : JustSent(c) /\ calls' = <<c>>
        /\ \/ hooks' = [hooks EXCEPT !.activeTab = t, !.chart = Null, !.targets = Null,
                                     !.loading = TRUE]
           \/ hooks' = [hooks EXCEPT !.activeTab = t, !.chart = Metrics!Chart(hooks.range),
                                     !.loading = FALSE]
           \/ hooks' = [hooks EXCEPT !.chart = Metrics!Chart(hooks.range)]
    BY <1>3, <1>c DEF Metrics!SelectTab, Metrics!Refresh
  <2>2. DOMAIN hooks' = DOMAIN hooks /\ hooks'.page = hooks.page
        /\ hooks'.activeTab \in {"system", "api", "targets"}
        /\ hooks'.targets \in [rev : Nat] \cup {Null} /\ hooks'.loading \in BOOLEAN
    BY <1>0, <2>1 DEF MetricsInv, Metrics!TypeOK
  <2>3. \A c \in ToSet(calls') : JustSent(c)
    BY <2>1, ElementsOfOne
  <2>. QED
    BY <1>1, <2>1, <2>2, <2>3
<1>4. ASSUME NEW i \in DOMAIN calls, Metrics!ChartRead(i) \/ Metrics!TargetsRead(i)
      PROVE  StepTyped /\ MetricsInv'
  <2>. DEFINE v == calls[i].answer.value
  <2>1. world' = world /\ events' = events /\ calls' = Without(i)
    BY <1>4, <1>w DEF Metrics!ChartRead, Metrics!TargetsRead
  <2>2. calls[i].op = "prometheus.targets" /\ Metrics!IsFulfilled(i) => v \in [rev : Nat]
    <3>1. Typed(calls[i], world.rev)
      BY CallSets DEF PInv, InFlight
    <3>. QED
      BY <3>1 DEF Metrics!IsFulfilled, Typed, TypedValue, PlainReads
  <2>3. \/ \E c : hooks' = [hooks EXCEPT !.chart = c]
        \/ \E x \in [rev : Nat] \cup {Null} : hooks' = [hooks EXCEPT !.targets = x, !.loading = FALSE]
    <3>1. CASE Metrics!ChartRead(i)
      BY <3>1 DEF Metrics!ChartRead
    <3>2. CASE Metrics!TargetsRead(i)
      <4>. DEFINE x == IF Metrics!IsFulfilled(i) THEN v ELSE hooks.targets
      <4>1. x \in [rev : Nat] \cup {Null}
        BY <1>0, <2>2, <3>2 DEF Metrics!TargetsRead, MetricsInv, Metrics!TypeOK
      <4>2. hooks' = [hooks EXCEPT !.targets = x, !.loading = FALSE]
        BY <3>2 DEF Metrics!TargetsRead, Metrics!Value
      <4>. QED
        BY <4>1, <4>2
    <3>. QED
      BY <1>4, <3>1, <3>2
  <2>4. DOMAIN hooks' = DOMAIN hooks /\ hooks'.page = hooks.page
        /\ hooks'.activeTab = hooks.activeTab
        /\ hooks'.targets \in [rev : Nat] \cup {Null} /\ hooks'.loading \in BOOLEAN
    BY <1>0, <2>3 DEF MetricsInv, Metrics!TypeOK
  <2>5. \A c \in ToSet(calls') : c \in ToSet(calls)
    BY <2>1, CallSets
  <2>. QED
    BY <1>0, <1>1, <2>1, <2>4, <2>5 DEF MetricsInv, Metrics!TypeOK
<1>5. PICK r \in Ranges : TRUE
  BY RangesAssumption
<1>. QED
  BY <1>2, <1>3, <1>4, <1>5 DEF Metrics!Next, Metrics!Clicks, Metrics!Continuations

\* Every step of the clients page.
LEMMA ClientsStepKeeps ==
  ASSUME IInv, PInv, hooks.page = "clients", ClientsView!Next
  PROVE  StepTyped /\ ClientsInv'
<1>. USE DEF ClientsView!Handle, ClientsView!Continue
<1>0. ClientsInv
  BY DEF PInv
<1>w. \A i \in DOMAIN calls : ClientsView!Without(i) = Without(i)
  BY DEF ClientsView!Without, Without
<1>1. ASSUME NEW c \in hooks.clientsList, ClientsView!handleRowClick(c)
      PROVE  StepTyped /\ ClientsInv'
  <2>1. /\ world' = world /\ calls' = calls /\ events > 0 /\ events' = events - 1
        /\ hooks' = [hooks EXCEPT !.selectedClient = IF @ = c THEN Null ELSE c]
    BY <1>1 DEF ClientsView!handleRowClick
  <2>2. ClientsInv' /\ hooks'.page = hooks.page
    BY <1>0, <2>1 DEF ClientsInv, ClientsView!TypeOK
  <2>. QED
    BY <2>1, <2>2, CalmTyped
<1>2. ASSUME NEW i \in DOMAIN calls, ClientsView!ClientsRead(i)
      PROVE  StepTyped /\ ClientsInv'
  <2>1. /\ world' = world /\ calls' = Without(i) /\ events' = events
        /\ \/ hooks' = [hooks EXCEPT !.clientsList = Clients, !.loading = FALSE]
           \/ hooks' = [hooks EXCEPT !.loading = FALSE]
    <3>1. hooks' = [hooks EXCEPT !.clientsList = IF ClientsView!IsFulfilled(i) THEN Clients ELSE @,
                                 !.loading = FALSE]
      BY <1>2 DEF ClientsView!ClientsRead
    <3>2. hooks' = IF ClientsView!IsFulfilled(i)
                   THEN [hooks EXCEPT !.clientsList = Clients, !.loading = FALSE]
                   ELSE [hooks EXCEPT !.loading = FALSE]
      BY <1>0, <3>1 DEF ClientsInv
    <3>. QED
      BY <1>2, <1>w, <3>2 DEF ClientsView!ClientsRead
  <2>2. ClientsInv' /\ hooks'.page = hooks.page
    BY <1>0, <2>1 DEF ClientsInv, ClientsView!TypeOK
  <2>. QED
    BY <2>1, <2>2, CallSets, CalmTyped
<1>. QED
  BY <1>1, <1>2 DEF ClientsView!Next, ClientsView!Clicks, ClientsView!Continuations

\* Every step of the system page.
LEMMA SystemStepKeeps ==
  ASSUME IInv, PInv, hooks.page = "system", System!Next
  PROVE  StepTyped /\ SystemInv'
<1>. USE DEF System!Handle, System!Continue, System!Call, System!Pending
<1>0. SystemInv
  BY DEF PInv
<1>w. \A i \in DOMAIN calls : System!Without(i) = Without(i)
  BY DEF System!Without, Without
<1>1. ASSUME NEW t \in {"overview", "graphs"}, System!SelectTab(t)
      PROVE  StepTyped /\ SystemInv'
  <2>1. /\ world' = world /\ events > 0 /\ events' = events - 1
        /\ hooks' \in {[hooks EXCEPT !.activeTab = t, !.loading = TRUE],
                       [hooks EXCEPT !.activeTab = t]}
        /\ calls' \in {calls, Append(calls, System!SystemCall)}
    BY <1>1 DEF System!SelectTab
  <2>2. SystemInv' /\ hooks'.page = hooks.page
    BY <1>0, <2>1 DEF SystemInv, System!TypeOK
  <2>3. JustSent(System!SystemCall)
    BY DEF JustSent, System!SystemCall
  <2>4. ToSet(Append(calls, System!SystemCall)) = ToSet(calls) \cup {System!SystemCall}
    BY CallSets
  <2>. HIDE DEF System!Call
  <2>. QED
    BY <2>1, <2>2, <2>3, <2>4, CalmTyped
<1>2. ASSUME NEW i \in DOMAIN calls, System!SystemRead(i)
      PROVE  StepTyped /\ SystemInv'
  <2>. DEFINE x == IF System!IsFulfilled(i) THEN System!Value(i) ELSE Null
  <2>1. /\ world' = world /\ calls' = Without(i) /\ events' = events
        /\ hooks' = [hooks EXCEPT !.sysInfo = x, !.loading = FALSE]
    BY <1>2, <1>w DEF System!SystemRead
  <2>2. x \in [rev : Nat] \cup {Null}
    <3>1. Typed(calls[i], world.rev)
      BY CallSets DEF PInv, InFlight
    <3>. QED
      BY <1>2, <3>1
         DEF System!SystemRead, System!IsFulfilled, System!Value, Typed, TypedValue, PlainReads
  <2>. HIDE DEF x
  <2>3. SystemInv' /\ hooks'.page = hooks.page
    BY <1>0, <2>1, <2>2 DEF SystemInv, System!TypeOK
  <2>. QED
    BY <2>1, <2>3, CallSets, CalmTyped
<1>. QED
  BY <1>1, <1>2 DEF System!Next, System!Clicks, System!Continuations

\* Every step of the alerts page.
LEMMA AlertsStepKeeps ==
  ASSUME IInv, PInv, hooks.page = "alerts", AlertsView!Next
  PROVE  StepTyped /\ AlertsInv'
<1>. USE DEF AlertsView!Handle, AlertsView!Continue, AlertsView!Call, AlertsView!Pending
<1>0. AlertsInv /\ events \in Nat /\ WorldOK /\ world.rev \in Nat
  BY DEF PInv, WorldOK
<1>w. \A i \in DOMAIN calls : AlertsView!Without(i) = Without(i)
  BY DEF AlertsView!Without, Without
<1>t. \A i \in DOMAIN calls : Typed(calls[i], world.rev)
  BY CallSets DEF PInv, InFlight
<1>g. \A s : AlertsView!ToSet(s) = ToSet(s)
  BY DEF AlertsView!ToSet, ToSet
<1>c. JustSent(AlertsView!AlertsCall) /\ JustSent(AlertsView!RulesCall)
      /\ AlertsView!AlertsCall.op = "prometheus.alerts"
      /\ AlertsView!RulesCall.op = "prometheus.rules"
  BY DEF JustSent, AlertsView!AlertsCall, AlertsView!RulesCall
<1>1. ASSUME NEW t \in {"active", "rules"}, AlertsView!Mount(t)
      PROVE  StepTyped /\ AlertsInv'
  <2>1. /\ events > 0 /\ events' = events - 1 /\ world' = world
        /\ hist' = [last |-> "none"] /\ hooks' = AlertsView!Mounted(t)
        /\ calls' = <<AlertsView!TabCall(t)>>
    BY <1>1 DEF AlertsView!Mount, AlertsView!NoAnswer
  <2>2. ToSet(calls') = {AlertsView!TabCall(t)}
    BY <2>1, ElementsOfOne
  <2>3. AlertsView!TabCall(t)
           = IF t = "active" THEN AlertsView!AlertsCall ELSE AlertsView!RulesCall
    BY DEF AlertsView!TabCall
  <2>4. \A c \in ToSet(calls') :
           JustSent(c) /\ c.op = IF t = "active" THEN "prometheus.alerts" ELSE "prometheus.rules"
    <3>. HIDE DEF AlertsView!Call
    <3>. QED
      BY <1>c, <2>2, <2>3
  <2>5. AlertsInv' /\ hooks'.page = hooks.page
    <3>1. CASE t = "active"
      <4>1. hooks' = [hooks EXCEPT !.activeTab = t, !.active = AlertsView!Active, !.rules = Null]
        BY <2>1, <3>1 DEF AlertsView!Mounted
      <4>2. /\ DOMAIN hooks' = DOMAIN hooks /\ hooks'.page = hooks.page /\ hooks'.activeTab = "active"
            /\ hooks'.active = [alerts |-> {}, loading |-> TRUE, error |-> FALSE]
            /\ hooks'.rules = Null
        BY <1>0, <3>1, <4>1 DEF AlertsInv, AlertsView!Active
      <4>3. (AlertsView!TypeOK)'
        BY <2>1, <4>2 DEF AlertsView!TypeOK
      <4>4. (~AlertsView!AllClear)'
        BY <4>2 DEF AlertsView!AllClear
      <4>5. \A c \in ToSet(calls') : c.op = "prometheus.alerts"
        BY <2>4, <3>1
      <4>6. hooks'.active \in [alerts : SUBSET Alerts, loading : BOOLEAN, error : BOOLEAN]
        BY <4>2
      <4>. QED
        BY <1>0, <4>2, <4>3, <4>4, <4>5, <4>6 DEF AlertsInv
    <3>2. CASE t = "rules"
      <4>1. hooks' = [hooks EXCEPT !.activeTab = t, !.active = Null, !.rules = AlertsView!Rules]
        BY <2>1, <3>2 DEF AlertsView!Mounted
      <4>2. /\ DOMAIN hooks' = DOMAIN hooks /\ hooks'.page = hooks.page /\ hooks'.activeTab = "rules"
            /\ hooks'.rules = [groups |-> <<>>, loading |-> TRUE, expanded |-> Null]
            /\ hooks'.active = Null
        BY <1>0, <3>2, <4>1 DEF AlertsInv, AlertsView!Rules
      <4>3. (AlertsView!TypeOK)'
        BY <2>1, <4>2 DEF AlertsView!TypeOK
      <4>4. (~AlertsView!AllClear)'
        BY <4>2 DEF AlertsView!AllClear
      <4>5. \A c \in ToSet(calls') : c.op = "prometheus.rules"
        BY <2>4, <3>2
      <4>6. hooks'.rules \in [groups : {<<>>, Groups}, loading : BOOLEAN,
                              expanded : ToSet(Groups) \cup {Null}]
        BY <4>2
      <4>. QED
        BY <1>0, <4>2, <4>3, <4>4, <4>5, <4>6 DEF AlertsInv
    <3>. QED
      BY <3>1, <3>2
  <2>. QED
    BY <2>1, <2>4, <2>5, CalmTyped
<1>2. CASE AlertsView!Tick
  <2>1. /\ UNCHANGED <<hooks, hist, world, events>> /\ hooks.active # Null
        /\ calls' = Append(calls, AlertsView!AlertsCall)
    BY <1>2 DEF AlertsView!Tick
  <2>2. hooks.activeTab = "active"
    BY <1>0, <2>1 DEF AlertsInv, AlertsView!TypeOK
  <2>3. ToSet(calls') = ToSet(calls) \cup {AlertsView!AlertsCall}
    BY <2>1, CallSets
  <2>. HIDE DEF AlertsView!Call
  <2>4. StepTyped
    BY <1>c, <2>1, <2>3, CalmTyped
  <2>. QED
    BY <1>0, <1>c, <2>1, <2>2, <2>3, <2>4 DEF AlertsInv, AlertsView!TypeOK, AlertsView!AllClear
<1>3. ASSUME NEW g \in ToSet(Groups), AlertsView!ToggleGroup(g)
      PROVE  StepTyped /\ AlertsInv'
  <2>1. /\ hooks.rules # Null /\ UNCHANGED <<calls, hist, world>> /\ events > 0 /\ events' = events - 1
        /\ hooks' = [hooks EXCEPT !.rules.expanded = IF @ = g THEN Null ELSE g]
    BY <1>3 DEF AlertsView!ToggleGroup
  <2>2. hooks.activeTab = "rules"
    BY <1>0, <2>1 DEF AlertsInv, AlertsView!TypeOK
  <2>3. hooks.rules \in [groups : {<<>>, Groups}, loading : BOOLEAN,
                         expanded : ToSet(Groups) \cup {Null}]
    BY <1>0, <2>2 DEF AlertsInv
  <2>4. /\ DOMAIN hooks' = DOMAIN hooks /\ hooks'.page = hooks.page
        /\ hooks'.activeTab = hooks.activeTab /\ hooks'.active = hooks.active
        /\ hooks'.rules = [hooks.rules EXCEPT !.expanded = IF @ = g THEN Null ELSE g]
    BY <1>0, <2>1 DEF AlertsInv
  <2>5. hooks'.rules \in [groups : {<<>>, Groups}, loading : BOOLEAN,
                          expanded : ToSet(Groups) \cup {Null}]
    BY <2>3, <2>4
  <2>6. StepTyped
    BY <2>1, <2>4, CalmTyped
  <2>7. hooks'.active = Null
    BY <1>0, <2>2, <2>3, <2>4 DEF AlertsInv
  <2>8. (AlertsView!TypeOK)'
    BY <1>0, <1>g, <2>1, <2>4, <2>5, <2>7 DEF AlertsInv, AlertsView!TypeOK
  <2>9. (~AlertsView!AllClear)'
    BY <2>7 DEF AlertsView!AllClear
  <2>. QED
    BY <1>0, <2>1, <2>2, <2>3, <2>4, <2>5, <2>6, <2>7, <2>8, <2>9 DEF AlertsInv
<1>4. ASSUME NEW i \in DOMAIN calls, AlertsView!AlertsRead(i)
      PROVE  StepTyped /\ AlertsInv'
  <2>. DEFINE a == AlertsView!AlertsAnswer(hooks.active, calls[i].answer)
  <2>1. /\ UNCHANGED <<world, events>> /\ calls' = Without(i)
        /\ calls[i].op = "prometheus.alerts" /\ calls[i].answer # [state |-> "pending"]
        /\ hooks' = [hooks EXCEPT !.active = a]
        /\ hist' = [last |-> AlertsView!Verdict(calls[i].answer)]
    BY <1>4, <1>w DEF AlertsView!AlertsRead, AlertsView!Settled
  <2>2. calls[i] \in ToSet(calls) /\ CallOK(calls[i])
    BY CallSets DEF IInv, InFlight
  <2>3. calls[i].answer.state \in {"rejected", "fulfilled"}
    BY <2>1, <2>2 DEF CallOK, Pending, Rejected
  <2>4. hooks.activeTab = "active"
        /\ hooks.active \in [alerts : SUBSET Alerts, loading : BOOLEAN, error : BOOLEAN]
    BY <1>0, <2>1, <2>2 DEF AlertsInv, AlertsView!TypeOK
  <2>5. /\ a \in [alerts : SUBSET Alerts, loading : BOOLEAN, error : BOOLEAN]
        /\ hist' \in [last : {"none", "failed", "clear", "active"}]
        /\ ~a.error /\ a.alerts = {} => hist'.last = "clear"
    <3>1. CASE calls[i].answer.state = "rejected"
      BY <2>1, <2>4, <3>1 DEF AlertsView!AlertsAnswer, AlertsView!Verdict
    <3>2. CASE calls[i].answer.state = "fulfilled"
      <4>1. calls[i].answer.value.firing \subseteq Alerts
        BY <1>t, <2>1, <3>2 DEF Typed, TypedValue
      <4>. QED
        BY <2>1, <3>2, <4>1 DEF AlertsView!AlertsAnswer, AlertsView!Verdict
    <3>. QED
      BY <2>3, <3>1, <3>2
  <2>. HIDE DEF a
  <2>6. /\ DOMAIN hooks' = DOMAIN hooks /\ hooks'.page = hooks.page
        /\ hooks'.activeTab = hooks.activeTab /\ hooks'.active = a /\ hooks'.rules = hooks.rules
    BY <1>0, <2>1 DEF AlertsInv
  <2>7. ToSet(calls') \subseteq ToSet(calls)
    BY <2>1, CallSets
  <2>8. StepTyped
    BY <2>1, <2>6, <2>7, CalmTyped
  <2>. QED
    BY <1>0, <2>4, <2>5, <2>6, <2>7, <2>8 DEF AlertsInv, AlertsView!TypeOK, AlertsView!AllClear
<1>5. ASSUME NEW i \in DOMAIN calls, AlertsView!RulesRead(i)
      PROVE  StepTyped /\ AlertsInv'
  <2>1. /\ UNCHANGED <<world, events, hist>> /\ calls' = Without(i)
        /\ calls[i].op = "prometheus.rules"
        /\ \/ \E gs \in {Groups, <<>>} :
                 hooks' = [hooks EXCEPT !.rules =
                              [groups |-> gs, loading |-> FALSE,
                               expanded |-> IF gs = <<>> THEN Null ELSE Head(gs)]]
           \/ hooks' = [hooks EXCEPT !.rules.loading = FALSE]
    BY <1>5, <1>w DEF AlertsView!RulesRead
  <2>2. calls[i] \in ToSet(calls)
    BY CallSets
  <2>3. hooks.activeTab = "rules"
        /\ hooks.rules \in [groups : {<<>>, Groups}, loading : BOOLEAN,
                            expanded : ToSet(Groups) \cup {Null}]
    BY <1>0, <2>1, <2>2 DEF AlertsInv, AlertsView!TypeOK
  <2>4. /\ DOMAIN hooks' = DOMAIN hooks /\ hooks'.page = hooks.page
        /\ hooks'.activeTab = hooks.activeTab /\ hooks'.active = hooks.active
    BY <1>0, <2>1 DEF AlertsInv
  <2>5. hooks'.rules \in [groups : {<<>>, Groups}, loading : BOOLEAN,
                          expanded : ToSet(Groups) \cup {Null}]
    <3>1. ASSUME NEW gs \in {Groups, <<>>},
                 hooks' = [hooks EXCEPT !.rules =
                              [groups |-> gs, loading |-> FALSE,
                               expanded |-> IF gs = <<>> THEN Null ELSE Head(gs)]]
          PROVE  hooks'.rules \in [groups : {<<>>, Groups}, loading : BOOLEAN,
                                   expanded : ToSet(Groups) \cup {Null}]
      <4>1. gs # <<>> => Head(gs) \in ToSet(Groups)
        <5>. SUFFICES ASSUME gs # <<>> PROVE Head(gs) \in ToSet(Groups)
          OBVIOUS
        <5>. DEFINE S == ToSet(Groups)
        <5>1. gs \in Seq(S)
          BY ListsAssumption
        <5>. HIDE DEF S
        <5>2. Head(gs) \in S
          BY <5>1, HeadTailProperties
        <5>. QED
          BY <5>2 DEF S
      <4>2. hooks'.rules = [groups |-> gs, loading |-> FALSE,
                            expanded |-> IF gs = <<>> THEN Null ELSE Head(gs)]
        BY <1>0, <3>1 DEF AlertsInv
      <4>. QED
        BY <4>1, <4>2
    <3>2. CASE hooks' = [hooks EXCEPT !.rules.loading = FALSE]
      <4>1. hooks'.rules = [hooks.rules EXCEPT !.loading = FALSE]
        BY <1>0, <3>2 DEF AlertsInv
      <4>. QED
        BY <2>3, <4>1
    <3>. QED
      BY <2>1, <3>1, <3>2
  <2>6. ToSet(calls') \subseteq ToSet(calls)
    BY <2>1, CallSets
  <2>7. StepTyped
    BY <2>1, <2>4, <2>6, CalmTyped
  <2>8. hooks'.active = Null
    BY <1>0, <2>2, <2>3, <2>4 DEF AlertsInv
  <2>9. (AlertsView!TypeOK)'
    BY <1>0, <1>g, <2>1, <2>4, <2>5, <2>8 DEF AlertsInv, AlertsView!TypeOK
  <2>10. (~AlertsView!AllClear)'
    BY <2>8 DEF AlertsView!AllClear
  <2>. QED
    BY <1>0, <2>1, <2>2, <2>3, <2>4, <2>5, <2>7, <2>8, <2>9, <2>10, <2>6 DEF AlertsInv
<1>6. CASE AlertsView!Others
  <2>1. PICK a \in Alerts :
           AlertsView!OthersChange([world EXCEPT !.firing = IF a \in @ THEN @ \ {a} ELSE @ \cup {a}])
    BY <1>6 DEF AlertsView!Others
  <2>. DEFINE w == [world EXCEPT !.firing = IF a \in @ THEN @ \ {a} ELSE @ \cup {a}]
  <2>2. /\ DOMAIN w = DOMAIN world /\ w.rev = world.rev /\ w.queue = world.queue
        /\ w.table = world.table /\ w.files = world.files
        /\ w.updates = world.updates
        /\ w.firing = IF a \in world.firing THEN world.firing \ {a} ELSE world.firing \cup {a}
    BY DEF IInv, WorldFits
  <2>3. world' = [w EXCEPT !.rev = @ + 1] /\ UNCHANGED <<hooks, calls, hist>>
        /\ events > 0 /\ events' = events - 1
    BY <2>1 DEF AlertsView!OthersChange
  <2>. HIDE DEF w
  <2>4. w.firing \subseteq Alerts
    BY <1>0, <2>2 DEF WorldOK
  <2>5. StepTyped
    BY <1>0, <2>2, <2>3, <2>4, OthersTyped DEF WorldOK
  <2>. QED
    BY <1>0, <2>3, <2>5 DEF AlertsInv, AlertsView!TypeOK, AlertsView!AllClear
<1>7. hooks.activeTab \in {"active", "rules"}
  BY <1>0 DEF AlertsInv, AlertsView!TypeOK
<1>. QED
  BY <1>1, <1>2, <1>3, <1>4, <1>5, <1>6, <1>7, <1>g
     DEF AlertsView!Next, AlertsView!Clicks, AlertsView!Continuations, AlertsView!SelectTab,
         AlertsView!Refresh

\* A call that is sent is the last one of its operation, and leaves the last
\* one of another as it is.
LEMMA LastOfAppend ==
  ASSUME NEW S, NEW cs \in Seq(S), NEW d
  PROVE  /\ Append(cs, d) \in Seq(S \cup {d})
         /\ ToSet(Append(cs, d)) = ToSet(cs) \cup {d}
         /\ \A op : LastOf(Append(cs, d), d, op)
         /\ \A c, op : LastOf(cs, c, op) /\ d.op # op => LastOf(Append(cs, d), c, op)
<1>1. cs \in Seq(S \cup {d})
  BY SeqMonotonic
<1>2. Append(cs, d) \in Seq(S \cup {d})
  BY <1>1, AppendProperties
<1>3. /\ Len(cs) \in Nat /\ DOMAIN cs = 1 .. Len(cs) /\ DOMAIN Append(cs, d) = 1 .. Len(cs) + 1
      /\ \A j \in 1 .. Len(cs) : Append(cs, d)[j] = cs[j]
      /\ Append(cs, d)[Len(cs) + 1] = d
  BY <1>1, <1>2, AppendProperties, LenProperties
<1>4. ToSet(Append(cs, d)) = ToSet(cs) \cup {d}
  <2>. DEFINE T == S \cup {d}
  <2>1. cs \in Seq(T) /\ d \in T
    BY <1>1
  <2>. HIDE DEF T
  <2>. QED
    BY <2>1, AppendElements
<1>. DEFINE t == Append(cs, d)
<1>. HIDE DEF t
<1>. QED
  BY <1>2, <1>3, <1>4 DEF LastOf, t

\* When a call is over, the last one of an operation stays the last, or is
\* the one that was over.
LEMMA LastOfWithout ==
  ASSUME IInv, NEW i \in DOMAIN calls, NEW c, NEW op, LastOf(calls, c, op)
  PROVE  \/ LastOf(Without(i), c, op)
         \/ calls[i] = c /\ \A j \in DOMAIN calls : j > i => calls[j].op # op
<1>. DEFINE t == Without(i)
<1>1. /\ Len(calls) \in Nat /\ DOMAIN calls = 1 .. Len(calls)
      /\ DOMAIN t = 1 .. Len(calls) - 1
      /\ \A j \in 1 .. Len(calls) - 1 : t[j] = calls[IF j < i THEN j ELSE j + 1]
  BY Positions
<1>. HIDE DEF t
<1>2. PICK k \in DOMAIN calls : calls[k] = c /\ \A j \in DOMAIN calls : j > k => calls[j].op # op
  BY DEF LastOf
<1>3. CASE k = i
  BY <1>2, <1>3
<1>4. CASE k # i
  <2>. DEFINE m == IF k < i THEN k ELSE k - 1
  <2>1. m \in DOMAIN t /\ t[m] = c
    BY <1>1, <1>2, <1>4
  <2>2. ASSUME NEW j \in DOMAIN t, j > m
        PROVE  t[j].op # op
    <3>. DEFINE n == IF j < i THEN j ELSE j + 1
    <3>1. n \in DOMAIN calls /\ n > k /\ t[j] = calls[n]
      BY <1>1, <1>4, <2>2
    <3>. QED
      BY <1>2, <3>1
  <2>. QED
    BY <2>1, <2>2 DEF LastOf, t
<1>. QED
  BY <1>3, <1>4

\* When the only call of an operation is over, there is none.
LEMMA NoneWithout ==
  ASSUME IInv, NEW i \in DOMAIN calls, NEW op,
         \A j \in DOMAIN calls : j # i => calls[j].op # op
  PROVE  \A c \in ToSet(Without(i)) : c.op # op
<1>. DEFINE t == Without(i)
<1>1. /\ Len(calls) \in Nat /\ DOMAIN calls = 1 .. Len(calls)
      /\ DOMAIN t = 1 .. Len(calls) - 1
      /\ \A j \in 1 .. Len(calls) - 1 : t[j] = calls[IF j < i THEN j ELSE j + 1]
  BY Positions
<1>. HIDE DEF t
<1>2. ASSUME NEW j \in DOMAIN t
      PROVE  t[j].op # op
  <2>. DEFINE n == IF j < i THEN j ELSE j + 1
  <2>1. n \in DOMAIN calls /\ n # i /\ t[j] = calls[n]
    BY <1>1
  <2>. QED
    BY <2>1
<1>. QED
  BY <1>2 DEF ToSet, t

\* The calls after the effects of the log viewer.
GetsLogs(h) ==
    /\ <<h.activeTab, h.selectedService>> # <<hooks.activeTab, hooks.selectedService>>
    /\ h.activeTab = "by-service" /\ h.selectedService # Null

LEMMA LogsSent ==
  ASSUME NEW S, NEW cs \in Seq(S), NEW h, NEW next, next = cs \o Logs!Sent(h),
         h.selectedService \in Services \cup {Null}
  PROVE  /\ \A c \in ToSet(next) : c \in ToSet(cs) \/ JustSent(c)
         /\ \A c \in ToSet(next) : c.op = "logs.get" /\ c \notin ToSet(cs) => c.arg \in Services
         /\ GetsLogs(h) => \E c \in ToSet(next) :
               /\ c.op = "logs.get" /\ c.arg = h.selectedService
               /\ LastOf(next, c, "logs.get")
         /\ ~GetsLogs(h) =>
               /\ \A c \in ToSet(next) : c.op = "logs.get" => c \in ToSet(cs)
               /\ \A c \in ToSet(cs) : LastOf(cs, c, "logs.get")
                     => c \in ToSet(next) /\ LastOf(next, c, "logs.get")
<1>. DEFINE a == Logs!Call("logs.getAll", Null)
            g == Logs!Call("logs.get", h.selectedService)
            T == S \cup {a, g}
            As == IF (h.activeTab = "all") # (hooks.activeTab = "all") THEN <<a>> ELSE <<>>
            Gs == IF GetsLogs(h) THEN <<g>> ELSE <<>>
            first == cs \o As
<1>1. JustSent(a) /\ JustSent(g) /\ a.op = "logs.getAll" /\ g.op = "logs.get"
      /\ g.arg = h.selectedService
  BY DEF JustSent, Logs!Call, Logs!Pending
<1>2. Logs!Sent(h) = As \o Gs
  BY DEF Logs!Sent, Logs!AllLogsEffect, Logs!ServiceLogsEffect, GetsLogs
<1>. HIDE DEF a, g
<1>3. cs \in Seq(T) /\ a \in T /\ g \in T /\ As \in Seq(T) /\ Gs \in Seq(T)
  <2>1. S \subseteq T /\ a \in T /\ g \in T
    OBVIOUS
  <2>. HIDE DEF T
  <2>2. cs \in Seq(T)
    BY <2>1, SeqMonotonic
  <2>. QED
    BY <2>1, <2>2
<1>. HIDE DEF T
<1>4. next = first \o Gs
  <2>. HIDE DEF As, Gs
  <2>. QED
    BY <1>2, <1>3
<1>f. /\ ToSet(Append(cs, a)) = ToSet(cs) \cup {a}
      /\ \A c, op : LastOf(cs, c, op) /\ a.op # op => LastOf(Append(cs, a), c, op)
  BY LastOfAppend, Zenon
<1>5. first = cs \/ first = Append(cs, a)
  BY <1>3
<1>6. first \in Seq(T)
  <2>. HIDE DEF As
  <2>. QED
    BY <1>3
<1>. HIDE DEF first
<1>g. ToSet(Append(first, g)) = ToSet(first) \cup {g}
      /\ \A op : LastOf(Append(first, g), g, op)
  BY <1>6, LastOfAppend, Zenon
<1>8. next = IF GetsLogs(h) THEN Append(first, g) ELSE first
  BY <1>3, <1>4, <1>6
<1>9. /\ ToSet(first) \subseteq ToSet(cs) \cup {a} /\ ToSet(cs) \subseteq ToSet(first)
      /\ \A c : LastOf(cs, c, "logs.get") => LastOf(first, c, "logs.get")
  <2>1. CASE first = cs
    BY <2>1
  <2>2. CASE first = Append(cs, a)
    BY <1>1, <2>2, <1>f
  <2>. QED
    BY <1>5, <2>1, <2>2
<1>10. CASE GetsLogs(h)
  <2>1. next = Append(first, g)
    BY <1>8, <1>10
  <2>2. ToSet(next) = ToSet(first) \cup {g} /\ LastOf(next, g, "logs.get")
    BY <1>1, <2>1, <1>g
  <2>3. g.arg \in Services
    BY <1>1, <1>10 DEF GetsLogs
  <2>. QED
    BY <1>1, <1>9, <1>10, <2>2, <2>3
<1>11. CASE ~GetsLogs(h)
  BY <1>1, <1>8, <1>9, <1>11
<1>. QED
  BY <1>10, <1>11

\* Every step of the log viewer.
LEMMA LogsStepKeeps ==
  ASSUME IInv, PInv, hooks.page = "logs", Logs!Next
  PROVE  StepTyped /\ LogsInv'
<1>. USE DEF Logs!Handle, Logs!Continue
<1>0. LogsInv
  BY DEF PInv
<1>w. \A i \in DOMAIN calls : Logs!Without(i) = Without(i)
  BY DEF Logs!Without, Without
<1>t. \A i \in DOMAIN calls : Typed(calls[i], world.rev)
  BY CallSets DEF PInv, InFlight
<1>q. calls \in Seq(ToSet(calls))
  BY DEF IInv
<1>n. \A s \in Services : s # Null
  BY NullAssumption
\* The effects of a new tab or a new selection.
<1>1. ASSUME NEW h, DOMAIN h = DOMAIN hooks, h.page = hooks.page,
             h.activeTab \in {"all", "by-service", "live"},
             h.selectedService \in Services \cup {Null}, h.serviceList \in {{}, Services},
             h.allLogs = hooks.allLogs, h.serviceLogs = hooks.serviceLogs,
             h.loading = hooks.loading,
             h.selectedService = hooks.selectedService \/ h.selectedService \in Services,
             NEW cs, cs \in Seq(ToSet(cs)), ToSet(cs) \subseteq ToSet(calls),
             \A c \in ToSet(calls) : c.op = "logs.get" /\ LastOf(calls, c, "logs.get")
                => c \in ToSet(cs) /\ LastOf(cs, c, "logs.get"),
             hooks' = Logs!AfterEffects(h), calls' = cs \o Logs!Sent(h), hist' = hist,
             world' = world, events' = events \/ (events > 0 /\ events' = events - 1)
      PROVE  StepTyped /\ LogsInv'
  <2>1. /\ DOMAIN hooks' = DOMAIN hooks /\ hooks'.page = h.page
        /\ hooks'.activeTab = h.activeTab /\ hooks'.allLogs = h.allLogs
        /\ hooks'.serviceLogs = h.serviceLogs /\ hooks'.selectedService = h.selectedService
        /\ hooks'.serviceList = h.serviceList /\ hooks'.loading \in BOOLEAN
    BY <1>0, <1>1 DEF LogsInv, Logs!AfterEffects, Logs!TypeOK
  <2>2. /\ \A c \in ToSet(calls') : c \in ToSet(cs) \/ JustSent(c)
        /\ \A c \in ToSet(calls') : c.op = "logs.get" /\ c \notin ToSet(cs) => c.arg \in Services
        /\ GetsLogs(h) => \E c \in ToSet(calls') :
              /\ c.op = "logs.get" /\ c.arg = h.selectedService
              /\ LastOf(calls', c, "logs.get")
        /\ ~GetsLogs(h) =>
              /\ \A c \in ToSet(calls') : c.op = "logs.get" => c \in ToSet(cs)
              /\ \A c \in ToSet(cs) : LastOf(cs, c, "logs.get")
                    => c \in ToSet(calls') /\ LastOf(calls', c, "logs.get")
    <3>. DEFINE next == cs \o Logs!Sent(h)
                S == ToSet(cs)
    <3>1. next = cs \o Logs!Sent(h) /\ cs \in Seq(S)
      BY <1>1
    <3>2. calls' = next
      BY <1>1
    <3>. HIDE DEF next, S
    <3>. QED
      BY <1>1, <3>1, <3>2, LogsSent
  <2>3. StepTyped
    BY <1>1, <2>1, <2>2, CalmTyped
  <2>4. (Logs!TypeOK)'
    BY <1>0, <1>1, <2>1 DEF LogsInv, Logs!TypeOK
  <2>5. \A c \in ToSet(calls') : c.op = "logs.get" => c.arg \in Services
    BY <1>0, <1>1, <2>2 DEF LogsInv
  <2>6. ASSUME hooks'.selectedService = Null
        PROVE  hooks'.serviceLogs = Null /\ \A c \in ToSet(calls') : c.op # "logs.get"
    <3>1. hooks.selectedService = Null /\ ~GetsLogs(h)
      BY <1>1, <1>n, <2>1, <2>6 DEF GetsLogs
    <3>. QED
      BY <1>0, <1>1, <2>1, <2>2, <3>1 DEF LogsInv
  <2>7. ASSUME ~hist.overtaken, hooks'.activeTab = "by-service"
        PROVE  \/ LastForSelected'
               \/ /\ hooks'.serviceLogs \in {Null, hooks'.selectedService}
                  /\ \A c \in ToSet(calls') : c.op # "logs.get"
    <3>1. CASE GetsLogs(h)
      BY <2>1, <2>2, <3>1 DEF LastForSelected
    <3>2. CASE h.selectedService = Null
      BY <2>1, <2>6, <3>2
    <3>3. CASE ~GetsLogs(h) /\ h.selectedService # Null
      <4>1. hooks.activeTab = "by-service" /\ hooks.selectedService = h.selectedService
        BY <2>1, <2>7, <3>3 DEF GetsLogs
      <4>2. \/ LastForSelected
            \/ /\ hooks.serviceLogs \in {Null, hooks.selectedService}
               /\ \A c \in ToSet(calls) : c.op # "logs.get"
        BY <1>0, <2>7, <4>1 DEF LogsInv
      <4>3. CASE LastForSelected
        BY <1>1, <2>1, <2>2, <3>3, <4>1, <4>3 DEF LastForSelected
      <4>4. CASE /\ hooks.serviceLogs \in {Null, hooks.selectedService}
                 /\ \A c \in ToSet(calls) : c.op # "logs.get"
        BY <1>1, <2>1, <2>2, <3>3, <4>1, <4>4
      <4>. QED
        BY <4>2, <4>3, <4>4
    <3>. QED
      BY <3>1, <3>2, <3>3
  <2>. QED
    BY <1>0, <1>1, <2>1, <2>3, <2>4, <2>5, <2>6, <2>7 DEF LogsInv
<1>2. ASSUME NEW t \in {"all", "by-service", "live"}, Logs!SelectTab(t)
      PROVE  StepTyped /\ LogsInv'
  <2>. DEFINE h == [hooks EXCEPT !.activeTab = t]
  <2>1. hooks' = Logs!AfterEffects(h) /\ calls' = calls \o Logs!Sent(h) /\ UNCHANGED <<hist, world>>
        /\ events > 0 /\ events' = events - 1
    BY <1>2 DEF Logs!SelectTab
  <2>2. /\ DOMAIN h = DOMAIN hooks /\ h.page = hooks.page /\ h.activeTab = t
        /\ h.selectedService = hooks.selectedService /\ h.serviceList = hooks.serviceList
        /\ h.allLogs = hooks.allLogs /\ h.serviceLogs = hooks.serviceLogs /\ h.loading = hooks.loading
    BY <1>0 DEF LogsInv
  <2>. HIDE DEF h
  <2>. QED
    BY <1>0, <1>1, <1>q, <2>1, <2>2 DEF LogsInv, Logs!TypeOK
<1>3. ASSUME NEW s \in Services, Logs!SelectService(s)
      PROVE  StepTyped /\ LogsInv'
  <2>. DEFINE h == [hooks EXCEPT !.selectedService = s]
  <2>1. hooks' = Logs!AfterEffects(h) /\ calls' = calls \o Logs!Sent(h) /\ UNCHANGED <<hist, world>>
        /\ events > 0 /\ events' = events - 1
    BY <1>3 DEF Logs!SelectService
  <2>2. /\ DOMAIN h = DOMAIN hooks /\ h.page = hooks.page /\ h.activeTab = hooks.activeTab
        /\ h.selectedService = s /\ h.serviceList = hooks.serviceList
        /\ h.allLogs = hooks.allLogs /\ h.serviceLogs = hooks.serviceLogs /\ h.loading = hooks.loading
    BY <1>0 DEF LogsInv
  <2>. HIDE DEF h
  <2>. QED
    BY <1>0, <1>1, <1>q, <2>1, <2>2 DEF LogsInv, Logs!TypeOK
\* A call for something else than the logs of a service is over.
<1>4. ASSUME NEW i \in DOMAIN calls, calls[i].op # "logs.get"
      PROVE  /\ Without(i) \in Seq(ToSet(Without(i))) /\ ToSet(Without(i)) \subseteq ToSet(calls)
             /\ \A c \in ToSet(calls) : c.op = "logs.get" /\ LastOf(calls, c, "logs.get")
                   => c \in ToSet(Without(i)) /\ LastOf(Without(i), c, "logs.get")
  <2>1. ToSet(Without(i)) \subseteq ToSet(calls) /\ ToSet(calls) \subseteq ToSet(Without(i)) \cup {calls[i]}
    BY CallSets
  <2>2. Without(i) = RemoveAt(calls, i)
    BY DEF Without, RemoveAt
  <2>3. RemoveAt(calls, i) \in Seq(ToSet(calls))
    BY <1>q, RemoveAtType
  <2>4. Without(i) \in Seq(ToSet(Without(i)))
    BY <2>2, <2>3, OverItself
  <2>. QED
    BY <1>4, <2>1, <2>4, LastOfWithout
<1>5. ASSUME NEW i \in DOMAIN calls, calls[i].op # "logs.get", calls' = Without(i),
             UNCHANGED <<hist, world, events>>, NEW a \in [rev : Nat] \cup {Null}, NEW l \in BOOLEAN,
             DOMAIN hooks' = DOMAIN hooks, hooks'.page = hooks.page,
             hooks'.activeTab = hooks.activeTab, hooks'.selectedService = hooks.selectedService,
             hooks'.serviceList = hooks.serviceList, hooks'.serviceLogs = hooks.serviceLogs,
             hooks'.allLogs = a, hooks'.loading = l
      PROVE  StepTyped /\ LogsInv'
  <2>1. StepTyped
    BY <1>4, <1>5, CalmTyped
  <2>2. (Logs!TypeOK)'
    BY <1>0, <1>5 DEF LogsInv, Logs!TypeOK
  <2>3. LastForSelected => LastForSelected'
    BY <1>4, <1>5 DEF LastForSelected
  <2>. QED
    BY <1>0, <1>4, <1>5, <2>1, <2>2, <2>3 DEF LogsInv
<1>6. ASSUME NEW i \in DOMAIN calls, Logs!AllLogsRead(i)
      PROVE  StepTyped /\ LogsInv'
  <2>. DEFINE a == IF Logs!IsFulfilled(i) THEN Logs!Value(i) ELSE Null
  <2>1. /\ hooks' = [hooks EXCEPT !.allLogs = a, !.loading = FALSE] /\ calls' = Without(i)
        /\ UNCHANGED <<hist, world, events>> /\ calls[i].op = "logs.getAll"
    BY <1>6, <1>w DEF Logs!AllLogsRead
  <2>2. a \in [rev : Nat] \cup {Null}
    BY <1>t, <2>1 DEF Logs!IsFulfilled, Logs!Value, Typed, TypedValue, PlainReads
  <2>. HIDE DEF a
  <2>3. /\ DOMAIN hooks' = DOMAIN hooks /\ hooks'.page = hooks.page
        /\ hooks'.activeTab = hooks.activeTab /\ hooks'.selectedService = hooks.selectedService
        /\ hooks'.serviceList = hooks.serviceList /\ hooks'.serviceLogs = hooks.serviceLogs
        /\ hooks'.allLogs = a /\ hooks'.loading = FALSE
    BY <1>0, <2>1 DEF LogsInv
  <2>. QED
    BY <1>5, <2>1, <2>2, <2>3
<1>7. ASSUME NEW i \in DOMAIN calls, Logs!ServicesListed(i)
      PROVE  StepTyped /\ LogsInv'
  <2>. DEFINE h == [hooks EXCEPT !.serviceList = Services, !.selectedService = Logs!FirstService]
  <2>1. CASE ~Logs!IsFulfilled(i)
    <3>1. UNCHANGED <<hooks, hist, world, events>> /\ calls' = Without(i) /\ calls[i].op = "services.list"
      BY <1>7, <1>w, <2>1 DEF Logs!ServicesListed
    <3>. QED
      BY <1>0, <1>5, <3>1 DEF LogsInv, Logs!TypeOK
  <2>2. CASE Logs!IsFulfilled(i)
    <3>1. /\ hooks' = Logs!AfterEffects(h) /\ calls' = Without(i) \o Logs!Sent(h)
          /\ UNCHANGED <<hist, world, events>> /\ calls[i].op = "services.list"
      BY <1>7, <1>w, <2>2 DEF Logs!ServicesListed
    <3>2. Logs!FirstService \in Services
      BY ListsAssumption DEF Logs!FirstService
    <3>3. /\ DOMAIN h = DOMAIN hooks /\ h.page = hooks.page /\ h.activeTab = hooks.activeTab
          /\ h.selectedService = Logs!FirstService /\ h.serviceList = Services
          /\ h.allLogs = hooks.allLogs /\ h.serviceLogs = hooks.serviceLogs /\ h.loading = hooks.loading
      BY <1>0 DEF LogsInv
    <3>. HIDE DEF h
    <3>4. hooks.activeTab \in {"all", "by-service", "live"}
      BY <1>0 DEF LogsInv, Logs!TypeOK
    <3>. QED
      BY <1>1, <1>4, <3>1, <3>2, <3>3, <3>4
  <2>. QED
    BY <2>1, <2>2
<1>8. ASSUME NEW i \in DOMAIN calls, Logs!ServiceLogsRead(i)
      PROVE  StepTyped /\ LogsInv'
  <2>. DEFINE v == IF Logs!IsFulfilled(i) THEN Logs!Value(i) ELSE Null
  <2>1. /\ hooks' = [hooks EXCEPT !.serviceLogs = v, !.loading = FALSE] /\ calls' = Without(i)
        /\ hist' = [overtaken |-> hist.overtaken \/ Logs!Overtakes(i)]
        /\ UNCHANGED <<world, events>> /\ calls[i].op = "logs.get"
    BY <1>8, <1>w DEF Logs!ServiceLogsRead
  <2>2. v \in {Null, calls[i].arg}
    BY <1>t, <2>1 DEF Logs!IsFulfilled, Logs!Value, Typed, TypedValue
  <2>. HIDE DEF v
  <2>3. /\ DOMAIN hooks' = DOMAIN hooks /\ hooks'.page = hooks.page
        /\ hooks'.activeTab = hooks.activeTab /\ hooks'.selectedService = hooks.selectedService
        /\ hooks'.serviceList = hooks.serviceList /\ hooks'.serviceLogs = v
        /\ hooks'.allLogs = hooks.allLogs /\ hooks'.loading = FALSE
    BY <1>0, <2>1 DEF LogsInv
  <2>4. calls[i] \in ToSet(calls) /\ ToSet(calls') \subseteq ToSet(calls)
    BY <2>1, CallSets
  <2>5. calls[i].arg \in Services /\ hooks.selectedService # Null
    BY <1>0, <2>1, <2>4 DEF LogsInv
  <2>6. hist.overtaken \in BOOLEAN /\ Logs!Overtakes(i) \in BOOLEAN
    BY <1>0 DEF LogsInv, Logs!TypeOK, Logs!Overtakes
  <2>7. (Logs!TypeOK)'
    BY <1>0, <2>1, <2>2, <2>3, <2>5, <2>6 DEF LogsInv, Logs!TypeOK
  <2>8. StepTyped
    BY <2>1, <2>3, <2>4, CalmTyped
  <2>9. ASSUME ~hist'.overtaken, hooks'.activeTab = "by-service"
        PROVE  \/ LastForSelected'
               \/ /\ hooks'.serviceLogs \in {Null, hooks'.selectedService}
                  /\ \A c \in ToSet(calls') : c.op # "logs.get"
    <3>1. ~hist.overtaken /\ ~Logs!Overtakes(i)
      BY <2>1, <2>9
    <3>2. LastForSelected
      BY <1>0, <2>1, <2>3, <2>4, <2>9, <3>1 DEF LogsInv
    <3>3. PICK c \in ToSet(calls) :
             c.op = "logs.get" /\ c.arg = hooks.selectedService /\ LastOf(calls, c, "logs.get")
      BY <3>2 DEF LastForSelected
    <3>4. CASE LastOf(Without(i), c, "logs.get")
      <4>1. c \in ToSet(calls')
        BY <2>1, <3>4 DEF LastOf, ToSet
      <4>. QED
        BY <2>1, <2>3, <3>3, <3>4, <4>1 DEF LastForSelected
    <3>5. CASE calls[i] = c /\ \A j \in DOMAIN calls : j > i => calls[j].op # "logs.get"
      <4>1. \A j \in DOMAIN calls : j # i => calls[j].op # "logs.get"
        <5>1. Len(calls) \in Nat /\ DOMAIN calls = 1 .. Len(calls)
          BY Positions
        <5>2. \A j \in 1 .. i - 1 : calls[j].op # "logs.get"
          BY <3>1 DEF Logs!Overtakes
        <5>. QED
          BY <3>5, <5>1, <5>2
      <4>2. \A d \in ToSet(calls') : d.op # "logs.get"
        BY <2>1, <4>1, NoneWithout
      <4>. QED
        BY <2>2, <2>3, <3>3, <3>5, <4>2
    <3>. QED
      BY <3>3, <3>4, <3>5, LastOfWithout
  <2>. QED
    BY <1>0, <2>3, <2>4, <2>5, <2>7, <2>8, <2>9 DEF LogsInv
<1>. QED
  BY <1>2, <1>3, <1>6, <1>7, <1>8 DEF Logs!Next, Logs!Clicks, Logs!Continuations

-----------------------------------------------------------------------------
\* The load stays in front when a call for a service is sent, and when one is
\* over; without the load, every call is for a service.
LEMMA LoadsAppend ==
  ASSUME NEW S, NEW cs \in Seq(S), NEW d, d.arg \in Services, LoadsFirst(cs)
  PROVE  LoadsFirst(Append(cs, d))
<1>1. cs \in Seq(S \cup {d})
  BY SeqMonotonic
<1>2. ToSet(Append(cs, d)) = ToSet(cs) \cup {d} /\ Append(cs, d) \in Seq(S \cup {d})
  BY LastOfAppend, Zenon
<1>3. /\ Len(cs) \in Nat /\ Len(Append(cs, d)) = Len(cs) + 1
      /\ \A j \in 1 .. Len(cs) : Append(cs, d)[j] = cs[j]
      /\ Append(cs, d)[Len(cs) + 1] = d
  BY <1>1, AppendProperties, LenProperties
<1>. DEFINE t == Append(cs, d)
<1>. HIDE DEF t
<1>4. CASE LoadLeads(cs)
  <2>1. Len(t) >= 2 /\ t[1] = cs[1] /\ t[2] = cs[2]
    BY <1>3, <1>4 DEF LoadLeads, t
  <2>2. ASSUME NEW j \in 3 .. Len(t)
        PROVE  t[j].arg \in Services
    <3>1. CASE j \in 1 .. Len(cs)
      BY <1>3, <1>4, <3>1 DEF LoadLeads, t
    <3>2. CASE j \notin 1 .. Len(cs)
      <4>1. j = Len(cs) + 1
        BY <1>3, <3>2 DEF t
      <4>. QED
        BY <1>3, <4>1 DEF t
    <3>. QED
      BY <3>1, <3>2
  <2>. QED
    BY <1>4, <2>1, <2>2 DEF LoadsFirst, LoadLeads, t
<1>. QED
  BY <1>2, <1>4 DEF LoadsFirst, t

LEMMA LoadsWithout ==
  ASSUME IInv, NEW i \in DOMAIN calls, calls[i].arg \in Services, LoadsFirst(calls)
  PROVE  LoadsFirst(Without(i))
<1>. DEFINE t == Without(i)
<1>1. /\ Len(calls) \in Nat /\ DOMAIN calls = 1 .. Len(calls)
      /\ Len(t) = Len(calls) - 1 /\ DOMAIN t = 1 .. Len(calls) - 1
      /\ \A j \in 1 .. Len(calls) - 1 : t[j] = calls[IF j < i THEN j ELSE j + 1]
  BY Positions
<1>2. ToSet(t) \subseteq ToSet(calls)
  BY CallSets
<1>. HIDE DEF t
<1>3. CASE LoadLeads(calls)
  <2>1. i \in 3 .. Len(calls)
    <3>1. \A s \in Services : s # Null
      BY NullAssumption
    <3>2. i # 1 /\ i # 2
      BY <1>3, <3>1 DEF LoadLeads
    <3>. QED
      BY <1>1, <3>2
  <2>2. Len(t) >= 2 /\ t[1] = calls[1] /\ t[2] = calls[2]
    BY <1>1, <2>1
  <2>3. ASSUME NEW j \in 3 .. Len(t)
        PROVE  t[j].arg \in Services
    <3>. DEFINE n == IF j < i THEN j ELSE j + 1
    <3>1. n \in 3 .. Len(calls) /\ t[j] = calls[n]
      BY <1>1
    <3>. QED
      BY <1>3, <3>1 DEF LoadLeads
  <2>. QED
    BY <1>3, <2>2, <2>3 DEF LoadsFirst, LoadLeads, t
<1>. QED
  BY <1>2, <1>3 DEF LoadsFirst, t

LEMMA LoadsTail ==
  ASSUME IInv, LoadLeads(calls)
  PROVE  /\ Dashboard!LoadCalls = {1, 2} /\ 1 \in DOMAIN calls /\ 2 \in DOMAIN calls
         /\ ToSet(Dashboard!AfterLoad) = {calls[i] : i \in 3 .. Len(calls)}
<1>1. calls \in Seq(ToSet(calls))
  BY DEF IInv
<1>2. Len(calls) \in Nat /\ DOMAIN calls = 1 .. Len(calls) /\ Len(calls) >= 2
  BY <1>1, LenProperties DEF LoadLeads
<1>3. \A s \in Services : s # Null
  BY NullAssumption
<1>4. \A i \in DOMAIN calls : calls[i].arg = Null <=> i \in {1, 2}
  <2>1. \A i \in DOMAIN calls : i \in {1, 2} \/ i \in 3 .. Len(calls)
    BY <1>2
  <2>. QED
    BY <1>3, <2>1 DEF LoadLeads
<1>5. Dashboard!LoadCalls = {1, 2}
  BY <1>2, <1>4 DEF Dashboard!LoadCalls
<1>. DEFINE t == Dashboard!AfterLoad
<1>6. DOMAIN t = 1 .. Len(calls) - 2 /\ \A j \in 1 .. Len(calls) - 2 : t[j] = calls[j + 2]
  BY <1>1, <1>2 DEF Dashboard!AfterLoad
<1>. HIDE DEF t
<1>7. ASSUME NEW i \in 3 .. Len(calls)
      PROVE  calls[i] \in ToSet(t)
  <2>1. i - 2 \in DOMAIN t /\ t[i - 2] = calls[i]
    BY <1>2, <1>6
  <2>. QED
    BY <2>1 DEF ToSet
<1>8. ASSUME NEW c \in ToSet(t)
      PROVE  c \in {calls[i] : i \in 3 .. Len(calls)}
  <2>1. PICK j \in DOMAIN t : c = t[j]
    BY DEF ToSet
  <2>2. j + 2 \in 3 .. Len(calls) /\ c = calls[j + 2]
    BY <1>2, <1>6, <2>1
  <2>. QED
    BY <2>2
<1>. QED
  BY <1>2, <1>5, <1>7, <1>8 DEF t

\* Every step of the dashboard.
LEMMA DashboardStepKeeps ==
  ASSUME IInv, PInv, hooks.page = "dashboard", Dashboard!Next
  PROVE  StepTyped /\ DashboardInv'
<1>. USE DEF Dashboard!Handle, Dashboard!Continue
<1>0. DashboardInv /\ events \in Nat /\ WorldOK /\ world.rev \in Nat
  BY DEF PInv, WorldOK
<1>w. \A i \in DOMAIN calls : Dashboard!Without(i) = Without(i)
  BY DEF Dashboard!Without, Without
<1>t. \A i \in DOMAIN calls : Typed(calls[i], world.rev)
  BY CallSets DEF PInv, InFlight
<1>q. calls \in Seq(ToSet(calls))
  BY DEF IInv
<1>n. (\A s \in Services : s # Null) /\ \A v \in [rev : Nat] : v # Null
  BY NullAssumption
<1>h. hist.acked \in Nat /\ hist.seen \in Nat /\ hist.disturbed \in BOOLEAN
      /\ hist \in [acked : Nat, seen : Nat, disturbed : BOOLEAN]
  BY <1>0 DEF DashboardInv, Dashboard!TypeOK, Dashboard!HistoryOK
\* A click.
<1>1. ASSUME UNCHANGED <<hist, world>>, events > 0, events' = events - 1,
             NEW m \in Services \cup {Null}, NEW o \in Services \cup {Null},
             NEW t \in {"overview", "metrics"},
             DOMAIN hooks' = DOMAIN hooks, hooks'.page = hooks.page, hooks'.loading = hooks.loading,
             hooks'.servicesList = hooks.servicesList, hooks'.versionInfos = hooks.versionInfos,
             hooks'.activeTab = t, hooks'.restarting = m, hooks'.actionOpen = o,
             \/ calls' = calls /\ m = hooks.restarting
             \/ m \in Services /\ calls' = Append(calls, Dashboard!Call("services.restart", m))
      PROVE  StepTyped /\ DashboardInv'
  <2>. DEFINE d == Dashboard!Call("services.restart", m)
  <2>1. JustSent(d) /\ d.op = "services.restart" /\ d.arg = m
    BY DEF JustSent, Dashboard!Call, Dashboard!Pending
  <2>. HIDE DEF d
  <2>2. \/ calls' = calls /\ m = hooks.restarting
        \/ m \in Services /\ calls' = Append(calls, d)
    BY <1>1 DEF d
  <2>3. ToSet(Append(calls, d)) = ToSet(calls) \cup {d}
    BY CallSets
  <2>4. ToSet(calls) \subseteq ToSet(calls') /\ \A c \in ToSet(calls') : c \in ToSet(calls) \/ c = d
    BY <2>2, <2>3
  <2>5. StepTyped
    BY <1>1, <2>1, <2>4, CalmTyped
  <2>6. LoadsFirst(calls')
    <3>1. CASE calls' = calls
      BY <1>0, <3>1 DEF DashboardInv
    <3>2. CASE m \in Services /\ calls' = Append(calls, d)
      BY <1>0, <1>q, <2>1, <3>2, LoadsAppend DEF DashboardInv
    <3>. QED
      BY <2>2, <3>1, <3>2
  <2>7. (Dashboard!TypeOK)'
    BY <1>0, <1>1 DEF DashboardInv, Dashboard!TypeOK, Dashboard!HistoryOK
  <2>8. hooks'.restarting # Null => \E c \in ToSet(calls') : c.arg = hooks'.restarting
    <3>1. CASE calls' = calls /\ m = hooks.restarting
      BY <1>0, <1>1, <3>1 DEF DashboardInv
    <3>2. CASE calls' = Append(calls, d)
      BY <1>1, <2>1, <2>3, <3>2
    <3>. QED
      BY <2>2, <3>1, <3>2
  <2>9. (~hist.disturbed => Due("services.list", hist.acked) \/ UpToDate(hooks.servicesList, hist.acked))'
    BY <1>0, <1>1, <2>4, StaysDue DEF DashboardInv, Due, UpToDate
  <2>10. \A c \in ToSet(calls') : c.op \in {"services.list", "versions.list", "services.restart"}
    BY <1>0, <2>1, <2>4 DEF DashboardInv
  <2>. QED
    BY <1>0, <1>1, <2>5, <2>6, <2>7, <2>8, <2>9, <2>10 DEF DashboardInv
<1>2. ASSUME NEW s \in Services, Dashboard!ToggleMenu(s) \/ Dashboard!handleRestart(s)
      PROVE  StepTyped /\ DashboardInv'
  <2>0. hooks.restarting \in Services \cup {Null} /\ hooks.actionOpen \in Services \cup {Null}
        /\ hooks.activeTab \in {"overview", "metrics"}
    BY <1>0 DEF DashboardInv, Dashboard!TypeOK
  <2>1. CASE Dashboard!ToggleMenu(s)
    <3>. DEFINE o == IF hooks.actionOpen = s THEN Null ELSE s
    <3>1. /\ UNCHANGED <<hist, world, calls>> /\ events > 0 /\ events' = events - 1
          /\ hooks' = [hooks EXCEPT !.actionOpen = o] /\ o \in Services \cup {Null}
      BY <2>1 DEF Dashboard!ToggleMenu
    <3>. HIDE DEF o
    <3>2. /\ DOMAIN hooks' = DOMAIN hooks /\ hooks'.page = hooks.page /\ hooks'.loading = hooks.loading
          /\ hooks'.servicesList = hooks.servicesList /\ hooks'.versionInfos = hooks.versionInfos
          /\ hooks'.activeTab = hooks.activeTab /\ hooks'.restarting = hooks.restarting
          /\ hooks'.actionOpen = o
      BY <1>0, <3>1 DEF DashboardInv
    <3>. QED
      BY <1>1, <2>0, <3>1, <3>2
  <2>2. CASE Dashboard!handleRestart(s)
    <3>1. /\ UNCHANGED <<hist, world>> /\ events > 0 /\ events' = events - 1
          /\ hooks' = [hooks EXCEPT !.restarting = s, !.actionOpen = Null]
          /\ calls' = Append(calls, Dashboard!Call("services.restart", s))
      BY <2>2 DEF Dashboard!handleRestart
    <3>2. /\ DOMAIN hooks' = DOMAIN hooks /\ hooks'.page = hooks.page /\ hooks'.loading = hooks.loading
          /\ hooks'.servicesList = hooks.servicesList /\ hooks'.versionInfos = hooks.versionInfos
          /\ hooks'.activeTab = hooks.activeTab /\ hooks'.restarting = s
          /\ hooks'.actionOpen = Null
      BY <1>0, <3>1 DEF DashboardInv
    <3>. QED
      BY <1>1, <2>0, <3>1, <3>2
  <2>. QED
    BY <1>2, <2>1, <2>2
<1>3. ASSUME NEW t \in {"overview", "metrics"}, Dashboard!SelectTab(t)
      PROVE  StepTyped /\ DashboardInv'
  <2>0. hooks.restarting \in Services \cup {Null} /\ hooks.actionOpen \in Services \cup {Null}
    BY <1>0 DEF DashboardInv, Dashboard!TypeOK
  <2>1. /\ UNCHANGED <<hist, world, calls>> /\ events > 0 /\ events' = events - 1
        /\ hooks' = [hooks EXCEPT !.activeTab = t]
    BY <1>3 DEF Dashboard!SelectTab
  <2>2. /\ DOMAIN hooks' = DOMAIN hooks /\ hooks'.page = hooks.page /\ hooks'.loading = hooks.loading
        /\ hooks'.servicesList = hooks.servicesList /\ hooks'.versionInfos = hooks.versionInfos
        /\ hooks'.activeTab = t /\ hooks'.restarting = hooks.restarting
        /\ hooks'.actionOpen = hooks.actionOpen
    BY <1>0, <2>1 DEF DashboardInv
  <2>. QED
    BY <1>1, <2>0, <2>1, <2>2
<1>4. CASE Dashboard!Others
  <2>1. /\ world' = [world EXCEPT !.rev = @ + 1] /\ UNCHANGED <<hooks, calls, hist>>
        /\ events > 0 /\ events' = events - 1
    BY <1>4 DEF Dashboard!Others, Dashboard!OthersChange
  <2>2. StepTyped
    BY <1>0, <2>1, OthersTyped DEF WorldOK
  <2>. QED
    BY <1>0, <1>h, <2>1, <2>2
       DEF DashboardInv, StepTyped, Dashboard!TypeOK, Dashboard!HistoryOK, Due, UpToDate
\* The load is over.
<1>5. ASSUME LoadLeads(calls), calls' = Dashboard!AfterLoad, hooks'.restarting = hooks.restarting
      PROVE  /\ \A c \in ToSet(calls') : c \in ToSet(calls) /\ c.arg \in Services
             /\ hooks'.restarting # Null => \E c \in ToSet(calls') : c.arg = hooks'.restarting
             /\ \A n : Due("services.list", n) =>
                   \/ \E c \in ToSet(calls') :
                         c.op = "services.list" /\ (c.answer.state = "fulfilled" => c.answer.value.rev >= n)
                   \/ calls[1].answer.state = "fulfilled" => calls[1].answer.value.rev >= n
  <2>1. ToSet(calls') = {calls[i] : i \in 3 .. Len(calls)}
    BY <1>5, LoadsTail
  <2>2. Len(calls) \in Nat /\ DOMAIN calls = 1 .. Len(calls)
    BY <1>q, LenProperties
  <2>3. \A i \in 3 .. Len(calls) : calls[i] \in ToSet(calls) /\ calls[i].arg \in Services
    BY <1>5, <2>2, CallSets DEF LoadLeads
  <2>4. \A c \in ToSet(calls) : c \in {calls[1], calls[2]} \/ c \in ToSet(calls')
    <3>1. \A i \in DOMAIN calls : i = 1 \/ i = 2 \/ i \in 3 .. Len(calls)
      BY <2>2
    <3>. QED
      BY <2>1, <3>1 DEF ToSet
  <2>5. hooks.restarting # Null =>
           hooks.restarting \in Services /\ \E c \in ToSet(calls) : c.arg = hooks.restarting
    BY <1>0 DEF DashboardInv, Dashboard!TypeOK
  <2>6. calls[1].arg = Null /\ calls[2].arg = Null /\ calls[2].op = "versions.list"
    BY <1>5 DEF LoadLeads
  <2>. QED
    BY <1>5, <1>n, <2>1, <2>3, <2>4, <2>5, <2>6 DEF Due
<1>6. ASSUME Dashboard!LoadFailed \/ Dashboard!Loaded
      PROVE  LoadLeads(calls) /\ calls' = Dashboard!AfterLoad
  <2>1. \E i \in DOMAIN calls : calls[i].arg = Null
    BY <1>6 DEF Dashboard!LoadFailed, Dashboard!Loaded, Dashboard!LoadCalls
  <2>2. \E c \in ToSet(calls) : c.arg \notin Services
    BY <1>n, <2>1, CallSets
  <2>3. LoadLeads(calls)
    BY <1>0, <2>2 DEF DashboardInv, LoadsFirst
  <2>. QED
    BY <1>6, <2>3 DEF Dashboard!LoadFailed, Dashboard!Loaded
<1>7. CASE Dashboard!LoadFailed
  <2>1. /\ hooks' = [hooks EXCEPT !.loading = FALSE] /\ calls' = Dashboard!AfterLoad
        /\ hist' = [hist EXCEPT !.disturbed = TRUE] /\ UNCHANGED <<world, events>>
    BY <1>7 DEF Dashboard!LoadFailed, Dashboard!Disturbed
  <2>2. DOMAIN hooks' = DOMAIN hooks /\ hooks'.page = hooks.page /\ (Dashboard!TypeOK)'
        /\ hooks'.restarting = hooks.restarting /\ hist'.disturbed /\ hist'.acked = hist.acked
    BY <1>0, <1>h, <2>1 DEF DashboardInv, Dashboard!TypeOK, Dashboard!HistoryOK
  <2>3. /\ \A c \in ToSet(calls') : c \in ToSet(calls) /\ c.arg \in Services
        /\ hooks'.restarting # Null => \E c \in ToSet(calls') : c.arg = hooks'.restarting
    BY <1>5, <1>6, <1>7, <2>2
  <2>4. StepTyped
    BY <2>1, <2>2, <2>3, CalmTyped
  <2>. QED
    BY <1>0, <2>1, <2>2, <2>3, <2>4 DEF DashboardInv, LoadsFirst
<1>8. CASE Dashboard!Loaded
  <2>. DEFINE v == calls[1].answer.value
              u == calls[2].answer.value
  <2>1. Dashboard!LoadCalls = {1, 2} /\ 1 \in DOMAIN calls /\ 2 \in DOMAIN calls /\ LoadLeads(calls)
    BY <1>6, <1>8, LoadsTail
  <2>2. /\ hooks' = [hooks EXCEPT !.servicesList = v, !.versionInfos = u, !.loading = FALSE]
        /\ calls' = Dashboard!AfterLoad
        /\ hist' = [hist EXCEPT !.seen = IF v.rev > @ THEN v.rev ELSE @,
                                !.disturbed = @ \/ v.rev < hist.seen]
        /\ UNCHANGED <<world, events>>
        /\ calls[1].answer.state = "fulfilled" /\ calls[2].answer.state = "fulfilled"
    <3>1. PICK p, q \in {1, 2} :
             /\ calls[p].op = "services.list" /\ calls[q].op = "versions.list"
             /\ hooks' = [hooks EXCEPT !.servicesList = Dashboard!Value(p),
                                       !.versionInfos = Dashboard!Value(q), !.loading = FALSE]
             /\ calls' = Dashboard!AfterLoad /\ hist' = Dashboard!Seen(Dashboard!Value(p).rev)
             /\ UNCHANGED <<world, events>>
      BY <1>8, <2>1 DEF Dashboard!Loaded
    <3>2. p = 1 /\ q = 2
      BY <2>1, <3>1 DEF LoadLeads
    <3>3. Dashboard!IsFulfilled(1) /\ Dashboard!IsFulfilled(2)
      BY <1>8, <2>1 DEF Dashboard!Loaded
    <3>. QED
      BY <3>1, <3>2, <3>3 DEF Dashboard!Value, Dashboard!Seen, Dashboard!IsFulfilled
  <2>3. v \in [rev : 0 .. world.rev] /\ u \in [rev : 0 .. world.rev]
    BY <1>t, <2>1, <2>2 DEF LoadLeads, Typed, TypedValue, PlainReads
  <2>. HIDE DEF v, u
  <2>4. /\ DOMAIN hooks' = DOMAIN hooks /\ hooks'.page = hooks.page
        /\ hooks'.servicesList = v /\ hooks'.versionInfos = u /\ hooks'.loading = FALSE
        /\ hooks'.activeTab = hooks.activeTab /\ hooks'.restarting = hooks.restarting
        /\ hooks'.actionOpen = hooks.actionOpen
    BY <1>0, <2>2 DEF DashboardInv
  <2>5. v \in [rev : Nat] /\ u \in [rev : Nat] /\ v.rev \in Nat /\ v # Null
    BY <1>0, <1>n, <2>3
  <2>6. /\ hist' \in [acked : Nat, seen : Nat, disturbed : BOOLEAN]
        /\ hist'.acked = hist.acked
        /\ hist'.seen = (IF v.rev > hist.seen THEN v.rev ELSE hist.seen)
        /\ hist'.disturbed = (hist.disturbed \/ v.rev < hist.seen)
    BY <1>h, <2>2, <2>5
  <2>7. (Dashboard!TypeOK)'
    BY <1>0, <2>4, <2>5, <2>6 DEF DashboardInv, Dashboard!TypeOK, Dashboard!HistoryOK
  <2>8. /\ \A c \in ToSet(calls') : c \in ToSet(calls) /\ c.arg \in Services
        /\ hooks'.restarting # Null => \E c \in ToSet(calls') : c.arg = hooks'.restarting
        /\ \A n : Due("services.list", n) =>
              \/ \E c \in ToSet(calls') :
                    c.op = "services.list" /\ (c.answer.state = "fulfilled" => c.answer.value.rev >= n)
              \/ v.rev >= n
    BY <1>5, <2>1, <2>2, <2>4 DEF v
  <2>9. StepTyped
    BY <2>2, <2>4, <2>8, CalmTyped
  <2>10. ASSUME ~hist'.disturbed
         PROVE  (Due("services.list", hist.acked) \/ UpToDate(hooks.servicesList, hist.acked))'
    <3>1. ~hist.disturbed /\ ~ (v.rev < hist.seen)
      BY <2>6, <2>10
    <3>2. hist'.seen = v.rev /\ v.rev >= hist.seen
      BY <1>h, <2>5, <2>6, <3>1
    <3>3. CASE Due("services.list", hist.acked)
      <4>1. \/ \E c \in ToSet(calls') : c.op = "services.list"
                  /\ (c.answer.state = "fulfilled" => c.answer.value.rev >= hist.acked)
            \/ v.rev >= hist.acked
        BY <2>8, <3>3
      <4>. QED
        BY <2>4, <2>5, <2>6, <3>2, <4>1 DEF Due, UpToDate
    <3>4. CASE UpToDate(hooks.servicesList, hist.acked)
      <4>1. v.rev >= hist.acked
        BY <1>h, <2>5, <3>2, <3>4 DEF UpToDate
      <4>. QED
        BY <2>4, <2>5, <2>6, <3>2, <4>1 DEF UpToDate
    <3>. QED
      BY <1>0, <3>1, <3>3, <3>4 DEF DashboardInv
  <2>. QED
    BY <1>0, <2>2, <2>4, <2>6, <2>7, <2>8, <2>9, <2>10 DEF DashboardInv, LoadsFirst
\* The end of a restart clears the mark.
<1>9. ASSUME hooks' = Dashboard!RestartOver
      PROVE  /\ DOMAIN hooks' = DOMAIN hooks /\ hooks'.page = hooks.page
             /\ hooks'.servicesList = hooks.servicesList /\ hooks'.versionInfos = hooks.versionInfos
             /\ hooks'.loading = hooks.loading /\ hooks'.activeTab = hooks.activeTab
             /\ hooks'.restarting = Null /\ hooks'.actionOpen = hooks.actionOpen
  BY <1>0, <1>9 DEF DashboardInv, Dashboard!RestartOver
\* A restart is only of a service.
<1>10. ASSUME NEW i \in DOMAIN calls, calls[i].op = "services.restart" \/ calls[i].arg # Null
       PROVE  calls[i].arg \in Services
  <2>1. Len(calls) \in Nat /\ DOMAIN calls = 1 .. Len(calls) /\ calls[i] \in ToSet(calls)
    BY <1>q, LenProperties, CallSets
  <2>2. i = 1 \/ i = 2 \/ i \in 3 .. Len(calls)
    BY <2>1
  <2>3. LoadsFirst(calls)
    BY <1>0 DEF DashboardInv
  <2>. QED
    BY <1>10, <2>1, <2>2, <2>3 DEF LoadsFirst, LoadLeads
<1>11. ASSUME NEW i \in DOMAIN calls, Dashboard!Restarted(i)
       PROVE  StepTyped /\ DashboardInv'
  <2>. DEFINE v == calls[i].answer.value
  <2>1. calls[i].op = "services.restart" /\ UNCHANGED <<world, events>> /\ calls[i].arg \in Services
    BY <1>10, <1>11 DEF Dashboard!Restarted
  <2>2. LoadsFirst(Without(i)) /\ Without(i) \in Seq(ToSet(calls))
    <3>1. Without(i) = RemoveAt(calls, i)
      BY DEF Without, RemoveAt
    <3>2. RemoveAt(calls, i) \in Seq(ToSet(calls))
      BY <1>q, RemoveAtType
    <3>. QED
      BY <1>0, <2>1, <3>1, <3>2, LoadsWithout DEF DashboardInv
  <2>3. ToSet(Without(i)) \subseteq ToSet(calls) /\ ToSet(calls) \subseteq ToSet(Without(i)) \cup {calls[i]}
    BY CallSets
  <2>4. CASE Dashboard!IsFulfilled(i)
    <3>. DEFINE d == Dashboard!Call("services.list", calls[i].arg)
    <3>1. /\ hooks' = hooks /\ calls' = Append(Without(i), d)
          /\ hist' = [hist EXCEPT !.acked = IF v.rev > @ THEN v.rev ELSE @]
      BY <1>11, <1>w, <2>4 DEF Dashboard!Restarted, Dashboard!Value, Dashboard!Acked
    <3>2. JustSent(d) /\ d.op = "services.list" /\ d.arg = calls[i].arg
      BY DEF JustSent, Dashboard!Call, Dashboard!Pending
    <3>3. v.rev \in 0 .. world.rev
      <4>1. calls[i].op \in Changing
        BY <2>1 DEF Changing
      <4>. QED
        BY <1>t, <2>4, <4>1 DEF Dashboard!IsFulfilled, Typed, TypedValue
    <3>. HIDE DEF v, d
    <3>4. ToSet(calls') = ToSet(Without(i)) \cup {d}
      BY <3>1, CallSets
    <3>5. hist' \in [acked : Nat, seen : Nat, disturbed : BOOLEAN] /\ hist'.acked <= world'.rev
      BY <1>0, <1>h, <2>1, <3>1, <3>3 DEF DashboardInv
    <3>6. LoadsFirst(calls')
      BY <2>1, <2>2, <3>1, <3>2, LoadsAppend
    <3>7. hooks'.restarting # Null => \E c \in ToSet(calls') : c.arg = hooks'.restarting
      BY <1>0, <2>3, <3>1, <3>2, <3>4 DEF DashboardInv
    <3>8. Due("services.list", hist.acked)'
      BY <3>2, <3>4 DEF Due, JustSent
    <3>9. StepTyped
      BY <2>1, <2>3, <3>1, <3>2, <3>4, CalmTyped
    <3>10. (Dashboard!TypeOK)'
      BY <1>0, <3>1, <3>5 DEF DashboardInv, Dashboard!TypeOK, Dashboard!HistoryOK
    <3>11. \A c \in ToSet(calls') : c.op \in {"services.list", "versions.list", "services.restart"}
      BY <1>0, <2>3, <3>2, <3>4 DEF DashboardInv
    <3>. QED
      BY <1>0, <3>1, <3>5, <3>6, <3>7, <3>8, <3>9, <3>10, <3>11 DEF DashboardInv
  <2>5. CASE ~Dashboard!IsFulfilled(i)
    <3>1. hooks' = Dashboard!RestartOver /\ calls' = Without(i) /\ hist' = hist
      BY <1>11, <1>w, <2>5 DEF Dashboard!Restarted
    <3>2. /\ DOMAIN hooks' = DOMAIN hooks /\ hooks'.page = hooks.page
          /\ hooks'.servicesList = hooks.servicesList /\ hooks'.versionInfos = hooks.versionInfos
          /\ hooks'.loading = hooks.loading /\ hooks'.activeTab = hooks.activeTab
          /\ hooks'.restarting = Null /\ hooks'.actionOpen = hooks.actionOpen
      BY <1>9, <3>1
    <3>3. (Dashboard!TypeOK)'
      BY <1>0, <3>1, <3>2 DEF DashboardInv, Dashboard!TypeOK, Dashboard!HistoryOK
    <3>4. StepTyped
      BY <2>1, <2>3, <3>1, <3>2, CalmTyped
    <3>5. (~hist.disturbed => Due("services.list", hist.acked) \/ UpToDate(hooks.servicesList, hist.acked))'
      <4>1. Due("services.list", hist.acked) => Due("services.list", hist.acked)'
        BY <2>1, <3>1, StaysDue DEF Due
      <4>2. UpToDate(hooks.servicesList, hist.acked) => UpToDate(hooks.servicesList, hist.acked)'
        BY <3>1, <3>2 DEF UpToDate
      <4>. QED
        BY <1>0, <3>1, <4>1, <4>2 DEF DashboardInv
    <3>. QED
      BY <1>0, <2>1, <2>2, <2>3, <3>1, <3>2, <3>3, <3>4, <3>5 DEF DashboardInv
  <2>. QED
    BY <2>4, <2>5
<1>12. ASSUME NEW i \in DOMAIN calls, Dashboard!Relisted(i)
       PROVE  StepTyped /\ DashboardInv'
  <2>. DEFINE v == calls[i].answer.value
  <2>1. calls[i].op = "services.list" /\ UNCHANGED <<world, events>> /\ calls[i].arg \in Services
        /\ calls' = Without(i)
    BY <1>10, <1>12, <1>w DEF Dashboard!Relisted
  <2>2. LoadsFirst(calls') /\ ToSet(calls') \subseteq ToSet(calls)
    BY <1>0, <2>1, LoadsWithout, CallSets DEF DashboardInv
  <2>3. CASE Dashboard!IsFulfilled(i)
    <3>1. /\ hooks' = [Dashboard!RestartOver EXCEPT !.servicesList = v]
          /\ hist' = [hist EXCEPT !.seen = IF v.rev > @ THEN v.rev ELSE @,
                                  !.disturbed = @ \/ v.rev < hist.seen]
      BY <1>12, <2>3 DEF Dashboard!Relisted, Dashboard!Value, Dashboard!Seen
    <3>2. v \in [rev : 0 .. world.rev] /\ calls[i].answer.state = "fulfilled"
      BY <1>t, <2>1, <2>3 DEF Dashboard!IsFulfilled, Typed, TypedValue, PlainReads
    <3>3. v \in [rev : Nat] /\ v.rev \in Nat /\ v # Null
      BY <1>0, <1>n, <3>2
    <3>. HIDE DEF v
    <3>4. /\ DOMAIN hooks' = DOMAIN hooks /\ hooks'.page = hooks.page
          /\ hooks'.servicesList = v /\ hooks'.versionInfos = hooks.versionInfos
          /\ hooks'.loading = hooks.loading /\ hooks'.activeTab = hooks.activeTab
          /\ hooks'.restarting = Null /\ hooks'.actionOpen = hooks.actionOpen
      BY <1>0, <3>1 DEF DashboardInv, Dashboard!RestartOver
    <3>5. /\ hist' \in [acked : Nat, seen : Nat, disturbed : BOOLEAN]
          /\ hist'.acked = hist.acked
          /\ hist'.seen = (IF v.rev > hist.seen THEN v.rev ELSE hist.seen)
          /\ hist'.disturbed = (hist.disturbed \/ v.rev < hist.seen)
      BY <1>h, <3>1, <3>3
    <3>6. (Dashboard!TypeOK)'
      BY <1>0, <3>3, <3>4, <3>5 DEF DashboardInv, Dashboard!TypeOK, Dashboard!HistoryOK
    <3>7. ASSUME ~hist'.disturbed
          PROVE  (Due("services.list", hist.acked) \/ UpToDate(hooks.servicesList, hist.acked))'
      <4>1. v.rev >= hist.seen /\ ~hist.disturbed
        BY <1>h, <3>3, <3>5, <3>7
      <4>2. Due("services.list", hist.acked) \/ hist.seen >= hist.acked
        BY <1>0, <4>1 DEF DashboardInv, UpToDate
      <4>3. /\ hist'.seen = v.rev
            /\ \/ hist'.seen >= hist.acked
               \/ \E c \in ToSet(calls') : c.op = "services.list"
                     /\ (c.answer.state = "fulfilled" => c.answer.value.rev >= hist.acked)
        BY <1>h, <2>1, <3>2, <3>3, <3>5, <4>1, <4>2, ShownAnswer DEF v
      <4>. QED
        BY <3>3, <3>4, <3>5, <4>3 DEF Due, UpToDate
    <3>8. StepTyped
      BY <2>1, <2>2, <3>4, CalmTyped
    <3>. QED
      BY <1>0, <2>1, <2>2, <3>4, <3>5, <3>6, <3>7, <3>8 DEF DashboardInv
  <2>4. CASE ~Dashboard!IsFulfilled(i)
    <3>1. hooks' = Dashboard!RestartOver /\ hist' = [hist EXCEPT !.disturbed = TRUE]
      BY <1>12, <2>4 DEF Dashboard!Relisted, Dashboard!Disturbed
    <3>2. /\ DOMAIN hooks' = DOMAIN hooks /\ hooks'.page = hooks.page
          /\ hooks'.servicesList = hooks.servicesList /\ hooks'.versionInfos = hooks.versionInfos
          /\ hooks'.loading = hooks.loading /\ hooks'.activeTab = hooks.activeTab
          /\ hooks'.restarting = Null /\ hooks'.actionOpen = hooks.actionOpen
      BY <1>9, <3>1
    <3>3. hist'.disturbed /\ hist'.acked = hist.acked /\ (Dashboard!TypeOK)'
      BY <1>0, <1>h, <3>1, <3>2 DEF DashboardInv, Dashboard!TypeOK, Dashboard!HistoryOK
    <3>4. StepTyped
      BY <2>1, <2>2, <3>2, CalmTyped
    <3>. QED
      BY <1>0, <2>1, <2>2, <3>2, <3>3, <3>4 DEF DashboardInv
  <2>. QED
    BY <2>3, <2>4
<1>. QED
  BY <1>2, <1>3, <1>4, <1>7, <1>8, <1>11, <1>12 DEF Dashboard!Next, Dashboard!Clicks, Dashboard!Continuations

-----------------------------------------------------------------------------
\* The exchange table: what rendering does to the hooks.
SameTables(h, g) ==
    /\ DOMAIN h = DOMAIN g /\ h.page = g.page /\ h.searchQuery = g.searchQuery
    /\ h.tableData = g.tableData /\ h.searchResults = g.searchResults

LEMMA RenderedShape ==
  ASSUME NEW h, DOMAIN h = ExchangeHooks, NEW g, g = Exchange!Rendered(h)
  PROVE  /\ SameTables(g, h) /\ g.activeTab = h.activeTab /\ g.loading = h.loading
         /\ g.editingIndex = h.editingIndex /\ g.editValue = h.editValue
         /\ g.focus = (Exchange!EditorShown(h) /\ (h.focus \/ Exchange!Remounted(h)))
         /\ Exchange!EditorShown(g) = Exchange!EditorShown(h)
<1>1. g = [h EXCEPT !.focus = Exchange!EditorShown(h) /\ (h.focus \/ Exchange!Remounted(h))]
  BY DEF Exchange!Rendered
<1>2. /\ SameTables(g, h) /\ g.activeTab = h.activeTab /\ g.loading = h.loading
      /\ g.editingIndex = h.editingIndex /\ g.editValue = h.editValue
      /\ g.focus = (Exchange!EditorShown(h) /\ (h.focus \/ Exchange!Remounted(h)))
  BY <1>1 DEF ExchangeHooks, SameTables
<1>3. Exchange!EditorShown(g) = Exchange!EditorShown(h)
  BY <1>2 DEF Exchange!EditorShown, Exchange!IsShown, Exchange!Entries, SameTables
<1>. QED
  BY <1>2, <1>3

\* A step that leaves the tables, and only sends calls.
LEMMA TablesStayKnown ==
  ASSUME ExchangeInv, UNCHANGED <<hist, world, left>>,
         hooks'.tableData = hooks.tableData, hooks'.searchResults = hooks.searchResults,
         ToSet(calls) \subseteq ToSet(calls'),
         \A c \in ToSet(calls') : c \in ToSet(calls) \/ JustSent(c)
  PROVE  TablesKnown'
<1>. SUFFICES ASSUME ~hist.disturbed
              PROVE  (\E c \in ToSet(calls') : Disturbs(c)') \/ ExchangeAgrees'
  BY DEF TablesKnown
<1>1. \A c : Disturbs(c)' <=> Disturbs(c)
  BY DEF Disturbs
<1>2. \A k : Unapplied(k)' = Unapplied(k)
  BY DEF Unapplied, AppliedSave, JustSent
<1>3. \A c \in ToSet(calls') : c.answer.state = "fulfilled" => c \in ToSet(calls)
  BY DEF JustSent
<1>4. \A table, n : AgreesSince(table, n)' <=> AgreesSince(table, n)
  BY <1>2 DEF AgreesSince
<1>5. CASE ExchangeAgrees
  <2>1. left' = EmptyBag /\ (hooks'.tableData = Null => \E c \in ToSet(calls') : c.op = "exchange.getTable")
    BY <1>5 DEF ExchangeAgrees
  <2>2. \A table \in {hooks'.tableData, hooks'.searchResults} :
           table # Null => \A k \in DOMAIN table : Unapplied(k)' = {} => table[k] = world'.table[k]
    BY <1>2, <1>5 DEF ExchangeAgrees
  <2>3. \A c \in ToSet(calls') :
           c.op \in TableReads /\ c.answer.state = "fulfilled"
              => AgreesSince(c.answer.value.table, c.answer.value.rev)'
    BY <1>3, <1>4, <1>5 DEF ExchangeAgrees
  <2>4. \A k \in Cells : \A c \in Unapplied(k)' :
           \/ c.arg.value = world'.table[k]
           \/ \E d \in Unapplied(k)' : d.answer.value.rev > c.answer.value.rev
    BY <1>2, <1>5 DEF ExchangeAgrees
  <2>. QED
    BY <2>1, <2>2, <2>3, <2>4 DEF ExchangeAgrees
<1>. QED
  BY <1>1, <1>5 DEF ExchangeInv, TablesKnown

\* Tables, and rows of them, are not null.
LEMMA TablesAreShown ==
  /\ \A t \in OwnTables : t \in [Cells -> Text] /\ t # Null
  /\ \A t \in OwnRows : DOMAIN t \subseteq Cells /\ t # Null
  /\ \A t \in OwnTables \cup OwnRows :
        DOMAIN t \subseteq Cells /\ \A k \in DOMAIN t : t[k] \in Text
  /\ \A C \in SUBSET Cells : \A t \in [C -> Text] : t # Null
<1>1. ASSUME NEW t \in OwnTables
      PROVE  t \in [Cells -> Text] /\ t # Null
  <2>1. t \in [Cells -> Text]
    BY DEF OwnTables, Text
  <2>2. t \in Rows
    BY <2>1 DEF Rows
  <2>. QED
    BY <2>1, <2>2, NullAssumption
<1>2. ASSUME NEW t \in OwnRows
      PROVE  DOMAIN t \subseteq Cells /\ t # Null
  BY NullAssumption DEF OwnRows, Rows
<1>3. ASSUME NEW t \in OwnTables \cup OwnRows
      PROVE  DOMAIN t \subseteq Cells /\ \A k \in DOMAIN t : t[k] \in Text
  BY <1>1, <1>2 DEF OwnRows, TextsOf, Text
<1>4. \A C \in SUBSET Cells : \A t \in [C -> Text] : t # Null
  BY NullAssumption DEF Rows
<1>. QED
  BY <1>1, <1>2, <1>3, <1>4

\* The answer of a table read is applied.
LEMMA ReadKeepsKnown ==
  ASSUME IInv, PInv, ExchangeInv, UNCHANGED <<world, left>>, NEW i \in DOMAIN calls,
         calls' = Without(i), calls[i].op \in TableReads, calls[i].answer.state = "fulfilled",
         NEW v, v = calls[i].answer.value,
         hist'.seen = IF v.rev > hist.seen THEN v.rev ELSE hist.seen,
         hist'.disturbed = (hist.disturbed \/ v.rev < hist.seen),
         \/ /\ calls[i].op = "exchange.getTable"
            /\ hooks'.tableData = v.table /\ hooks'.searchResults = hooks.searchResults
         \/ /\ calls[i].op = "exchange.search"
            /\ hooks'.tableData = hooks.tableData /\ hooks'.searchResults = v.table
  PROVE  TablesKnown'
<1>. SUFFICES ASSUME ~hist'.disturbed
              PROVE  (\E c \in ToSet(calls') : Disturbs(c)') \/ ExchangeAgrees'
  BY DEF TablesKnown
<1>1. /\ calls[i] \in ToSet(calls) /\ ToSet(calls') \subseteq ToSet(calls)
      /\ ToSet(calls) \subseteq ToSet(calls') \cup {calls[i]}
  BY CallSets
<1>2. Typed(calls[i], world.rev) /\ CallOK(calls[i]) /\ world.rev \in Nat
  BY <1>1 DEF PInv, IInv, InFlight, WorldOK
<1>3. v.rev \in Nat /\ v.table # Null
  BY <1>2, TablesAreShown DEF Typed, TypedValue, CallOK, ValueOK, TableReads
<1>4. hist.seen \in Nat /\ hist.disturbed \in BOOLEAN
  BY DEF ExchangeInv, Exchange!TypeOK, Exchange!HistoryOK
<1>5. ~hist.disturbed /\ v.rev >= hist.seen /\ hist'.seen = v.rev
  <2>1. ~hist.disturbed /\ ~ (v.rev < hist.seen)
    OBVIOUS
  <2>. QED
    BY <1>3, <1>4, <2>1
<1>6. ~Disturbs(calls[i])
  BY <1>3, <1>4, <1>5 DEF Disturbs
<1>7. \A c \in ToSet(calls) : Disturbs(c) => Disturbs(c)'
  <2>. SUFFICES ASSUME NEW c \in ToSet(calls), c.answer.state = "fulfilled",
                       c.answer.value.rev < hist.seen
                PROVE  c.answer.value.rev < hist'.seen
    BY DEF Disturbs
  <2>1. Typed(c, world.rev)
    BY DEF PInv, InFlight
  <2>2. c.answer.value.rev \in Nat
    <3>1. c.op \in TableReads \/ c.op \in Changing
      BY DEF ExchangeInv, Changing
    <3>. QED
      BY <1>2, <2>1, <3>1 DEF Typed, TypedValue
  <2>. QED
    BY <1>3, <1>4, <1>5, <2>2
<1>8. CASE \E c \in ToSet(calls) : Disturbs(c)
  BY <1>1, <1>6, <1>7, <1>8
<1>9. CASE ExchangeAgrees
  <2>1. \A k : Unapplied(k)' = Unapplied(k)
    BY <1>1 DEF Unapplied, AppliedSave, TableReads
  <2>2. \A table, n : AgreesSince(table, n)' <=> AgreesSince(table, n)
    BY <2>1 DEF AgreesSince
  <2>3. left' = EmptyBag /\ (hooks'.tableData = Null => \E c \in ToSet(calls') : c.op = "exchange.getTable")
    BY <1>1, <1>3, <1>9 DEF ExchangeAgrees
  <2>4. AgreesSince(v.table, v.rev)
    BY <1>1, <1>9 DEF ExchangeAgrees
  <2>5. \A k \in DOMAIN v.table : Unapplied(k) = {} => v.table[k] = world.table[k]
    BY <2>4 DEF AgreesSince
  <2>6. \A table \in {hooks'.tableData, hooks'.searchResults} :
           table # Null => \A k \in DOMAIN table : Unapplied(k)' = {} => table[k] = world'.table[k]
    BY <1>9, <2>1, <2>5 DEF ExchangeAgrees
  <2>7. \A c \in ToSet(calls') :
           c.op \in TableReads /\ c.answer.state = "fulfilled"
              => AgreesSince(c.answer.value.table, c.answer.value.rev)'
    BY <1>1, <1>9, <2>2 DEF ExchangeAgrees
  <2>8. \A k \in Cells : \A c \in Unapplied(k)' :
           \/ c.arg.value = world'.table[k]
           \/ \E d \in Unapplied(k)' : d.answer.value.rev > c.answer.value.rev
    BY <1>9, <2>1 DEF ExchangeAgrees
  <2>. QED
    BY <2>3, <2>6, <2>7, <2>8 DEF ExchangeAgrees
<1>. QED
  BY <1>5, <1>8, <1>9 DEF ExchangeInv, TablesKnown

\* The answer of a save is applied.
LEMMA SaveKeepsKnown ==
  ASSUME IInv, PInv, ExchangeInv, ExchangeFits(hooks), UNCHANGED <<world, left>>,
         NEW i \in DOMAIN calls, calls' = Without(i), NEW x, x = calls[i],
         x.op = "exchange.setValue", x.answer.state = "fulfilled",
         NEW v, v = x.answer.value,
         hist'.seen = IF v.rev > hist.seen THEN v.rev ELSE hist.seen,
         hist'.disturbed = (hist.disturbed \/ v.rev < hist.seen),
         hooks'.tableData = Exchange!Patch(hooks.tableData, x.arg),
         hooks'.searchResults = Exchange!Patch(hooks.searchResults, x.arg)
  PROVE  TablesKnown'
<1>. DEFINE e == x.arg
<1>. SUFFICES ASSUME ~hist'.disturbed, \A c \in ToSet(calls') : ~Disturbs(c)'
              PROVE  ExchangeAgrees'
  BY DEF TablesKnown
<1>1. /\ x \in ToSet(calls) /\ ToSet(calls') \subseteq ToSet(calls)
      /\ ToSet(calls) \subseteq ToSet(calls') \cup {x}
  BY CallSets
<1>2. Typed(x, world.rev) /\ CallOK(x) /\ world.rev \in Nat
  BY <1>1 DEF PInv, IInv, InFlight, WorldOK
<1>3. v.rev \in Nat /\ e.index \in Cells /\ e.value \in TextsOf(e.index)
  BY <1>2 DEF Typed, TypedValue, CallOK, ArgOK, Changing
<1>4. hist.seen \in Nat /\ hist.disturbed \in BOOLEAN
  BY DEF ExchangeInv, Exchange!TypeOK, Exchange!HistoryOK
<1>5. ~hist.disturbed /\ v.rev >= hist.seen /\ hist'.seen = v.rev
  <2>1. ~hist.disturbed /\ ~ (v.rev < hist.seen)
    OBVIOUS
  <2>. QED
    BY <1>3, <1>4, <2>1
<1>6. \A c \in ToSet(calls) : c.answer.state = "fulfilled" => c.answer.value.rev \in Nat
  <2>. SUFFICES ASSUME NEW c \in ToSet(calls), c.answer.state = "fulfilled"
                PROVE  c.answer.value.rev \in Nat
    OBVIOUS
  <2>1. Typed(c, world.rev)
    BY DEF PInv, InFlight
  <2>2. c.op \in TableReads \/ c.op \in Changing
    BY DEF ExchangeInv, Changing
  <2>. QED
    BY <1>2, <2>1, <2>2 DEF Typed, TypedValue
\* Whatever was answered and is still to be applied is as new as this save.
<1>7. \A c \in ToSet(calls') : c.answer.state = "fulfilled" => ~ (v.rev > c.answer.value.rev)
  BY <1>1, <1>3, <1>5, <1>6 DEF Disturbs
<1>8. \A c \in ToSet(calls) : ~Disturbs(c)
  <2>1. ~Disturbs(x)
    BY <1>3, <1>4, <1>5 DEF Disturbs
  <2>2. \A c \in ToSet(calls') : ~Disturbs(c)
    BY <1>1, <1>4, <1>5, <1>3, <1>6 DEF Disturbs
  <2>. QED
    BY <1>1, <2>1, <2>2
<1>9. ExchangeAgrees
  BY <1>5, <1>8 DEF ExchangeInv, TablesKnown
<1>10. x \in Unapplied(e.index)
  BY <1>1 DEF Unapplied, AppliedSave
<1>11. \A k : /\ Unapplied(k)' \subseteq Unapplied(k) /\ Unapplied(k) \subseteq Unapplied(k)' \cup {x}
              /\ k # e.index => Unapplied(k)' = Unapplied(k)
  BY <1>1 DEF Unapplied, AppliedSave
<1>12. \A k : \A c \in Unapplied(k)' : c \in ToSet(calls') /\ c.answer.state = "fulfilled"
  BY DEF Unapplied, AppliedSave
\* The last save of a cell wrote what the cell holds.
<1>13. Unapplied(e.index)' = {} => e.value = world.table[e.index]
  <2>. SUFFICES ASSUME Unapplied(e.index)' = {}
                PROVE  e.value = world.table[e.index]
    OBVIOUS
  <2>1. \A d \in Unapplied(e.index) : d = x
    BY <1>11
  <2>2. \/ e.value = world.table[e.index]
        \/ \E d \in Unapplied(e.index) : d.answer.value.rev > x.answer.value.rev
    BY <1>3, <1>9, <1>10 DEF ExchangeAgrees
  <2>. QED
    BY <1>3, <2>1, <2>2
<1>14. ASSUME NEW t \in OwnTables \cup OwnRows \cup {Null},
              t # Null => \A k \in DOMAIN t : Unapplied(k) = {} => t[k] = world.table[k]
       PROVE  LET p == Exchange!Patch(t, e) IN
              /\ p = Null => t = Null
              /\ p # Null => \A k \in DOMAIN p : Unapplied(k)' = {} => p[k] = world.table[k]
  <2>. DEFINE p == Exchange!Patch(t, e)
  <2>1. CASE t = Null
    BY <2>1 DEF Exchange!Patch
  <2>2. CASE t # Null
    <3>1. DOMAIN p = DOMAIN t
          /\ \A k \in DOMAIN t : p[k] = IF k = e.index THEN e.value ELSE t[k]
      BY <2>2 DEF Exchange!Patch
    <3>. HIDE DEF p
    <3>2. ASSUME NEW k \in DOMAIN p, Unapplied(k)' = {}
          PROVE  p[k] = world.table[k]
      <4>1. CASE k = e.index
        BY <1>13, <3>1, <3>2, <4>1
      <4>2. CASE k # e.index
        BY <1>11, <1>14, <2>2, <3>1, <3>2, <4>2
      <4>. QED
        BY <4>1, <4>2
    <3>3. DOMAIN t \in SUBSET Cells /\ p \in [DOMAIN t -> Text]
      <4>1. e.value \in Text /\ DOMAIN t \subseteq Cells /\ \A k \in DOMAIN t : t[k] \in Text
        BY <1>3, <2>2, TablesAreShown DEF TextsOf, Text
      <4>. QED
        BY <2>2, <4>1 DEF p, Exchange!Patch
    <3>4. p # Null
      BY <3>3, TablesAreShown
    <3>. QED
      BY <2>2, <3>2, <3>4 DEF p
  <2>. QED
    BY <2>1, <2>2
<1>15. /\ hooks.tableData \in OwnTables \cup OwnRows \cup {Null}
       /\ hooks.searchResults \in OwnTables \cup OwnRows \cup {Null}
       /\ \A t \in {hooks.tableData, hooks.searchResults} :
             t # Null => \A k \in DOMAIN t : Unapplied(k) = {} => t[k] = world.table[k]
  BY <1>9 DEF ExchangeFits, ExchangeAgrees
<1>16. \A table \in {hooks'.tableData, hooks'.searchResults} :
          table # Null => \A k \in DOMAIN table : Unapplied(k)' = {} => table[k] = world'.table[k]
  BY <1>14, <1>15
<1>17. left' = EmptyBag /\ (hooks'.tableData = Null => \E c \in ToSet(calls') : c.op = "exchange.getTable")
  <2>1. hooks'.tableData = Null => hooks.tableData = Null
    BY <1>14, <1>15
  <2>. QED
    BY <1>1, <1>9, <2>1 DEF ExchangeAgrees
<1>18. ASSUME NEW c \in ToSet(calls'), c.op \in TableReads, c.answer.state = "fulfilled"
       PROVE  AgreesSince(c.answer.value.table, c.answer.value.rev)'
  <2>1. AgreesSince(c.answer.value.table, c.answer.value.rev)
    BY <1>1, <1>9, <1>18 DEF ExchangeAgrees
  <2>. SUFFICES ASSUME NEW k \in DOMAIN c.answer.value.table,
                       c.answer.value.table[k] # world.table[k]
                PROVE  \E d \in Unapplied(k)' : d.answer.value.rev > c.answer.value.rev
    BY DEF AgreesSince
  <2>2. PICK d \in Unapplied(k) : d.answer.value.rev > c.answer.value.rev
    BY <2>1 DEF AgreesSince
  <2>3. d # x
    BY <1>7, <1>18, <2>2
  <2>. QED
    BY <1>11, <2>2, <2>3
<1>19. ASSUME NEW k \in Cells, NEW c \in Unapplied(k)'
       PROVE  \/ c.arg.value = world'.table[k]
              \/ \E d \in Unapplied(k)' : d.answer.value.rev > c.answer.value.rev
  <2>1. c \in Unapplied(k) /\ c \in ToSet(calls') /\ c.answer.state = "fulfilled"
    BY <1>11, <1>12
  <2>2. \/ c.arg.value = world.table[k]
        \/ \E d \in Unapplied(k) : d.answer.value.rev > c.answer.value.rev
    BY <1>9, <2>1 DEF ExchangeAgrees
  <2>3. ASSUME NEW d \in Unapplied(k), d.answer.value.rev > c.answer.value.rev
        PROVE  d \in Unapplied(k)'
    <3>1. d # x
      BY <1>7, <2>1, <2>3
    <3>. QED
      BY <1>11, <3>1
  <2>. QED
    BY <2>2, <2>3
<1>. QED
  BY <1>16, <1>17, <1>18, <1>19 DEF ExchangeAgrees

\* Every step of the exchange page.
LEMMA ExchangeStepKeeps ==
  ASSUME IInv, IInv', PInv, hooks.page = "exchange", left' = left, Exchange!Next
  PROVE  StepTyped /\ ExchangeInv'
<1>. USE DEF Exchange!Handle, Exchange!Continue, Exchange!Typing
<1>0. ExchangeInv /\ ExchangeFits(hooks) /\ world.rev \in Nat /\ DOMAIN hooks = ExchangeHooks
      /\ EditorWaits /\ Exchange!TypeOK
  BY DEF PInv, IInv, WorldOK, ExchangeInv
<1>w. \A i \in DOMAIN calls : Exchange!Without(i) = Without(i)
  BY DEF Exchange!Without, Without
<1>t. \A i \in DOMAIN calls : Typed(calls[i], world.rev)
  BY CallSets DEF PInv, InFlight
<1>h. hist \in [acked : Nat, seen : Nat, disturbed : BOOLEAN]
  BY <1>0 DEF Exchange!TypeOK, Exchange!HistoryOK
<1>x. Exchange!Text = Text /\ Exchange!Rows = Rows
  BY DEF Exchange!Text, Text, Exchange!Written, Written, Exchange!Rows, Rows
\* The type of the hooks, of which IInv' knows the tables and the editor.
<1>1. ASSUME hooks'.page = "exchange", hooks'.activeTab \in {"browse", "search", "live"},
             hooks'.searchQuery \in {"empty", "query"}, hooks'.loading \in BOOLEAN,
             hooks'.focus \in BOOLEAN, hooks'.editingIndex # Null \/ hooks'.editValue \in Text,
             hist' \in [acked : Nat, seen : Nat, disturbed : BOOLEAN]
      PROVE  (Exchange!TypeOK)'
  <2>1. ExchangeFits(hooks)'
    BY <1>1 DEF IInv
  <2>2. \A k : TextsOf(k) \subseteq Text
    BY DEF TextsOf, Text
  <2>3. OwnTables \subseteq [Cells -> Text] /\ OwnRows \subseteq Rows
    BY TablesAreShown DEF OwnRows
  <2>4. hooks'.editValue \in Text
    BY <1>1, <2>1, <2>2 DEF ExchangeFits
  <2>. QED
    BY <1>1, <1>x, <2>1, <2>3, <2>4 DEF ExchangeFits, Exchange!TypeOK, Exchange!HistoryOK
\* A step that leaves the tables, and only sends calls.
<1>2. ASSUME UNCHANGED <<hist, world>>, NEW d, JustSent(d),
             d.op \in TableReads \cup {"exchange.setValue"},
             calls' = calls \/ calls' = Append(calls, d),
             DOMAIN hooks' = DOMAIN hooks, SameTables(hooks', [hooks EXCEPT !.searchQuery = hooks'.searchQuery]),
             hooks'.activeTab \in {"browse", "search", "live"},
             hooks'.searchQuery \in {"empty", "query"}, hooks'.loading \in BOOLEAN,
             hooks'.focus \in BOOLEAN, hooks'.editingIndex # Null \/ hooks'.editValue \in Text,
             hooks'.focus => Exchange!EditorShown(hooks'),
             Exchange!EditorShown(hooks') /\ ~hooks'.focus =>
                \/ Exchange!EditorShown(hooks) /\ ~hooks.focus
                \/ d.op = "exchange.setValue" /\ calls' = Append(calls, d),
             events' = events \/ (events > 0 /\ events' = events - 1)
      PROVE  StepTyped /\ ExchangeInv'
  <2>1. ToSet(Append(calls, d)) = ToSet(calls) \cup {d}
    BY CallSets
  <2>2. ToSet(calls) \subseteq ToSet(calls') /\ \A c \in ToSet(calls') : c \in ToSet(calls) \/ c = d
    BY <1>2, <2>1
  <2>3. /\ hooks'.page = hooks.page /\ hooks'.tableData = hooks.tableData
        /\ hooks'.searchResults = hooks.searchResults
    BY <1>0, <1>2 DEF SameTables, ExchangeHooks
  <2>4. StepTyped
    BY <1>2, <2>2, <2>3, CalmTyped
  <2>5. TablesKnown'
    BY <1>0, <1>2, <2>2, <2>3, TablesStayKnown
  <2>6. (Exchange!TypeOK)'
    BY <1>1, <1>2, <1>h, <2>3
  <2>7. \A c \in ToSet(calls') : c.op \in TableReads \cup {"exchange.setValue"}
    BY <1>0, <1>2, <2>2 DEF ExchangeInv
  <2>8. EditorWaits'
    <3>1. ASSUME Exchange!EditorShown(hooks'), ~hooks'.focus
          PROVE  \E c \in ToSet(calls') : c.op = "exchange.setValue"
      <4>1. CASE Exchange!EditorShown(hooks) /\ ~hooks.focus
        BY <1>0, <2>2, <4>1 DEF EditorWaits
      <4>2. CASE d.op = "exchange.setValue" /\ calls' = Append(calls, d)
        BY <2>1, <4>2
      <4>. QED
        BY <1>2, <3>1, <4>1, <4>2
    <3>. QED
      BY <1>2, <3>1 DEF EditorWaits
  <2>. QED
    BY <1>0, <1>2, <2>4, <2>5, <2>6, <2>7, <2>8 DEF ExchangeInv
\* The calls the page sends.
<1>3. /\ JustSent(Exchange!TableCall) /\ Exchange!TableCall.op \in TableReads
      /\ \A a : /\ JustSent(Exchange!Call("exchange.search", a))
                /\ Exchange!Call("exchange.search", a).op \in TableReads
                /\ JustSent(Exchange!Call("exchange.setValue", a))
                /\ Exchange!Call("exchange.setValue", a).op = "exchange.setValue"
  BY DEF Exchange!TableCall, Exchange!Call, Exchange!Pending, JustSent, TableReads
\* A hook that is set, and the page rendered.
<1>4. ASSUME NEW h, DOMAIN h = ExchangeHooks, NEW d, JustSent(d),
             d.op \in TableReads \cup {"exchange.setValue"},
             calls' = calls \/ calls' = Append(calls, d),
             hooks' = Exchange!Rendered(h), UNCHANGED <<hist, world>>,
             SameTables(h, [hooks EXCEPT !.searchQuery = h.searchQuery]),
             h.activeTab \in {"browse", "search", "live"},
             h.searchQuery \in {"empty", "query"}, h.loading \in BOOLEAN,
             h.editingIndex # Null \/ h.editValue \in Text,
             Exchange!EditorShown(h) =>
                \/ Exchange!EditorShown(hooks) /\ ~hooks.focus
                \/ Exchange!Remounted(h),
             events' = events \/ (events > 0 /\ events' = events - 1)
      PROVE  StepTyped /\ ExchangeInv'
  <2>. DEFINE g == Exchange!Rendered(h)
  <2>1. /\ SameTables(g, h) /\ g.activeTab = h.activeTab /\ g.loading = h.loading
        /\ g.editingIndex = h.editingIndex /\ g.editValue = h.editValue
        /\ g.focus = (Exchange!EditorShown(h) /\ (h.focus \/ Exchange!Remounted(h)))
        /\ Exchange!EditorShown(g) = Exchange!EditorShown(h)
    BY <1>4, RenderedShape
  <2>2. hooks' = g
    BY <1>4
  <2>. HIDE DEF g
  <2>3. SameTables(g, [hooks EXCEPT !.searchQuery = g.searchQuery]) /\ g.searchQuery = h.searchQuery
        /\ DOMAIN g = DOMAIN hooks
    BY <1>0, <1>4, <2>1 DEF SameTables
  <2>4. g.focus \in BOOLEAN /\ (g.focus => Exchange!EditorShown(g))
    BY <2>1 DEF Exchange!EditorShown
  <2>5. Exchange!EditorShown(g) /\ ~g.focus => Exchange!EditorShown(hooks) /\ ~hooks.focus
    BY <1>4, <2>1
  <2>. QED
    BY <1>2, <1>4, <2>1, <2>2, <2>3, <2>4, <2>5
<1>5. hooks.activeTab \in {"browse", "search", "live"} /\ hooks.loading \in BOOLEAN
      /\ hooks.searchQuery \in {"empty", "query"} /\ hooks.focus \in BOOLEAN
      /\ hooks.editValue \in Text /\ hooks.page = "exchange"
  BY <1>0, <1>x DEF Exchange!TypeOK
<1>6. ASSUME NEW t \in {"browse", "search", "live"}, Exchange!SelectTab(t)
      PROVE  StepTyped /\ ExchangeInv'
  <2>1. PICK h \in {[hooks EXCEPT !.activeTab = t, !.loading = TRUE], [hooks EXCEPT !.activeTab = t]} :
           hooks' = Exchange!Rendered(h)
    BY <1>6 DEF Exchange!SelectTab
  <2>2. /\ UNCHANGED <<hist, world>> /\ events > 0 /\ events' = events - 1
        /\ calls' = calls \/ calls' = Append(calls, Exchange!TableCall)
        /\ hooks.activeTab # t
    BY <1>6 DEF Exchange!SelectTab
  <2>3. DOMAIN h = ExchangeHooks /\ SameTables(h, [hooks EXCEPT !.searchQuery = h.searchQuery])
        /\ h.searchQuery = hooks.searchQuery /\ h.activeTab = t /\ h.loading \in BOOLEAN
        /\ h.editingIndex = hooks.editingIndex /\ h.editValue = hooks.editValue
    BY <1>0, <1>5, <2>1 DEF ExchangeHooks, SameTables
  <2>4. Exchange!Remounted(h)
    BY <2>2, <2>3 DEF Exchange!Remounted
  <2>. QED
    BY <1>3, <1>4, <1>5, <2>1, <2>2, <2>3, <2>4
<1>7. ASSUME NEW byEnter, Exchange!TypeQuery \/ Exchange!handleSearch(byEnter)
      PROVE  StepTyped /\ ExchangeInv'
  <2>. DEFINE d == Exchange!Call("exchange.search", [query |-> hooks.searchQuery])
  <2>1. /\ UNCHANGED <<hist, world>> /\ (events' = events \/ (events > 0 /\ events' = events - 1))
        /\ calls' = calls \/ calls' = Append(calls, d)
        /\ hooks' \in {[hooks EXCEPT !.searchQuery = "query"], [hooks EXCEPT !.loading = TRUE]}
    BY <1>7 DEF Exchange!TypeQuery, Exchange!handleSearch
  <2>2. JustSent(d) /\ d.op \in TableReads
    BY <1>3
  <2>. HIDE DEF d
  <2>3. /\ DOMAIN hooks' = DOMAIN hooks
        /\ SameTables(hooks', [hooks EXCEPT !.searchQuery = hooks'.searchQuery])
        /\ hooks'.searchQuery \in {"empty", "query"} /\ hooks'.loading \in BOOLEAN
        /\ hooks'.activeTab = hooks.activeTab /\ hooks'.focus = hooks.focus
        /\ hooks'.editingIndex = hooks.editingIndex /\ hooks'.editValue = hooks.editValue
        /\ hooks'.tableData = hooks.tableData /\ hooks'.searchResults = hooks.searchResults
    BY <1>0, <1>5, <2>1 DEF SameTables, ExchangeHooks
  <2>4. Exchange!EditorShown(hooks') = Exchange!EditorShown(hooks)
    BY <2>3 DEF Exchange!EditorShown, Exchange!IsShown, Exchange!Entries
  <2>5. hooks'.focus => Exchange!EditorShown(hooks')
    BY <1>0, <2>3, <2>4 DEF EditorWaits
  <2>. QED
    BY <1>2, <1>5, <2>1, <2>2, <2>3, <2>4, <2>5
<1>8. ASSUME NEW k \in Cells, Exchange!startEdit(k)
      PROVE  StepTyped /\ ExchangeInv'
  <2>. DEFINE v == Exchange!Entries(hooks)[k]
              h == Exchange!Editing(hooks, k, v)
  <2>1. /\ UNCHANGED <<hist, world, calls>> /\ events > 0 /\ events' = events - 1
        /\ hooks' = Exchange!Rendered(h) /\ hooks.editingIndex # k
    BY <1>8 DEF Exchange!startEdit
  <2>2. h = [hooks EXCEPT !.editingIndex = k, !.editValue = v]
    BY DEF Exchange!Editing
  <2>. HIDE DEF h, v
  <2>3. /\ DOMAIN h = ExchangeHooks /\ SameTables(h, [hooks EXCEPT !.searchQuery = h.searchQuery])
        /\ h.searchQuery = hooks.searchQuery /\ h.activeTab = hooks.activeTab
        /\ h.loading = hooks.loading /\ h.editingIndex = k
        /\ h.tableData = hooks.tableData /\ h.searchResults = hooks.searchResults
    BY <1>0, <2>2 DEF ExchangeHooks, SameTables
  <2>4. k # Null
    BY NullAssumption
  <2>5. Exchange!Remounted(h)
    BY <2>1, <2>3 DEF Exchange!Remounted
  <2>. QED
    BY <1>3, <1>4, <1>5, <2>1, <2>3, <2>4, <2>5
<1>9. CASE Exchange!PressEscape
  <2>. DEFINE h == Exchange!Editing(hooks, Null, Null)
  <2>1. /\ UNCHANGED <<hist, world, calls>> /\ events > 0 /\ events' = events - 1
        /\ hooks' = Exchange!Rendered(h)
    BY <1>9 DEF Exchange!PressEscape
  <2>2. h = [hooks EXCEPT !.editingIndex = Null, !.editValue = Null]
    BY DEF Exchange!Editing
  <2>. HIDE DEF h
  <2>3. /\ DOMAIN h = ExchangeHooks /\ SameTables(h, [hooks EXCEPT !.searchQuery = h.searchQuery])
        /\ h.searchQuery = hooks.searchQuery /\ h.activeTab = hooks.activeTab
        /\ h.loading = hooks.loading /\ h.editingIndex = Null /\ h.editValue \in Text
    BY <1>0, <2>2 DEF ExchangeHooks, SameTables, Text
  <2>4. ~Exchange!EditorShown(h)
    BY <2>3 DEF Exchange!EditorShown
  <2>. QED
    BY <1>3, <1>4, <1>5, <2>1, <2>3, <2>4
\* The editor that has the focus, or gets it back, without being mounted anew.
<1>10. CASE Exchange!TypeValue \/ Exchange!PressEnter \/ Exchange!Blur \/ Exchange!Refocus
  <2>. DEFINE d == Exchange!Call("exchange.setValue",
                                 [index |-> hooks'.editingIndex, value |-> hooks'.editValue])
  <2>1. /\ UNCHANGED <<hist, world>> /\ (events' = events \/ (events > 0 /\ events' = events - 1))
        /\ hooks' \in {[hooks EXCEPT !.editValue = [cell |-> hooks.editingIndex, text |-> "new"]],
                       hooks, [hooks EXCEPT !.focus = FALSE], [hooks EXCEPT !.focus = TRUE]}
        /\ hooks.focus \/ Exchange!EditorShown(hooks)
    BY <1>10 DEF Exchange!TypeValue, Exchange!PressEnter, Exchange!Blur, Exchange!Refocus,
       Exchange!saveEdit
  <2>2. /\ DOMAIN hooks' = DOMAIN hooks
        /\ SameTables(hooks', [hooks EXCEPT !.searchQuery = hooks'.searchQuery])
        /\ hooks'.searchQuery = hooks.searchQuery /\ hooks'.loading = hooks.loading
        /\ hooks'.activeTab = hooks.activeTab /\ hooks'.focus \in BOOLEAN
        /\ hooks'.editingIndex = hooks.editingIndex
        /\ hooks'.tableData = hooks.tableData /\ hooks'.searchResults = hooks.searchResults
    BY <1>0, <1>5, <2>1 DEF SameTables, ExchangeHooks
  <2>3. Exchange!EditorShown(hooks) /\ Exchange!EditorShown(hooks')
    BY <1>0, <2>1, <2>2 DEF EditorWaits, Exchange!EditorShown, Exchange!IsShown, Exchange!Entries
  <2>4. hooks'.editingIndex # Null
    BY <2>3 DEF Exchange!EditorShown
  <2>5. \/ calls' = calls /\ hooks'.focus
        \/ calls' = Append(calls, d)
    <3>1. CASE Exchange!TypeValue \/ Exchange!Refocus
      <4>1. calls' = calls
        BY <3>1 DEF Exchange!TypeValue, Exchange!Refocus
      <4>2. hooks'.focus
        BY <1>0, <1>5, <3>1 DEF Exchange!TypeValue, Exchange!Refocus, ExchangeHooks
      <4>. QED
        BY <4>1, <4>2
    <3>2. CASE Exchange!PressEnter \/ Exchange!Blur
      BY <3>2 DEF Exchange!PressEnter, Exchange!Blur, Exchange!saveEdit
    <3>. QED
      BY <1>10, <3>1, <3>2
  <2>6. PICK e : e = d
    OBVIOUS
  <2>7. JustSent(e) /\ e.op = "exchange.setValue" /\ ((calls' = calls /\ hooks'.focus) \/ calls' = Append(calls, e))
    BY <1>3, <2>5, <2>6
  <2>. HIDE DEF d
  <2>. QED
    BY <1>2, <1>5, <2>1, <2>2, <2>3, <2>4, <2>7
<1>11. ASSUME NEW i \in DOMAIN calls, Exchange!TableRead(i)
       PROVE  StepTyped /\ ExchangeInv'
  <2>. DEFINE v == calls[i].answer.value
  <2>1. calls[i].op \in TableReads /\ UNCHANGED <<world, events>> /\ calls' = Without(i)
    BY <1>11, <1>w DEF Exchange!TableRead, TableReads
  <2>2. /\ calls[i] \in ToSet(calls) /\ ToSet(calls') \subseteq ToSet(calls)
        /\ ToSet(calls) \subseteq ToSet(calls') \cup {calls[i]}
    BY <2>1, CallSets
  <2>3. (\E c \in ToSet(calls) : c.op = "exchange.setValue")
           => \E c \in ToSet(calls') : c.op = "exchange.setValue"
    BY <2>1, <2>2 DEF TableReads
  <2>4. CASE ~Exchange!IsFulfilled(i)
    <3>1. hooks' = [hooks EXCEPT !.loading = FALSE] /\ hist' = [hist EXCEPT !.disturbed = TRUE]
      BY <1>11, <2>4 DEF Exchange!TableRead, Exchange!Disturbed
    <3>2. /\ DOMAIN hooks' = ExchangeHooks /\ hooks'.page = hooks.page
          /\ hooks'.searchQuery = hooks.searchQuery /\ hooks'.loading = FALSE
          /\ hooks'.activeTab = hooks.activeTab /\ hooks'.focus = hooks.focus
          /\ hooks'.editingIndex = hooks.editingIndex /\ hooks'.editValue = hooks.editValue
          /\ hooks'.tableData = hooks.tableData /\ hooks'.searchResults = hooks.searchResults
      BY <1>0, <3>1 DEF ExchangeHooks
    <3>3. hist'.disturbed /\ hist' \in [acked : Nat, seen : Nat, disturbed : BOOLEAN]
      BY <1>h, <3>1
    <3>4. (Exchange!TypeOK)'
      BY <1>1, <1>5, <3>2, <3>3
    <3>5. EditorWaits'
      BY <1>0, <2>3, <3>2 DEF EditorWaits, Exchange!EditorShown, Exchange!IsShown, Exchange!Entries
    <3>6. StepTyped
      BY <2>1, <2>2, <3>2, CalmTyped
    <3>. QED
      BY <1>0, <2>2, <3>2, <3>3, <3>4, <3>5, <3>6 DEF ExchangeInv, TablesKnown
  <2>5. CASE Exchange!IsFulfilled(i)
    <3>1. PICK h : /\ hooks' = Exchange!Rendered(h)
                   /\ \/ /\ calls[i].op = "exchange.getTable"
                         /\ h = [hooks EXCEPT !.tableData = v.table, !.loading = FALSE]
                      \/ /\ calls[i].op = "exchange.search"
                         /\ h = [hooks EXCEPT !.searchResults = v.table, !.loading = FALSE]
      BY <1>11, <2>5 DEF Exchange!TableRead, Exchange!Value
    <3>2. hist' = [hist EXCEPT !.seen = IF v.rev > @ THEN v.rev ELSE @,
                               !.disturbed = @ \/ v.rev < hist.seen]
      BY <1>11, <2>5 DEF Exchange!TableRead, Exchange!Value, Exchange!Seen
    <3>3. v.rev \in Nat /\ v.table # Null /\ calls[i].answer.state = "fulfilled"
      <4>1. CallOK(calls[i])
        BY <2>2 DEF IInv, InFlight
      <4>2. v.table \in OwnTables \cup OwnRows
        BY <2>1, <2>5, <4>1 DEF CallOK, ValueOK, TableReads, Exchange!IsFulfilled
      <4>. QED
        BY <1>0, <1>t, <2>1, <2>5, <4>2, TablesAreShown DEF Exchange!IsFulfilled, Typed, TypedValue
    <3>. HIDE DEF v
    <3>4. /\ DOMAIN h = ExchangeHooks /\ h.page = hooks.page /\ h.searchQuery = hooks.searchQuery
          /\ h.loading = FALSE /\ h.activeTab = hooks.activeTab /\ h.focus = hooks.focus
          /\ h.editingIndex = hooks.editingIndex /\ h.editValue = hooks.editValue
          /\ \/ /\ calls[i].op = "exchange.getTable"
                /\ h.tableData = v.table /\ h.searchResults = hooks.searchResults
             \/ /\ calls[i].op = "exchange.search"
                /\ h.tableData = hooks.tableData /\ h.searchResults = v.table
      BY <1>0, <3>1 DEF ExchangeHooks
    <3>5. /\ SameTables(hooks', h) /\ hooks'.activeTab = h.activeTab /\ hooks'.loading = h.loading
          /\ hooks'.editingIndex = h.editingIndex /\ hooks'.editValue = h.editValue
          /\ hooks'.focus = (Exchange!EditorShown(h) /\ (h.focus \/ Exchange!Remounted(h)))
          /\ Exchange!EditorShown(hooks') = Exchange!EditorShown(h)
      <4>. DEFINE g == Exchange!Rendered(h)
      <4>1. g = Exchange!Rendered(h) /\ hooks' = g
        BY <3>1
      <4>. HIDE DEF g
      <4>. QED
        BY <3>4, <4>1, RenderedShape
    \* The focus is lost with the row only, and then the editor is not shown.
    <3>6. Exchange!EditorShown(hooks') /\ ~hooks'.focus => Exchange!EditorShown(hooks) /\ ~hooks.focus
      BY <3>4, <3>5 DEF Exchange!Remounted
    <3>7. EditorWaits'
      BY <1>0, <2>3, <3>4, <3>5, <3>6 DEF EditorWaits
    <3>8. /\ hist' \in [acked : Nat, seen : Nat, disturbed : BOOLEAN]
          /\ hist'.seen = (IF v.rev > hist.seen THEN v.rev ELSE hist.seen)
          /\ hist'.disturbed = (hist.disturbed \/ v.rev < hist.seen)
      BY <1>h, <3>2, <3>3
    <3>9. DOMAIN hooks' = ExchangeHooks /\ hooks'.page = hooks.page /\ hooks'.focus \in BOOLEAN
          /\ hooks'.searchQuery = hooks.searchQuery
      BY <3>4, <3>5 DEF SameTables, Exchange!EditorShown
    <3>10. (Exchange!TypeOK)'
      BY <1>1, <1>5, <3>4, <3>5, <3>8, <3>9
    <3>11. TablesKnown'
      <4>1. \/ /\ calls[i].op = "exchange.getTable"
               /\ hooks'.tableData = v.table /\ hooks'.searchResults = hooks.searchResults
            \/ /\ calls[i].op = "exchange.search"
               /\ hooks'.tableData = hooks.tableData /\ hooks'.searchResults = v.table
        BY <3>4, <3>5 DEF SameTables
      <4>2. world' = world /\ v = calls[i].answer.value
        BY <2>1 DEF v
      <4>. QED
        BY <1>0, <2>1, <3>3, <3>8, <4>1, <4>2, ReadKeepsKnown
    <3>12. StepTyped
      BY <2>1, <2>2, <3>9, CalmTyped
    <3>. QED
      BY <1>0, <2>2, <3>7, <3>9, <3>10, <3>11, <3>12 DEF ExchangeInv
  <2>. QED
    BY <2>4, <2>5
<1>12. ASSUME NEW i \in DOMAIN calls, Exchange!Saved(i)
       PROVE  StepTyped /\ ExchangeInv'
  <2>1. calls[i].op = "exchange.setValue" /\ UNCHANGED <<world, events>> /\ calls' = Without(i)
    BY <1>12, <1>w DEF Exchange!Saved
  <2>2. calls[i] \in ToSet(calls) /\ ToSet(calls') \subseteq ToSet(calls)
    BY <2>1, CallSets
  \* The editor is closed.
  <2>3. ASSUME NEW h, DOMAIN h = ExchangeHooks, h.page = hooks.page, h.searchQuery = hooks.searchQuery,
               h.loading = hooks.loading, h.activeTab = hooks.activeTab,
               hooks' = Exchange!EditOver(h), hist' \in [acked : Nat, seen : Nat, disturbed : BOOLEAN]
        PROVE  /\ DOMAIN hooks' = ExchangeHooks /\ (Exchange!TypeOK)' /\ EditorWaits' /\ StepTyped
               /\ hooks'.tableData = h.tableData /\ hooks'.searchResults = h.searchResults
    <3>. DEFINE e == Exchange!Editing(h, Null, Null)
                g == Exchange!Rendered(e)
    <3>1. e = [h EXCEPT !.editingIndex = Null, !.editValue = Null] /\ hooks' = g
      BY <2>3 DEF Exchange!EditOver, Exchange!Editing
    <3>2. g = Exchange!Rendered(e)
      OBVIOUS
    <3>. HIDE DEF e, g
    <3>3. /\ DOMAIN e = ExchangeHooks /\ SameTables(e, h) /\ e.editingIndex = Null /\ e.editValue = Null
          /\ e.activeTab = h.activeTab /\ e.loading = h.loading
      BY <2>3, <3>1 DEF ExchangeHooks, SameTables
    <3>4. /\ SameTables(g, e) /\ g.activeTab = e.activeTab /\ g.loading = e.loading
          /\ g.editingIndex = e.editingIndex /\ g.editValue = e.editValue
          /\ g.focus = (Exchange!EditorShown(e) /\ (e.focus \/ Exchange!Remounted(e)))
      BY <3>2, <3>3, RenderedShape
    <3>5. g.focus = FALSE
      BY <3>3, <3>4 DEF Exchange!EditorShown
    <3>6. /\ DOMAIN hooks' = ExchangeHooks /\ hooks'.page = hooks.page
          /\ hooks'.searchQuery = hooks.searchQuery /\ hooks'.loading = hooks.loading
          /\ hooks'.activeTab = hooks.activeTab /\ hooks'.editValue \in Text
          /\ hooks'.tableData = h.tableData /\ hooks'.searchResults = h.searchResults
          /\ hooks'.editingIndex = Null /\ hooks'.focus = FALSE
      BY <2>3, <3>1, <3>3, <3>4, <3>5 DEF SameTables, Text
    <3>7. EditorWaits'
      BY <3>6 DEF EditorWaits, Exchange!EditorShown
    <3>8. (Exchange!TypeOK)'
      BY <1>1, <1>5, <2>3, <3>6
    <3>9. StepTyped
      BY <2>1, <2>2, <3>6, CalmTyped
    <3>. QED
      BY <3>6, <3>7, <3>8, <3>9
  <2>4. CASE ~Exchange!IsFulfilled(i)
    <3>1. hooks' = Exchange!EditOver(hooks) /\ hist' = [hist EXCEPT !.disturbed = TRUE]
      BY <1>12, <2>4 DEF Exchange!Saved, Exchange!Disturbed
    <3>2. hist'.disturbed /\ hist' \in [acked : Nat, seen : Nat, disturbed : BOOLEAN]
      BY <1>h, <3>1
    <3>3. DOMAIN hooks' = ExchangeHooks /\ (Exchange!TypeOK)' /\ EditorWaits' /\ StepTyped
      BY <1>0, <2>3, <3>1, <3>2
    <3>. QED
      BY <1>0, <2>2, <3>2, <3>3 DEF ExchangeInv, TablesKnown
  <2>5. CASE Exchange!IsFulfilled(i)
    <3>1. PICK x, v : x = calls[i] /\ v = calls[i].answer.value
      OBVIOUS
    <3>. DEFINE td == Exchange!Patch(hooks.tableData, x.arg)
                sr == Exchange!Patch(hooks.searchResults, x.arg)
                h  == [hooks EXCEPT !.tableData = td, !.searchResults = sr]
    <3>2. /\ hooks' = Exchange!EditOver(h)
          /\ hist' = [hist EXCEPT !.seen = IF v.rev > @ THEN v.rev ELSE @,
                                  !.disturbed = @ \/ v.rev < hist.seen]
      BY <1>12, <2>5, <3>1 DEF Exchange!Saved, Exchange!Value, Exchange!Seen
    <3>. HIDE DEF td, sr
    <3>3. /\ DOMAIN h = ExchangeHooks /\ h.page = hooks.page /\ h.searchQuery = hooks.searchQuery
          /\ h.loading = hooks.loading /\ h.activeTab = hooks.activeTab
          /\ h.tableData = td /\ h.searchResults = sr
      BY <1>0 DEF ExchangeHooks
    <3>. HIDE DEF h
    <3>4. v.rev \in Nat /\ x.answer.state = "fulfilled"
      BY <1>0, <1>t, <2>1, <2>5, <3>1 DEF Exchange!IsFulfilled, Typed, TypedValue, Changing
    <3>5. /\ hist' \in [acked : Nat, seen : Nat, disturbed : BOOLEAN]
          /\ hist'.seen = (IF v.rev > hist.seen THEN v.rev ELSE hist.seen)
          /\ hist'.disturbed = (hist.disturbed \/ v.rev < hist.seen)
      BY <1>h, <3>2, <3>4
    <3>6. /\ DOMAIN hooks' = ExchangeHooks /\ (Exchange!TypeOK)' /\ EditorWaits' /\ StepTyped
          /\ hooks'.tableData = td /\ hooks'.searchResults = sr
      BY <2>3, <3>2, <3>3, <3>5
    <3>7. TablesKnown'
      <4>1. world' = world /\ v = x.answer.value /\ x.op = "exchange.setValue"
        BY <2>1, <3>1
      <4>2. hooks'.tableData = Exchange!Patch(hooks.tableData, x.arg)
            /\ hooks'.searchResults = Exchange!Patch(hooks.searchResults, x.arg)
        BY <3>6 DEF td, sr
      <4>. QED
        BY <1>0, <2>1, <3>1, <3>4, <3>5, <4>1, <4>2, SaveKeepsKnown
    <3>. QED
      BY <1>0, <2>2, <3>6, <3>7 DEF ExchangeInv
  <2>. QED
    BY <2>4, <2>5
<1>. QED
  BY <1>6, <1>7, <1>8, <1>9, <1>10, <1>11, <1>12 DEF Exchange!Next, Exchange!Clicks, Exchange!Continuations

-----------------------------------------------------------------------------
\* The types of the world w.
WorldTyped(w) ==
    /\ w.rev \in Nat /\ w.queue \subseteq Nat /\ w.table \in [Cells -> Text]
    /\ w.updates \in Nat /\ w.firing \subseteq Alerts
    /\ \A f \in w.files : FileTyped(f)

\* The operations whose answer tells when it was read.
Dated == PlainReads \cup Changing \cup TableReads \cup {"actions.list"}

\* What a change does to the world.
LEMMA EffectTyped ==
  ASSUME IInv, PInv, NEW c \in InFlight, NEW w \in Effects(c)
  PROVE  /\ WorldTyped(w) /\ w.rev = world.rev + 1 /\ c.op \in Changing
         /\ c.op # "exchange.setValue" => w.table = world.table
         /\ c.op = "exchange.setValue" =>
               /\ c.arg.index \in Cells
               /\ w.table = [world.table EXCEPT ![c.arg.index] = c.arg.value]
<1>. DEFINE u == [world EXCEPT !.rev = @ + 1]
<1>0. /\ CallOK(c) /\ Typed(c, world.rev) /\ WorldFits(world) /\ WorldOK
      /\ world.rev \in Nat
  BY DEF IInv, PInv, WorldOK
<1>1. /\ DOMAIN u = {"rev", "queue", "table", "files", "updates", "firing"}
      /\ u.rev = world.rev + 1 /\ u.queue = world.queue /\ u.table = world.table
      /\ u.files = world.files /\ u.updates = world.updates
      /\ u.firing = world.firing
  BY <1>0 DEF WorldFits
<1>2. WorldTyped(u)
  BY <1>0, <1>1 DEF WorldOK, WorldTyped, FileTyped
<1>3. CASE c.op \in {"services.restart", "redis.restore"}
  <2>1. w = u
    BY <1>3 DEF Effects
  <2>. HIDE DEF u
  <2>. QED
    BY <1>1, <1>2, <1>3, <2>1 DEF Changing
<1>4. CASE c.op = "exchange.setValue"
  <2>1. w = [u EXCEPT !.table[c.arg.index] = c.arg.value]
    BY <1>4 DEF Effects
  <2>2. c.arg.index \in Cells /\ c.arg.value \in Text
    BY <1>0, <1>4 DEF CallOK, ArgOK, TextsOf, Text
  <2>. HIDE DEF u
  <2>3. /\ w.table = [world.table EXCEPT ![c.arg.index] = c.arg.value]
        /\ w.rev = u.rev /\ w.queue = u.queue /\ w.files = u.files
        /\ w.updates = u.updates /\ w.firing = u.firing
    BY <1>1, <2>1
  <2>4. w.table \in [Cells -> Text]
    BY <1>0, <2>2, <2>3 DEF WorldOK
  <2>. QED
    BY <1>1, <1>2, <1>4, <2>2, <2>3, <2>4 DEF Changing, WorldTyped
<1>5. CASE c.op \in {"actions.push", "actions.remove", "actions.purge"}
  <2>1. \E q \in SUBSET Nat : w = [u EXCEPT !.queue = q]
    <3>1. CASE c.op = "actions.push"
      <4>1. w = [u EXCEPT !.queue = @ \cup {c.arg.guid}]
        BY <3>1 DEF Effects
      <4>2. c.arg.guid \in Nat
        BY <1>0, <3>1 DEF Typed
      <4>. QED
        BY <1>0, <1>1, <4>1, <4>2 DEF WorldOK
    <3>2. CASE c.op = "actions.remove"
      <4>1. w = [u EXCEPT !.queue = @ \ {c.arg.guid}]
        BY <3>2 DEF Effects
      <4>. QED
        BY <1>0, <1>1, <4>1 DEF WorldOK
    <3>3. CASE c.op = "actions.purge"
      <4>1. w = [u EXCEPT !.queue = {}]
        BY <3>3 DEF Effects
      <4>. QED
        BY <4>1
    <3>. QED
      BY <1>5, <3>1, <3>2, <3>3
  <2>2. PICK q \in SUBSET Nat : w = [u EXCEPT !.queue = q]
    BY <2>1
  <2>. HIDE DEF u
  <2>3. /\ w.queue = q /\ w.table = u.table
        /\ w.rev = u.rev /\ w.files = u.files
        /\ w.updates = u.updates /\ w.firing = u.firing
    BY <1>1, <2>2
  <2>. QED
    BY <1>1, <1>2, <1>5, <2>3 DEF Changing, WorldTyped
<1>. QED
  BY <1>3, <1>4, <1>5 DEF Effects

\* A table, or rows of it, as the control plane holds them.
Current(table) == \A k \in DOMAIN table : table[k] = world.table[k]

\* What an endpoint that changes nothing answers.
LEMMA BodyTyped ==
  ASSUME IInv, PInv, NEW c, NEW b \in Bodies(c)
  PROVE  /\ c.op \notin Changing /\ TypedValue(c, b, world.rev)
         /\ c.op \in Dated => b.rev = world.rev
         /\ c.op \in TableReads => Current(b.table)
<1>0. WorldFits(world) /\ WorldOK /\ world.rev \in Nat /\ world.rev \in 0 .. world.rev
  BY DEF IInv, PInv, WorldOK
<1>. USE DEF Changing, Dated, PlainReads, TableReads
<1>1. CASE c.op \in PlainReads
  <2>1. b = [rev |-> world.rev]
    BY <1>1 DEF Bodies
  <2>. QED
    BY <1>0, <1>1, <2>1 DEF TypedValue
<1>2. CASE c.op = "versions.history"
  <2>1. b \in [updates : Nat] \cup {Null}
    BY <1>0, <1>2 DEF Bodies, WorldOK
  <2>. QED
    BY <1>0, <1>2, <2>1 DEF TypedValue
<1>3. CASE c.op \in TableReads
  <2>1. b.rev = world.rev /\ Current(b.table)
    <3>1. CASE c.op = "exchange.getTable"
      <4>1. b = [rev |-> world.rev, table |-> world.table]
        BY <3>1 DEF Bodies
      <4>. QED
        BY <4>1 DEF Current
    <3>2. CASE c.op = "exchange.search"
      <4>1. PICK C \in SUBSET Cells :
              b = [rev |-> world.rev, table |-> [k \in C |-> world.table[k]]]
        BY <3>2 DEF Bodies
      <4>. QED
        BY <4>1 DEF Current
    <3>. QED
      BY <1>3, <3>1, <3>2
  <2>. QED
    BY <1>0, <1>3, <2>1 DEF TypedValue
<1>4. CASE c.op = "actions.list"
  <2>1. b = [rev |-> world.rev, guids |-> world.queue]
    BY <1>4 DEF Bodies
  <2>. QED
    BY <1>0, <1>4, <2>1 DEF TypedValue, WorldOK
<1>5. CASE c.op = "redis.backup"
  <2>1. b = Backup
    BY <1>5 DEF Bodies
  <2>. QED
    BY <1>0, <1>5, <2>1 DEF TypedValue, FileTyped
<1>6. CASE c.op = "prometheus.alerts"
  <2>1. b = [firing |-> world.firing]
    BY <1>6 DEF Bodies
  <2>. QED
    BY <1>0, <1>6, <2>1 DEF TypedValue, WorldOK
<1>7. CASE c.op \in {"logs.get", "file.text", "prometheus.queryRange"}
  BY <1>7 DEF Bodies, TypedValue
<1>. QED
  BY <1>1, <1>2, <1>3, <1>4, <1>5, <1>6, <1>7 DEF Bodies

\* What becomes of a call c that is answered, d, and of the world.
Served(c, d, w) ==
    /\ WorldTyped(w) /\ world.rev \in Nat /\ world.rev <= w.rev
    /\ d.op = c.op /\ d.arg = c.arg /\ d.answer.state \in {"rejected", "fulfilled"}
    /\ Typed(d, w.rev)
    /\ c.op \in Dated /\ d.answer.state = "fulfilled" => d.answer.value.rev = w.rev
    /\ c.op \in TableReads => w = world
    /\ c.op \in TableReads /\ d.answer.state = "fulfilled" => Current(d.answer.value.table)
    /\ c.op = "exchange.setValue" /\ d.answer.state = "fulfilled" =>
          /\ w.rev = world.rev + 1 /\ c.arg.index \in Cells
          /\ w.table = [world.table EXCEPT ![c.arg.index] = c.arg.value]

\* It is one of these outcomes.
LEMMA OutcomeTyped ==
  ASSUME IInv, PInv, NEW c \in InFlight, NEW o \in Outcomes(c)
  PROVE  Served(c, [c EXCEPT !.answer = Promise(c.op, o.response)], o.world)
<1>. DEFINE p == Promise(c.op, o.response)
            d == [c EXCEPT !.answer = p]
<1>. SUFFICES Served(c, d, o.world)
  OBVIOUS
<1>0. /\ CallOK(c) /\ Typed(c, world.rev) /\ WorldFits(world) /\ WorldOK
      /\ world.rev \in Nat
  BY DEF IInv, PInv, WorldOK
<1>1. d.op = c.op /\ d.arg = c.arg /\ d.answer = p
  BY <1>0 DEF CallOK
<1>2. WorldTyped(world)
  BY <1>0 DEF WorldTyped, WorldOK, FileTyped
<1>3. ASSUME NEW v, NEW r
      PROVE  TypedValue(c, v, r) => TypedValue(d, v, r)
  BY <1>1 DEF TypedValue
<1>g. c.op \in {"actions.push", "actions.remove"} => d.arg.guid \in Nat
  BY <1>0, <1>1 DEF Typed
<1>4. ASSUME NEW w, WorldTyped(w), w = world \/ w.rev = world.rev + 1,
             c.op \in TableReads => w = world, p.state = "rejected", o.world = w
      PROVE  Served(c, d, o.world)
  <2>1. world.rev <= w.rev
    BY <1>0, <1>4
  <2>2. Typed(d, w.rev)
    BY <1>1, <1>4, <1>g DEF Typed
  <2>. HIDE DEF d, p
  <2>. QED
    BY <1>0, <1>1, <1>4, <2>1, <2>2 DEF Served
<1>5. CASE \E b \in Bodies(c) : o = [world |-> world, response |-> Ok(b)]
  <2>1. PICK b \in Bodies(c) : o = [world |-> world, response |-> Ok(b)]
    BY <1>5
  <2>2. p = [state |-> "fulfilled", value |-> b]
    BY <2>1 DEF Promise, fetchJSON, fetchUnchecked, Ok, Fulfilled
  <2>3. /\ c.op \notin Changing /\ TypedValue(c, b, world.rev)
        /\ c.op \in Dated => b.rev = world.rev
        /\ c.op \in TableReads => Current(b.table)
    BY BodyTyped
  <2>4. c.op # "exchange.setValue"
    BY <2>3 DEF Changing
  <2>5. o.world = world /\ p.state = "fulfilled" /\ p.value = b
    BY <2>1, <2>2
  <2>6. Typed(d, world.rev)
    <3>1. TypedValue(d, b, world.rev)
      BY <1>3, <2>3
    <3>. HIDE DEF d, p
    <3>. QED
      BY <1>1, <1>g, <2>5, <3>1 DEF Typed
  <2>. HIDE DEF d, p
  <2>. QED
    BY <1>0, <1>1, <1>2, <2>3, <2>4, <2>5, <2>6 DEF Served
<1>6. CASE o = [world |-> world, response |-> Error]
  <2>1. o.world = world
    BY <1>6
  <2>2. CASE c.op # "redis.backup"
    <3>1. p.state = "rejected"
      BY <1>6, <2>2 DEF Promise, fetchJSON, Error, Rejected
    <3>. QED
      BY <1>2, <1>4, <2>1, <3>1
  <2>3. CASE c.op = "redis.backup"
    <3>1. p.state = "fulfilled" /\ p.value = ErrorObject
      BY <1>6, <2>3 DEF Promise, fetchUnchecked, Error, Fulfilled
    <3>2. FileTyped(ErrorObject)
      BY DEF FileTyped
    <3>3. c.op \notin Dated /\ c.op \notin TableReads /\ c.op # "exchange.setValue"
      BY <2>3 DEF Dated, PlainReads, Changing, TableReads
    <3>. HIDE DEF d, p
    <3>4. TypedValue(d, p.value, world.rev)
      BY <1>1, <2>3, <3>1, <3>2 DEF TypedValue, PlainReads, Changing, TableReads
    <3>5. Typed(d, world.rev)
      BY <1>1, <1>g, <3>1, <3>4 DEF Typed
    <3>. QED
      BY <1>0, <1>1, <1>2, <2>1, <3>1, <3>3, <3>5 DEF Served
  <2>. QED
    BY <2>2, <2>3
<1>7. CASE \E w \in {world} \cup Effects(c) : o = [world |-> w, response |-> NoResponse]
  <2>1. PICK w \in {world} \cup Effects(c) : o = [world |-> w, response |-> NoResponse]
    BY <1>7
  <2>2. p.state = "rejected" /\ o.world = w
    BY <2>1 DEF Promise, fetchJSON, fetchUnchecked, NoResponse, Fulfilled, Rejected
  <2>3. CASE w = world
    BY <1>2, <1>4, <2>2, <2>3
  <2>4. CASE w \in Effects(c)
    <3>1. WorldTyped(w) /\ w.rev = world.rev + 1 /\ c.op \in Changing
      BY <2>4, EffectTyped
    <3>2. c.op \notin TableReads
      BY <3>1 DEF Changing, TableReads
    <3>. HIDE DEF d, p
    <3>. QED
      BY <1>4, <2>2, <3>1, <3>2
  <2>. QED
    BY <2>1, <2>3, <2>4
<1>8. CASE \E w \in Effects(c) : o = [world |-> w, response |-> Ok([rev |-> world.rev + 1])]
  <2>1. PICK w \in Effects(c) : o = [world |-> w, response |-> Ok([rev |-> world.rev + 1])]
    BY <1>8
  <2>2. /\ WorldTyped(w) /\ w.rev = world.rev + 1 /\ c.op \in Changing
        /\ c.op = "exchange.setValue" =>
               /\ c.arg.index \in Cells
               /\ w.table = [world.table EXCEPT ![c.arg.index] = c.arg.value]
    BY EffectTyped
  <2>3. c.op \notin TableReads /\ c.op # "redis.backup"
    BY <2>2 DEF Changing, TableReads
  <2>4. o.world = w /\ p.state = "fulfilled" /\ p.value = [rev |-> world.rev + 1]
    BY <2>1, <2>3 DEF Promise, fetchJSON, Ok, Fulfilled
  <2>5. p.value.rev = w.rev /\ p.value \in [rev : 0 .. w.rev] /\ world.rev <= w.rev
    BY <1>0, <2>2, <2>4
  <2>6. Typed(d, w.rev)
    <3>1. c.op \notin {"actions.list", "versions.history", "redis.backup", "prometheus.alerts", "logs.get"}
      BY <2>2 DEF Changing
    <3>. HIDE DEF d, p
    <3>. QED
      BY <1>1, <1>g, <2>3, <2>5, <3>1 DEF Typed, TypedValue
  <2>. HIDE DEF d, p
  <2>. QED
    BY <1>0, <1>1, <2>2, <2>3, <2>4, <2>5, <2>6 DEF Served
<1>. QED
  BY <1>5, <1>6, <1>7, <1>8 DEF Outcomes

-----------------------------------------------------------------------------
\* A call is answered: the i-th becomes d, and nothing else of the page changes.
AnsweredAs(i, d) ==
    /\ calls[i].answer.state = "pending" /\ Served(calls[i], d, world')
    /\ DOMAIN calls' = DOMAIN calls /\ Len(calls') = Len(calls)
    /\ calls' = [calls EXCEPT ![i] = d] /\ UNCHANGED <<hooks, hist, events, route, left>>
    /\ \A j \in DOMAIN calls : /\ calls'[j] = IF j = i THEN d ELSE calls[j]
                               /\ calls'[j].op = calls[j].op /\ calls'[j].arg = calls[j].arg
    /\ d \in ToSet(calls') /\ ToSet(calls') \subseteq ToSet(calls) \cup {d}
    /\ \A c \in ToSet(calls) : c = calls[i] \/ c \in ToSet(calls')

LEMMA SomeCallIsAnswered ==
  ASSUME IInv, PInv, Answered
  PROVE  \E i \in DOMAIN calls : \E d : AnsweredAs(i, d)
<1>1. PICK i \in DOMAIN calls : Serve(i)
  BY DEF Answered, Answer
<1>2. PICK o \in Outcomes(calls[i]) :
        /\ world' = o.world
        /\ calls' = [calls EXCEPT ![i].answer = Promise(calls[i].op, o.response)]
  BY <1>1 DEF Serve
<1>. DEFINE d == [calls[i] EXCEPT !.answer = Promise(calls[i].op, o.response)]
<1>3. calls \in Seq(ToSet(calls)) /\ calls[i] \in ToSet(calls) /\ calls[i] \in InFlight
  BY DEF IInv, InFlight, ToSet
<1>4. Served(calls[i], d, world')
  BY <1>2, <1>3, OutcomeTyped
<1>5. calls' = [calls EXCEPT ![i] = d]
  BY <1>2
<1>. HIDE DEF d
<1>6. DOMAIN calls' = DOMAIN calls
      /\ \A j \in DOMAIN calls : calls'[j] = IF j = i THEN d ELSE calls[j]
  BY <1>5
<1>7. d \in ToSet(calls') /\ ToSet(calls') \subseteq ToSet(calls) \cup {d}
      /\ \A c \in ToSet(calls) : c = calls[i] \/ c \in ToSet(calls')
  BY <1>6 DEF ToSet
<1>8. Len(calls') = Len(calls)
  <2>1. Len(calls) \in Nat /\ DOMAIN calls = 1 .. Len(calls)
    BY <1>3, LenProperties
  <2>. DEFINE S == ToSet(calls) \cup {d}
  <2>2. calls \in Seq(S) /\ d \in S
    BY <1>3, SeqMonotonic
  <2>. HIDE DEF S
  <2>3. calls' \in Seq(S) /\ Len(calls') = Len(calls)
    BY <1>5, <2>1, <2>2, ExceptSeq
  <2>. QED
    BY <2>3
<1>9. calls[i].answer.state = "pending"
  BY <1>1 DEF Serve, Pending
<1>10. \A j \in DOMAIN calls : calls'[j].op = calls[j].op /\ calls'[j].arg = calls[j].arg
  BY <1>4, <1>6 DEF Served
<1>11. UNCHANGED <<hooks, hist, events, route, left>>
  BY <1>1 DEF Answered, Serve
<1>. QED
  BY <1>4, <1>5, <1>6, <1>7, <1>8, <1>9, <1>10, <1>11 DEF AnsweredAs

\* What is due stays due when a call is answered.
LEMMA AnswerStaysDue ==
  ASSUME NEW i \in DOMAIN calls, NEW d, AnsweredAs(i, d), NEW op \in Dated, NEW n \in Nat,
         n <= world.rev, Due(op, n)
  PROVE  \E c \in ToSet(calls') :
            c.op = op /\ (c.answer.state = "fulfilled" => c.answer.value.rev >= n)
<1>1. PICK c \in ToSet(calls) :
        c.op = op /\ (c.answer.state = "fulfilled" => c.answer.value.rev >= n)
  BY DEF Due
<1>2. CASE c \in ToSet(calls')
  BY <1>1, <1>2
<1>3. CASE c = calls[i]
  <2>1. d.op = op /\ d \in ToSet(calls')
    BY <1>1, <1>3 DEF AnsweredAs, Served
  <2>2. d.answer.state = "fulfilled" => d.answer.value.rev = world'.rev
    BY <1>1, <1>3 DEF AnsweredAs, Served
  <2>3. world'.rev \in Nat /\ world.rev \in Nat /\ world.rev <= world'.rev
    BY DEF AnsweredAs, Served, WorldTyped
  <2>4. world'.rev >= n
    BY <2>3
  <2>. QED
    BY <2>1, <2>2, <2>4
<1>. QED
  BY <1>2, <1>3 DEF AnsweredAs

\* An answer is typed, and so is the world it leaves.
LEMMA AnswerTyped ==
  ASSUME IInv, PInv, NEW i \in DOMAIN calls, NEW d, AnsweredAs(i, d)
  PROVE  StepTyped /\ \A c \in ToSet(calls') : c.op \in {x.op : x \in ToSet(calls)}
<1>1. WorldTyped(world') /\ Typed(d, world'.rev) /\ world.rev \in Nat /\ world.rev <= world'.rev
      /\ d.op = calls[i].op
  BY DEF AnsweredAs, Served
<1>2. WorldOK'
  BY <1>1 DEF WorldTyped, WorldOK, FileTyped
<1>3. hooks'.page = hooks.page /\ events' \in Nat
  BY DEF AnsweredAs, PInv
<1>4. world'.rev \in Nat
  BY <1>1 DEF WorldTyped
<1>5. \A c \in ToSet(calls') : c \in ToSet(calls) \/ c = d
  BY DEF AnsweredAs
<1>6. calls[i] \in ToSet(calls)
  BY DEF ToSet
<1>. QED
  BY <1>1, <1>2, <1>3, <1>4, <1>5, <1>6 DEF StepTyped

\* What is known of the pages that show a list is kept by an answer.
LEMMA AnswerKeepsLists ==
  ASSUME IInv, PInv, NEW i \in DOMAIN calls, NEW d, AnsweredAs(i, d)
  PROVE  /\ hooks.page = "dashboard" => DashboardInv'
         /\ hooks.page = "actions"   => ActionsInv'
         /\ hooks.page = "redis"     => RedisMonitorInv'
         /\ hooks.page = "versions"  => VersionsInv'
<1>0. /\ hooks' = hooks /\ hist' = hist /\ world.rev \in Nat /\ world'.rev \in Nat
      /\ world.rev <= world'.rev
  BY DEF AnsweredAs, Served, WorldTyped
<1>1. CASE hooks.page = "dashboard"
  <2>0. DashboardInv
    BY <1>1 DEF PInv
  <2>1. (Dashboard!TypeOK)'
    BY <1>0, <2>0 DEF DashboardInv, Dashboard!TypeOK, Dashboard!HistoryOK
  <2>2. hist.acked \in Nat /\ hist.acked <= world'.rev
    BY <1>0, <2>0 DEF DashboardInv, Dashboard!TypeOK, Dashboard!HistoryOK
  <2>3. (\A c \in ToSet(calls) : c.arg \in Services) => \A c \in ToSet(calls') : c.arg \in Services
    BY DEF AnsweredAs, ToSet
  <2>4. LoadLeads(calls) => LoadLeads(calls')
    <3>. SUFFICES ASSUME LoadLeads(calls) PROVE LoadLeads(calls')
      OBVIOUS
    <3>1. calls \in Seq(ToSet(calls)) /\ Len(calls) \in Nat /\ DOMAIN calls = 1 .. Len(calls)
      BY LenProperties DEF IInv
    <3>2. 1 \in DOMAIN calls /\ 2 \in DOMAIN calls /\ \A j \in 3 .. Len(calls) : j \in DOMAIN calls
      BY <3>1 DEF LoadLeads
    <3>. QED
      BY <3>2 DEF LoadLeads, AnsweredAs
  <2>5. LoadsFirst(calls')
    BY <2>0, <2>3, <2>4 DEF DashboardInv, LoadsFirst
  <2>6. \A c \in ToSet(calls') : c.op \in {"services.list", "versions.list", "services.restart"}
    BY <2>0, AnswerTyped DEF DashboardInv
  <2>7. hooks.restarting # Null => \E c \in ToSet(calls') : c.arg = hooks.restarting
    BY <2>0 DEF DashboardInv, AnsweredAs, Served
  <2>8. Due("services.list", hist.acked) =>
           \E c \in ToSet(calls') : c.op = "services.list"
              /\ (c.answer.state = "fulfilled" => c.answer.value.rev >= hist.acked)
    <3>1. "services.list" \in Dated /\ hist.acked <= world.rev
      BY <2>0 DEF DashboardInv, Dated, PlainReads
    <3>. QED
      BY <2>2, <3>1, AnswerStaysDue
  <2>9. (~hist.disturbed => Due("services.list", hist.acked)
                            \/ UpToDate(hooks.servicesList, hist.acked))'
    BY <1>0, <2>0, <2>8 DEF DashboardInv, Due, UpToDate
  <2>. QED
    BY <1>0, <1>1, <2>0, <2>1, <2>2, <2>5, <2>6, <2>7, <2>9 DEF DashboardInv
<1>2. CASE hooks.page = "actions"
  <2>0. ActionsInv
    BY <1>2 DEF PInv
  <2>1. (Actions!TypeOK)'
    BY <1>0, <2>0 DEF ActionsInv, Actions!TypeOK, Actions!HistoryOK
  <2>2. hist.acked \in Nat /\ hist.acked <= world'.rev
    BY <1>0, <2>0 DEF ActionsInv, Actions!TypeOK, Actions!HistoryOK
  <2>8. Due("actions.list", hist.acked) =>
           \E c \in ToSet(calls') : c.op = "actions.list"
              /\ (c.answer.state = "fulfilled" => c.answer.value.rev >= hist.acked)
    <3>1. "actions.list" \in Dated /\ hist.acked <= world.rev
      BY <2>0 DEF ActionsInv, Dated
    <3>. QED
      BY <2>2, <3>1, AnswerStaysDue
  <2>9. (~hist.disturbed => Due("actions.list", hist.acked) \/ UpToDate(hooks.data, hist.acked))'
    BY <1>0, <2>0, <2>8 DEF ActionsInv, Due, UpToDate
  <2>. QED
    BY <1>0, <1>2, <2>0, <2>1, <2>2, <2>9 DEF ActionsInv
<1>3. CASE hooks.page = "redis"
  <2>0. RedisMonitorInv
    BY <1>3 DEF PInv
  <2>1. (RedisMonitor!TypeOK)'
    BY <1>0, <2>0 DEF RedisMonitorInv, RedisMonitor!TypeOK
  <2>2. hist.acked \in Nat /\ hist.acked <= world'.rev /\ hist.entered \in Nat
        /\ hist.entered <= world'.rev
    BY <1>0, <2>0 DEF RedisMonitorInv, RedisMonitor!TypeOK
  <2>8. Due("redis.keys", hist.entered) =>
           \E c \in ToSet(calls') : c.op = "redis.keys"
              /\ (c.answer.state = "fulfilled" => c.answer.value.rev >= hist.entered)
    <3>1. "redis.keys" \in Dated /\ hist.entered <= world.rev
      BY <2>0 DEF RedisMonitorInv, Dated, PlainReads
    <3>. QED
      BY <2>2, <3>1, AnswerStaysDue
  <2>9. (~hist.disturbed /\ hooks.activeTab = "keys" =>
            Due("redis.keys", hist.entered) \/ UpToDate(hooks.keys, hist.entered))'
    BY <1>0, <2>0, <2>8 DEF RedisMonitorInv, Due, UpToDate
  <2>10. (RedisMonitor!OneRestoreAtATime)'
    <3>1. DOMAIN calls' = DOMAIN calls /\ \A j \in DOMAIN calls : calls'[j].op = calls[j].op
      BY DEF AnsweredAs
    <3>. QED
      BY <1>0, <2>0, <3>1
         DEF RedisMonitorInv, RedisMonitor!OneRestoreAtATime, RedisMonitor!Restoring
  <2>. QED
    BY <1>0, <1>3, <2>0, <2>1, <2>2, <2>9, <2>10 DEF RedisMonitorInv
<1>4. CASE hooks.page = "versions"
  <2>0. VersionsInv
    BY <1>4 DEF PInv
  <2>1. (Versions!TypeOK)'
    BY <1>0, <2>0 DEF VersionsInv, Versions!TypeOK, Versions!HistoryOK
  <2>2. (\E c \in ToSet(calls) : c.op = "versions.list")
          => \E c \in ToSet(calls') : c.op = "versions.list"
    BY DEF AnsweredAs, Served
  <2>9. (~hist.disturbed =>
            \/ UpToDate(hooks.versionList, hist.acked)
            \/ /\ hooks.versionList = Null /\ hist.acked = 0
               /\ \E c \in ToSet(calls) : c.op = "versions.list")'
    BY <1>0, <2>0, <2>2 DEF VersionsInv, UpToDate
  <2>. QED
    BY <1>0, <1>4, <2>0, <2>1, <2>9 DEF VersionsInv
<1>. QED
  BY <1>1, <1>2, <1>3, <1>4

\* What is known of the logs is kept by an answer.
LEMMA AnswerKeepsLogs ==
  ASSUME IInv, PInv, NEW i \in DOMAIN calls, NEW d, AnsweredAs(i, d), hooks.page = "logs"
  PROVE  LogsInv'
<1>0. LogsInv /\ hooks' = hooks /\ hist' = hist
  BY DEF PInv, AnsweredAs
<1>1. (Logs!TypeOK)'
  BY <1>0 DEF LogsInv, Logs!TypeOK
<1>2. \A c \in ToSet(calls') : c.op = "logs.get" => c.arg \in Services
  BY <1>0 DEF LogsInv, AnsweredAs, ToSet
<1>3. (\A c \in ToSet(calls) : c.op # "logs.get") => \A c \in ToSet(calls') : c.op # "logs.get"
  BY DEF AnsweredAs, ToSet
<1>4. LastForSelected => LastForSelected'
  <2>. SUFFICES ASSUME LastForSelected PROVE LastForSelected'
    OBVIOUS
  <2>1. PICK k \in DOMAIN calls : /\ calls[k].op = "logs.get" /\ calls[k].arg = hooks.selectedService
                                  /\ \A j \in DOMAIN calls : j > k => calls[j].op # "logs.get"
    BY DEF LastForSelected, LastOf
  <2>2. /\ k \in DOMAIN calls' /\ calls'[k].op = "logs.get"
        /\ calls'[k].arg = hooks'.selectedService
        /\ \A j \in DOMAIN calls' : j > k => calls'[j].op # "logs.get"
    BY <1>0, <2>1 DEF AnsweredAs
  <2>3. calls'[k] \in ToSet(calls')
    BY <2>2 DEF ToSet
  <2>4. LastOf(calls', calls'[k], "logs.get")
    BY <2>2 DEF LastOf
  <2>. QED
    BY <2>2, <2>3, <2>4 DEF LastForSelected
<1>. QED
  BY <1>0, <1>1, <1>2, <1>3, <1>4 DEF LogsInv

\* What is known of the pages that keep no account of their calls, or one of
\* their operations only.
LEMMA AnswerKeepsOthers ==
  ASSUME IInv, PInv, NEW i \in DOMAIN calls, NEW d, AnsweredAs(i, d)
  PROVE  /\ hooks.page = "metrics" => MetricsInv'
         /\ hooks.page = "alerts"  => AlertsInv'
         /\ hooks.page = "clients" => ClientsInv'
         /\ hooks.page = "system"  => SystemInv'
<1>0. hooks' = hooks /\ hist' = hist
  BY DEF AnsweredAs
<1>1. CASE hooks.page = "metrics"
  BY <1>0, <1>1 DEF PInv, MetricsInv, Metrics!TypeOK
<1>2. CASE hooks.page = "clients"
  BY <1>0, <1>2 DEF PInv, ClientsInv, ClientsView!TypeOK
<1>3. CASE hooks.page = "system"
  BY <1>0, <1>3 DEF PInv, SystemInv, System!TypeOK
<1>4. CASE hooks.page = "alerts"
  <2>0. AlertsInv
    BY <1>4 DEF PInv
  <2>1. (AlertsView!TypeOK)'
    BY <1>0, <2>0 DEF AlertsInv, AlertsView!TypeOK
  <2>2. \A op : (\A c \in ToSet(calls) : c.op = op) => \A c \in ToSet(calls') : c.op = op
    BY DEF AnsweredAs, ToSet
  <2>. QED
    BY <1>0, <1>4, <2>0, <2>1, <2>2 DEF AlertsInv, AlertsView!AllClear
<1>. QED
  BY <1>1, <1>2, <1>3, <1>4

\* The tables agree as before when a call is answered: a read is answered with
\* what the control plane holds, a save that is answered has changed one cell
\* and is the newest for it, and anything else disturbs the page.
LEMMA AnswerKeepsAgreement ==
  ASSUME IInv, PInv, NEW i \in DOMAIN calls, NEW d, AnsweredAs(i, d), hooks.page = "exchange",
         ExchangeAgrees, d.answer.state = "fulfilled"
  PROVE  ExchangeAgrees'
<1>0. ExchangeInv /\ hooks' = hooks /\ hist' = hist /\ left' = left /\ world.rev \in Nat
      /\ world'.rev \in Nat /\ world.rev <= world'.rev /\ world.table \in [Cells -> Text]
  BY DEF PInv, AnsweredAs, Served, WorldTyped, WorldOK
<1>1. /\ calls[i].answer.state = "pending" /\ d.op = calls[i].op /\ d.arg = calls[i].arg
      /\ d \in ToSet(calls') /\ ToSet(calls') \subseteq ToSet(calls) \cup {d}
      /\ \A c \in ToSet(calls) : c = calls[i] \/ c \in ToSet(calls')
  BY DEF AnsweredAs, Served
<1>2. calls[i].op \in TableReads \cup {"exchange.setValue"}
  BY <1>0 DEF ExchangeInv, ToSet
<1>3. (left = EmptyBag)' /\ (hooks.tableData = Null =>
                                \E c \in ToSet(calls) : c.op = "exchange.getTable")'
  BY <1>0, <1>1 DEF ExchangeAgrees
<1>4. \A k : Unapplied(k) \subseteq ToSet(calls')
  <2>1. \A k : \A c \in Unapplied(k) : c.answer.state = "fulfilled"
    BY DEF Unapplied, AppliedSave
  <2>. QED
    BY <1>1, <2>1 DEF Unapplied
<1>5. \A k : Unapplied(k) \subseteq Unapplied(k)'
  BY <1>4 DEF Unapplied
<1>6. \A k : Unapplied(k)' \subseteq Unapplied(k) \cup {d}
  BY <1>1 DEF Unapplied
<1>7. CASE calls[i].op \in TableReads
  <2>1. world' = world /\ Current(d.answer.value.table)
    BY <1>7 DEF AnsweredAs, Served
  <2>2. \A k : Unapplied(k)' = Unapplied(k)
    <3>1. \A k : d \notin Unapplied(k)'
      BY <1>1, <1>7 DEF Unapplied, AppliedSave, TableReads
    <3>. QED
      BY <1>5, <1>6, <3>1
  <2>3. ASSUME NEW c \in ToSet(calls'), c.op \in TableReads, c.answer.state = "fulfilled"
        PROVE  AgreesSince(c.answer.value.table, c.answer.value.rev)'
    <3>1. CASE c = d
      BY <2>1, <3>1 DEF AgreesSince, Current
    <3>2. CASE c \in ToSet(calls)
      BY <2>1, <2>2, <2>3, <3>2 DEF ExchangeAgrees, AgreesSince
    <3>. QED
      BY <1>1, <3>1, <3>2
  <2>4. (\A table \in {hooks.tableData, hooks.searchResults} :
            table # Null => \A k \in DOMAIN table : Unapplied(k) = {} => table[k] = world.table[k])'
    BY <1>0, <2>1, <2>2 DEF ExchangeAgrees
  <2>5. (\A k \in Cells : \A c \in Unapplied(k) :
            \/ c.arg.value = world.table[k]
            \/ \E e \in Unapplied(k) : e.answer.value.rev > c.answer.value.rev)'
    BY <2>1, <2>2 DEF ExchangeAgrees
  <2>. QED
    BY <1>3, <2>3, <2>4, <2>5 DEF ExchangeAgrees
<1>8. CASE calls[i].op = "exchange.setValue"
  <2>1. PICK m \in Cells : /\ m = calls[i].arg.index /\ world'.rev = world.rev + 1
                           /\ world'.table = [world.table EXCEPT ![m] = calls[i].arg.value]
                           /\ d.answer.value.rev = world.rev + 1
    BY <1>8 DEF AnsweredAs, Served, Dated, Changing
  <2>2. d \in Unapplied(m)' /\ d.arg.index = m
    BY <1>1, <1>8, <2>1 DEF Unapplied, AppliedSave
  <2>3. world'.table[m] = d.arg.value /\ \A k \in Cells : k # m => world'.table[k] = world.table[k]
    BY <1>0, <1>1, <2>1
  <2>4. \A k : k # m => Unapplied(k)' = Unapplied(k)
    <3>1. \A k : k # m => d \notin Unapplied(k)'
      BY <2>2 DEF Unapplied
    <3>. QED
      BY <1>5, <1>6, <3>1
  <2>5. \A c \in ToSet(calls) :
           c.op \in TableReads \cup {"exchange.setValue"} /\ c.answer.state = "fulfilled"
              => c.answer.value.rev \in 0 .. world.rev
    <3>1. \A c \in ToSet(calls) : c.answer.state = "fulfilled"
                                    => TypedValue(c, c.answer.value, world.rev)
      BY DEF PInv, InFlight, Typed
    <3>. QED
      BY <3>1 DEF TypedValue, Changing
  <2>6. ASSUME NEW c \in ToSet(calls'), c.op \in TableReads, c.answer.state = "fulfilled"
        PROVE  AgreesSince(c.answer.value.table, c.answer.value.rev)'
    <3>1. c \in ToSet(calls)
      BY <1>1, <1>8, <2>6 DEF TableReads
    <3>2. c.answer.value.rev \in 0 .. world.rev
      BY <2>5, <2>6, <3>1
    <3>3. d.answer.value.rev > c.answer.value.rev
      BY <1>0, <2>1, <3>2
    <3>4. AgreesSince(c.answer.value.table, c.answer.value.rev)
      BY <2>6, <3>1 DEF ExchangeAgrees
    <3>c. DOMAIN c.answer.value.table \subseteq Cells
      <4>1. CallOK(c)
        BY <3>1 DEF IInv, InFlight
      <4>2. c.answer.value.table \in OwnTables \cup OwnRows
        BY <2>6, <4>1 DEF CallOK, ValueOK, TableReads
      <4>. QED
        BY <4>2, TablesAreShown
    <3>5. ASSUME NEW k \in DOMAIN c.answer.value.table, c.answer.value.table[k] # world'.table[k]
          PROVE  \E e \in Unapplied(k)' : e.answer.value.rev > c.answer.value.rev
      <4>1. CASE k = m
        BY <2>2, <3>3, <4>1
      <4>2. CASE k # m
        <5>1. world'.table[k] = world.table[k] /\ Unapplied(k)' = Unapplied(k)
          BY <2>3, <2>4, <3>c, <4>2
        <5>. QED
          BY <3>4, <3>5, <5>1 DEF AgreesSince
      <4>. QED
        BY <4>1, <4>2
    <3>. QED
      BY <3>5 DEF AgreesSince
  <2>7. ASSUME NEW table \in {hooks.tableData, hooks.searchResults}, table # Null,
               NEW k \in DOMAIN table, Unapplied(k)' = {}
        PROVE  table[k] = world'.table[k]
    <3>c. k \in Cells
      <4>1. table \in OwnTables \cup OwnRows
        BY <2>7 DEF IInv, ExchangeFits
      <4>. QED
        BY <4>1, TablesAreShown
    <3>1. k # m
      BY <2>2, <2>7
    <3>2. Unapplied(k) = {} /\ world'.table[k] = world.table[k]
      BY <2>3, <2>4, <2>7, <3>1, <3>c
    <3>. QED
      BY <2>7, <3>2 DEF ExchangeAgrees
  <2>8. ASSUME NEW k \in Cells, NEW c \in Unapplied(k)'
        PROVE  \/ c.arg.value = world'.table[k]
               \/ \E e \in Unapplied(k)' : e.answer.value.rev > c.answer.value.rev
    <3>1. CASE k = m
      <4>1. CASE c = d
        BY <2>3, <3>1, <4>1
      <4>2. CASE c \in Unapplied(k)
        <5>1. c.answer.value.rev \in 0 .. world.rev
          BY <2>5, <4>2 DEF Unapplied, AppliedSave
        <5>2. d.answer.value.rev > c.answer.value.rev
          BY <1>0, <2>1, <5>1
        <5>. QED
          BY <2>2, <3>1, <5>2
      <4>. QED
        BY <1>6, <4>1, <4>2
    <3>2. CASE k # m
      <4>1. world'.table[k] = world.table[k] /\ Unapplied(k)' = Unapplied(k)
        BY <2>3, <2>4, <3>2
      <4>. QED
        BY <2>8, <4>1 DEF ExchangeAgrees
    <3>. QED
      BY <3>1, <3>2
  <2>9. (\A table \in {hooks.tableData, hooks.searchResults} :
            table # Null => \A k \in DOMAIN table : Unapplied(k) = {} => table[k] = world.table[k])'
    BY <1>0, <2>7
  <2>. QED
    BY <1>3, <2>6, <2>8, <2>9 DEF ExchangeAgrees
<1>. QED
  BY <1>2, <1>7, <1>8

\* What is known of the exchange page is kept by an answer.
LEMMA AnswerKeepsExchange ==
  ASSUME IInv, PInv, NEW i \in DOMAIN calls, NEW d, AnsweredAs(i, d), hooks.page = "exchange"
  PROVE  ExchangeInv'
<1>0. ExchangeInv /\ hooks' = hooks /\ hist' = hist
  BY DEF PInv, AnsweredAs
<1>1. (Exchange!TypeOK)'
  BY <1>0 DEF ExchangeInv, Exchange!TypeOK, Exchange!HistoryOK
<1>2. EditorWaits'
  <2>1. (\E c \in ToSet(calls) : c.op = "exchange.setValue")
           => \E c \in ToSet(calls') : c.op = "exchange.setValue"
    BY DEF AnsweredAs, Served
  <2>. QED
    BY <1>0, <2>1 DEF ExchangeInv, EditorWaits
<1>3. \A c \in ToSet(calls') : c.op \in TableReads \cup {"exchange.setValue"}
  BY <1>0, AnswerTyped DEF ExchangeInv
<1>4. TablesKnown'
  <2>. SUFFICES ASSUME ~hist.disturbed
                PROVE  (\E c \in ToSet(calls) : Disturbs(c))' \/ ExchangeAgrees'
    BY <1>0 DEF TablesKnown
  <2>1. CASE \E c \in ToSet(calls) : Disturbs(c)
    <3>1. PICK c \in ToSet(calls) : Disturbs(c)
      BY <2>1
    <3>2. c \in ToSet(calls')
      BY <3>1 DEF Disturbs, AnsweredAs
    <3>3. Disturbs(c)'
      BY <1>0, <3>1 DEF Disturbs
    <3>. QED
      BY <3>2, <3>3
  <2>2. CASE d.answer.state = "rejected"
    <3>1. d \in ToSet(calls')
      BY DEF AnsweredAs
    <3>. QED
      BY <2>2, <3>1 DEF Disturbs
  <2>3. CASE ExchangeAgrees /\ d.answer.state = "fulfilled"
    BY <2>3, AnswerKeepsAgreement
  <2>4. d.answer.state \in {"rejected", "fulfilled"}
    BY DEF AnsweredAs, Served
  <2>. QED
    BY <1>0, <2>1, <2>2, <2>3, <2>4 DEF ExchangeInv, TablesKnown
<1>. QED
  BY <1>0, <1>1, <1>2, <1>3, <1>4 DEF ExchangeInv

-----------------------------------------------------------------------------
\* A step of the mounted page keeps PInv when it keeps what is known of the page.
LEMMA StepKeepsPInv ==
  ASSUME PInv, StepTyped, UNCHANGED <<route, left>>,
         hooks.page = "dashboard" => DashboardInv',
         hooks.page = "actions"   => ActionsInv',
         hooks.page = "exchange"  => ExchangeInv',
         hooks.page = "logs"      => LogsInv',
         hooks.page = "redis"     => RedisMonitorInv',
         hooks.page = "versions"  => VersionsInv',
         hooks.page = "metrics"   => MetricsInv',
         hooks.page = "alerts"    => AlertsInv',
         hooks.page = "clients"   => ClientsInv',
         hooks.page = "system"    => SystemInv'
  PROVE  PInv'
<1>1. /\ hooks'.page = hooks.page /\ hooks'.page = Page[route'] /\ events' \in Nat /\ WorldOK'
      /\ world.rev \in Nat /\ world'.rev \in Nat /\ world.rev <= world'.rev
  BY DEF PInv, StepTyped
<1>2. \A c \in InFlight : Typed(c, world'.rev)
  <2>1. \A c \in InFlight : Typed(c, world.rev)
    BY DEF PInv
  <2>. QED
    BY <1>1, <2>1, TypedGrows
<1>3. \A c \in InFlight' : c \in InFlight \/ Typed(c, world'.rev)
  BY DEF InFlight, StepTyped
<1>4. \A c \in InFlight' : Typed(c, world'.rev)
  BY <1>2, <1>3
<1>. QED
  BY <1>1, <1>4 DEF PInv

\* Every step of the mounted page does.
LEMMA PageStepKeepsPInv ==
  ASSUME IInv, PInv, PageStep
  PROVE  PInv'
<1>1. IInv' /\ UNCHANGED <<route, left>>
  BY PageStepKeepsIInv DEF PageStep
<1>2. hooks.page \in PageNames
  BY PageOfLink DEF IInv, PInv
<1>3. CASE hooks.page \in {"dashboard", "actions", "exchange", "logs", "redis"}
  <2>1. /\ hooks.page = "dashboard" => Dashboard!Next
        /\ hooks.page = "actions"   => Actions!Next
        /\ hooks.page = "exchange"  => Exchange!Next
        /\ hooks.page = "logs"      => Logs!Next
        /\ hooks.page = "redis"     => RedisMonitor!Next
    BY <1>3 DEF PageStep
  <2>2. hooks.page = "dashboard" => StepTyped /\ DashboardInv'
    BY <2>1, DashboardStepKeeps
  <2>3. hooks.page = "actions" => StepTyped /\ ActionsInv'
    BY <2>1, ActionsStepKeeps
  <2>4. hooks.page = "exchange" => StepTyped /\ ExchangeInv'
    BY <1>1, <2>1, ExchangeStepKeeps
  <2>5. hooks.page = "logs" => StepTyped /\ LogsInv'
    BY <2>1, LogsStepKeeps
  <2>6. hooks.page = "redis" => StepTyped /\ RedisMonitorInv'
    BY <2>1, RedisMonitorStepKeeps
  <2>. QED
    BY <1>1, <1>3, <2>2, <2>3, <2>4, <2>5, <2>6, StepKeepsPInv
<1>4. CASE hooks.page \in {"versions", "metrics", "alerts", "clients", "system"}
  <2>1. /\ hooks.page = "versions" => Versions!Next
        /\ hooks.page = "metrics"  => Metrics!Next
        /\ hooks.page = "alerts"   => AlertsView!Next
        /\ hooks.page = "clients"  => ClientsView!Next
        /\ hooks.page = "system"   => System!Next
    BY <1>4 DEF PageStep
  <2>2. hooks.page = "versions" => StepTyped /\ VersionsInv'
    BY <2>1, VersionsStepKeeps
  <2>3. hooks.page = "metrics" => StepTyped /\ MetricsInv'
    BY <1>1, <2>1, MetricsStepKeeps
  <2>4. hooks.page = "alerts" => StepTyped /\ AlertsInv'
    BY <2>1, AlertsStepKeeps
  <2>5. hooks.page = "clients" => StepTyped /\ ClientsInv'
    BY <2>1, ClientsStepKeeps
  <2>6. hooks.page = "system" => StepTyped /\ SystemInv'
    BY <2>1, SystemStepKeeps
  <2>. QED
    BY <1>1, <1>4, <2>2, <2>3, <2>4, <2>5, <2>6, StepKeepsPInv
<1>. QED
  BY <1>2, <1>3, <1>4 DEF PageNames

\* So does an answer to one of its calls.
LEMMA AnsweredKeepsPInv ==
  ASSUME IInv, PInv, Answered
  PROVE  PInv'
<1>1. PICK i \in DOMAIN calls : \E d : AnsweredAs(i, d)
  BY SomeCallIsAnswered
<1>2. PICK d : AnsweredAs(i, d)
  BY <1>1
<1>3. StepTyped /\ UNCHANGED <<route, left>>
  BY <1>2, AnswerTyped DEF AnsweredAs
<1>4. /\ hooks.page = "dashboard" => DashboardInv'
      /\ hooks.page = "actions"   => ActionsInv'
      /\ hooks.page = "redis"     => RedisMonitorInv'
      /\ hooks.page = "versions"  => VersionsInv'
  BY <1>2, AnswerKeepsLists
<1>5. /\ hooks.page = "metrics" => MetricsInv'
      /\ hooks.page = "alerts"  => AlertsInv'
      /\ hooks.page = "clients" => ClientsInv'
      /\ hooks.page = "system"  => SystemInv'
  BY <1>2, AnswerKeepsOthers
<1>6. hooks.page = "logs" => LogsInv'
  BY <1>2, AnswerKeepsLogs
<1>7. hooks.page = "exchange" => ExchangeInv'
  BY <1>2, AnswerKeepsExchange
<1>. QED
  BY <1>3, <1>4, <1>5, <1>6, <1>7, StepKeepsPInv

-----------------------------------------------------------------------------
\* A step that leaves the mounted page alone: nothing happens in the control
\* plane unless calls of other pages are in flight, and then the exchange page
\* makes no promise.
LEMMA ElsewhereKeepsPInv ==
  ASSUME PInv, UNCHANGED <<hooks, calls, hist>>, hooks.page = Page[route'], events' \in Nat,
         WorldOK', world.rev <= world'.rev,
         \A c \in InFlight' : c \in InFlight \/ Typed(c, world'.rev),
         left # EmptyBag \/ UNCHANGED <<world, left>>
  PROVE  PInv'
<1>1. world.rev \in Nat /\ world'.rev \in Nat
  BY DEF PInv, WorldOK
<1>2. \A c \in InFlight' : Typed(c, world'.rev)
  <2>1. \A c \in InFlight : Typed(c, world.rev)
    BY DEF PInv
  <2>. QED
    BY <1>1, <2>1, TypedGrows
<1>3. \A n \in Nat : n <= world.rev => n <= world'.rev
  BY <1>1
<1>4. hooks.page = "dashboard" => DashboardInv'
  <2>. SUFFICES ASSUME DashboardInv PROVE DashboardInv'
    BY DEF PInv
  <2>1. hist.acked \in Nat /\ hist.acked <= world'.rev
    BY <1>3 DEF DashboardInv, Dashboard!TypeOK, Dashboard!HistoryOK
  <2>. QED
    BY <2>1 DEF DashboardInv, Dashboard!TypeOK, Dashboard!HistoryOK, Due, UpToDate
<1>5. hooks.page = "actions" => ActionsInv'
  <2>. SUFFICES ASSUME ActionsInv PROVE ActionsInv'
    BY DEF PInv
  <2>1. hist.acked \in Nat /\ hist.acked <= world'.rev
    BY <1>3 DEF ActionsInv, Actions!TypeOK, Actions!HistoryOK
  <2>. QED
    BY <2>1 DEF ActionsInv, Actions!TypeOK, Actions!HistoryOK, Due, UpToDate
<1>6. hooks.page = "redis" => RedisMonitorInv'
  <2>. SUFFICES ASSUME RedisMonitorInv PROVE RedisMonitorInv'
    BY DEF PInv
  <2>1. hist.acked \in Nat /\ hist.acked <= world'.rev /\ hist.entered \in Nat
        /\ hist.entered <= world'.rev
    BY <1>3 DEF RedisMonitorInv, RedisMonitor!TypeOK
  <2>. QED
    BY <2>1 DEF RedisMonitorInv, RedisMonitor!TypeOK, RedisMonitor!OneRestoreAtATime,
       RedisMonitor!Restoring, Due, UpToDate
<1>7. hooks.page = "exchange" => ExchangeInv'
  <2>. SUFFICES ASSUME ExchangeInv PROVE ExchangeInv'
    BY DEF PInv
  <2>1. TablesKnown'
    <3>1. (\E c \in ToSet(calls) : Disturbs(c)) => (\E c \in ToSet(calls) : Disturbs(c))'
      BY DEF Disturbs
    <3>2. ExchangeAgrees => UNCHANGED <<world, left>>
      BY DEF ExchangeAgrees
    <3>3. ExchangeAgrees => ExchangeAgrees'
      BY <3>2 DEF ExchangeAgrees, Unapplied, AppliedSave, AgreesSince
    <3>. QED
      BY <3>1, <3>3 DEF ExchangeInv, TablesKnown
  <2>2. EditorWaits'
    BY DEF ExchangeInv, EditorWaits
  <2>. QED
    BY <2>1, <2>2 DEF ExchangeInv, Exchange!TypeOK, Exchange!HistoryOK
<1>8. hooks.page = "logs" => LogsInv'
  BY DEF PInv, LogsInv, Logs!TypeOK, LastForSelected, LastOf
<1>9. hooks.page = "versions" => VersionsInv'
  BY DEF PInv, VersionsInv, Versions!TypeOK, Versions!HistoryOK, UpToDate
<1>10. hooks.page = "metrics" => MetricsInv'
  BY DEF PInv, MetricsInv, Metrics!TypeOK
<1>11. hooks.page = "alerts" => AlertsInv'
  BY DEF PInv, AlertsInv, AlertsView!TypeOK, AlertsView!AllClear
<1>12. (hooks.page = "clients" => ClientsInv') /\ (hooks.page = "system" => SystemInv')
  BY DEF PInv, ClientsInv, ClientsView!TypeOK, SystemInv, System!TypeOK
<1>. QED
  BY <1>2, <1>4, <1>5, <1>6, <1>7, <1>8, <1>9, <1>10, <1>11, <1>12 DEF PInv

\* A call of a page that was left is answered, or its handler runs on.
LEMMA LeftStepKeepsPInv ==
  ASSUME IInv, PInv, LeftStep
  PROVE  PInv'
<1>1. PICK c \in BagToSet(left) : LeftServed(c) \/ LeftContinues(c)
  BY DEF LeftStep
<1>2. c \in InFlight /\ CallOK(c) /\ Typed(c, world.rev) /\ WorldOK /\ WorldFits(world)
      /\ world.rev \in Nat
  BY DEF IInv, PInv, InFlight, WorldOK
<1>3. UNCHANGED <<hooks, calls, hist, events, route>>
  BY <1>1 DEF LeftServed, LeftContinues
<1>4. left # EmptyBag
  BY <1>1 DEF EmptyBag, SetToBag, BagToSet
<1>5. ASSUME NEW d, WorldOK', world.rev <= world'.rev, d \in InFlight \/ Typed(d, world'.rev),
             BagToSet(left') \subseteq BagToSet(left) \cup {d}
      PROVE  PInv'
  <2>1. \A e \in InFlight' : e \in InFlight \/ Typed(e, world'.rev)
    BY <1>3, <1>5 DEF InFlight
  <2>2. events' \in Nat /\ hooks.page = Page[route']
    BY <1>3 DEF PInv
  <2>. QED
    BY <1>3, <1>4, <1>5, <2>1, <2>2, ElsewhereKeepsPInv
<1>6. CASE LeftServed(c)
  <2>1. PICK o \in Outcomes(c) :
          /\ world' = o.world
          /\ left' \in {BagRemove(left, c),
                        BagAdd(BagRemove(left, c), [c EXCEPT !.answer = Promise(c.op, o.response)])}
    BY <1>6 DEF LeftServed
  <2>. DEFINE d == [c EXCEPT !.answer = Promise(c.op, o.response)]
  <2>2. Served(c, d, world')
    BY <1>2, <2>1, OutcomeTyped
  <2>3. left' \in {BagRemove(left, c), BagAdd(BagRemove(left, c), d)}
    BY <2>1
  <2>. HIDE DEF d
  <2>4. BagToSet(left') \subseteq BagToSet(left) \cup {d}
    BY <2>3, BagElements
  <2>5. Typed(d, world'.rev) /\ world.rev <= world'.rev /\ WorldTyped(world')
    BY <2>2 DEF Served
  <2>6. WorldOK'
    BY <2>5 DEF WorldTyped, WorldOK, FileTyped
  <2>. QED
    BY <1>5, <2>4, <2>5, <2>6
<1>7. CASE LeftContinues(c)
  <2>1. CASE c.op = "redis.backup" /\ c.answer.state = "fulfilled" /\ c.answer.value # Null
    <3>1. /\ world' = [world EXCEPT !.files = world.files \cup {c.answer.value}]
          /\ left' = BagRemove(left, c)
      BY <1>7, <2>1 DEF LeftContinues
    <3>2. FileTyped(c.answer.value)
      BY <1>2, <2>1 DEF Typed, TypedValue
    <3>3. /\ world'.rev = world.rev /\ world'.queue = world.queue /\ world'.table = world.table
          /\ world'.updates = world.updates
          /\ world'.firing = world.firing /\ world'.files = world.files \cup {c.answer.value}
      BY <1>2, <3>1 DEF WorldFits
    <3>4. WorldOK' /\ world.rev <= world'.rev
      BY <1>2, <3>2, <3>3 DEF WorldOK, FileTyped
    <3>5. BagToSet(left') \subseteq BagToSet(left) \cup {c}
      BY <3>1, BagElements
    <3>. QED
      BY <1>2, <1>5, <3>4, <3>5
  <2>2. CASE c.op = "file.text" /\ c.answer.state = "fulfilled" /\ c.answer.value # Null
    <3>. DEFINE d == Call("redis.restore", c.answer.value)
    <3>1. world' = world /\ left' = BagAdd(BagRemove(left, c), d)
      BY <1>7, <2>2 DEF LeftContinues
    <3>2. Typed(d, world'.rev)
      BY DEF Call, Pending, Typed
    <3>. HIDE DEF d
    <3>3. BagToSet(left') \subseteq BagToSet(left) \cup {d}
      BY <3>1, BagElements
    <3>4. WorldOK' /\ world.rev <= world'.rev
      BY <1>2, <3>1 DEF WorldOK
    <3>. QED
      BY <1>5, <3>2, <3>3, <3>4
  <2>3. CASE ~ (c.op \in {"redis.backup", "file.text"} /\ c.answer.state = "fulfilled"
                /\ c.answer.value # Null)
    <3>1. world' = world /\ left' = BagRemove(left, c)
      BY <1>7, <2>3 DEF LeftContinues
    <3>2. BagToSet(left') \subseteq BagToSet(left) \cup {c}
      BY <3>1, BagElements
    <3>3. WorldOK' /\ world.rev <= world'.rev
      BY <1>2, <3>1 DEF WorldOK
    <3>. QED
      BY <1>2, <1>5, <3>2, <3>3
  <2>. QED
    BY <2>1, <2>2, <2>3
<1>. QED
  BY <1>1, <1>6, <1>7

-----------------------------------------------------------------------------
\* The mounted page as its effects leave it when it is mounted.
Mounted ==
    /\ hooks.page \in PageNames /\ WorldOK
    /\ hooks = Mount[hooks.page].hooks /\ calls = Mount[hooks.page].calls
    /\ \/ hist = Mount[hooks.page].hist /\ left = EmptyBag
       \/ hist = IF "disturbed" \in DOMAIN Mount[hooks.page].hist
                 THEN [Mount[hooks.page].hist EXCEPT !.disturbed = left # EmptyBag]
                 ELSE Mount[hooks.page].hist

\* What PInv says of the mounted page.
PageKnown ==
    /\ hooks.page = "dashboard" => DashboardInv
    /\ hooks.page = "actions"   => ActionsInv
    /\ hooks.page = "exchange"  => ExchangeInv
    /\ hooks.page = "logs"      => LogsInv
    /\ hooks.page = "redis"     => RedisMonitorInv
    /\ hooks.page = "versions"  => VersionsInv
    /\ hooks.page = "metrics"   => MetricsInv
    /\ hooks.page = "alerts"    => AlertsInv
    /\ hooks.page = "clients"   => ClientsInv
    /\ hooks.page = "system"    => SystemInv

\* The calls of a page that was mounted were just sent.
LEMMA MountSends == Mounted => \A c \in ToSet(calls) : JustSent(c)
<1>. SUFFICES ASSUME Mounted PROVE \A c \in ToSet(calls) : JustSent(c)
  OBVIOUS
<1>1. calls = Mount[hooks.page].calls
  BY DEF Mounted
<1>2. \A c, e : ToSet(<<c>>) = {c} /\ ToSet(<<c, e>>) = {c, e}
  BY DEF ToSet
<1>3. CASE hooks.page \in {"dashboard", "logs"}
  BY <1>1, <1>2, <1>3
     DEF Mount, JustSent, Dashboard!MountCalls, Dashboard!Call, Dashboard!Pending,
         Logs!MountCalls, Logs!Call, Logs!Pending
<1>4. CASE hooks.page \in {"actions", "exchange", "redis", "versions"}
  BY <1>1, <1>2, <1>4
     DEF Mount, JustSent, Actions!MountCalls, Actions!ListCall, Actions!Call, Actions!Pending,
         Exchange!MountCalls, Exchange!TableCall, Exchange!Call, Exchange!Pending,
         RedisMonitor!MountCalls, RedisMonitor!InfoCall, RedisMonitor!Call, RedisMonitor!Pending,
         Versions!MountCalls, Versions!Call, Versions!Pending
<1>5. CASE hooks.page \in {"metrics", "alerts", "clients", "system"}
  BY <1>1, <1>2, <1>5
     DEF Mount, JustSent, Metrics!MountCalls, Metrics!RangeCall, Metrics!Call, Metrics!Pending,
         AlertsView!MountCalls, AlertsView!AlertsCall, AlertsView!Call, AlertsView!Pending,
         ClientsView!MountCalls, ClientsView!Call, ClientsView!Pending,
         System!MountCalls, System!SystemCall, System!Call, System!Pending
<1>. QED
  BY <1>3, <1>4, <1>5 DEF Mounted, PageNames

\* What is known of a page holds when it is mounted.
LEMMA MountIsKnown == Mounted => PageKnown
<1>. SUFFICES ASSUME Mounted PROVE PageKnown
  OBVIOUS
<1>0. world.rev \in Nat /\ 0 <= world.rev
  BY DEF Mounted, WorldOK
<1>p. \A c \in ToSet(calls) : c.answer.state = "pending"
  BY MountSends DEF JustSent
<1>s. \A c, e : ToSet(<<c>>) = {c} /\ ToSet(<<c, e>>) = {c, e}
  BY DEF ToSet
<1>b. PICK b \in BOOLEAN : b = (left # EmptyBag)
  OBVIOUS
<1>d. /\ b = FALSE => left = EmptyBag
      /\ \/ hist = Mount[hooks.page].hist /\ left = EmptyBag
         \/ "disturbed" \in DOMAIN Mount[hooks.page].hist
            /\ hist = [Mount[hooks.page].hist EXCEPT !.disturbed = b]
         \/ "disturbed" \notin DOMAIN Mount[hooks.page].hist /\ hist = Mount[hooks.page].hist
  BY <1>b DEF Mounted
<1>h. ASSUME Mount[hooks.page].hist = Undisturbed
      PROVE  /\ HistoryOK /\ hist.acked = 0 /\ hist.seen = 0
             /\ ~hist.disturbed => left = EmptyBag
  <2>1. "disturbed" \in DOMAIN Undisturbed
    BY DEF Undisturbed
  <2>2. CASE hist = Undisturbed /\ left = EmptyBag
    BY <2>2 DEF Undisturbed, HistoryOK
  <2>3. CASE hist = [Undisturbed EXCEPT !.disturbed = b]
    <3>1. hist = [acked |-> 0, seen |-> 0, disturbed |-> b]
      BY <2>3 DEF Undisturbed
    <3>. QED
      BY <1>d, <3>1 DEF HistoryOK
  <2>. QED
    BY <1>d, <1>h, <2>1, <2>2, <2>3
<1>1. CASE hooks.page = "dashboard"
  <2>1. hooks = Dashboard!InitialHooks /\ calls = Dashboard!MountCalls
    BY <1>1 DEF Mounted, Mount
  <2>2. HistoryOK /\ hist.acked = 0
    BY <1>1, <1>h DEF Mount
  <2>3. (Dashboard!TypeOK)
    BY <2>1, <2>2 DEF Dashboard!TypeOK, Dashboard!HistoryOK, HistoryOK, Dashboard!InitialHooks
  <2>4. calls = <<Call("services.list", Null), Call("versions.list", Null)>>
    BY <2>1 DEF Dashboard!MountCalls, Dashboard!Call, Call, Dashboard!Pending, Pending
  <2>5. LoadLeads(calls)
    BY <2>4 DEF LoadLeads, Call
  <2>6. ToSet(calls) = {Call("services.list", Null), Call("versions.list", Null)}
    BY <1>s, <2>4
  <2>7. Due("services.list", hist.acked)
    BY <2>6, <1>p DEF Due, Call, Pending
  <2>8. hooks.restarting = Null
    BY <2>1 DEF Dashboard!InitialHooks
  <2>9. \A c \in ToSet(calls) : c.op \in {"services.list", "versions.list", "services.restart"}
    BY <2>6 DEF Call
  <2>. QED
    BY <1>0, <1>1, <2>1, <2>2, <2>3, <2>5, <2>7, <2>8, <2>9
       DEF PageKnown, DashboardInv, LoadsFirst, Dashboard!InitialHooks
<1>2. CASE hooks.page = "actions"
  <2>1. hooks = Actions!InitialHooks /\ calls = <<Call("actions.list", Null)>>
    BY <1>2 DEF Mounted, Mount, Actions!MountCalls, Actions!ListCall, Actions!Call, Call,
       Actions!Pending, Pending
  <2>2. HistoryOK /\ hist.acked = 0
    BY <1>2, <1>h DEF Mount
  <2>3. Actions!TypeOK
    BY <2>1, <2>2 DEF Actions!TypeOK, Actions!HistoryOK, HistoryOK, Actions!InitialHooks
  <2>4. Due("actions.list", hist.acked)
    BY <1>s, <2>1, <1>p DEF Due, Call, Pending
  <2>. QED
    BY <1>0, <1>2, <2>1, <2>2, <2>3, <2>4 DEF PageKnown, ActionsInv, Actions!InitialHooks
<1>3. CASE hooks.page = "exchange"
  <2>1. hooks = Exchange!InitialHooks /\ calls = <<Call("exchange.getTable", Null)>>
    BY <1>3 DEF Mounted, Mount, Exchange!MountCalls, Exchange!TableCall, Exchange!Call, Call,
       Exchange!Pending, Pending
  <2>2. HistoryOK /\ (~hist.disturbed => left = EmptyBag)
    BY <1>3, <1>h DEF Mount
  <2>3. Exchange!TypeOK
    BY <2>1, <2>2
       DEF Exchange!TypeOK, Exchange!HistoryOK, HistoryOK, Exchange!InitialHooks, Exchange!Text
  <2>4. ToSet(calls) = {Call("exchange.getTable", Null)}
    BY <1>s, <2>1
  <2>5. \A c \in ToSet(calls) : c.op = "exchange.getTable" /\ c.answer.state = "pending"
    BY <2>4, <1>p DEF Call
  <2>6. EditorWaits
    BY <2>1 DEF EditorWaits, Exchange!EditorShown, Exchange!InitialHooks
  <2>7. left = EmptyBag => ExchangeAgrees
    <3>1. \A k : Unapplied(k) = {}
      BY <2>5 DEF Unapplied, AppliedSave
    <3>2. hooks.tableData = Null /\ hooks.searchResults = Null
      BY <2>1 DEF Exchange!InitialHooks
    <3>3. \E c \in ToSet(calls) : c.op = "exchange.getTable"
      BY <2>4 DEF Call
    <3>. QED
      BY <2>5, <3>1, <3>2, <3>3 DEF ExchangeAgrees
  <2>8. TablesKnown
    BY <2>2, <2>7 DEF TablesKnown
  <2>9. DOMAIN hooks = ExchangeHooks
    BY <2>1 DEF Exchange!InitialHooks, ExchangeHooks
  <2>. QED
    BY <1>3, <2>3, <2>5, <2>6, <2>8, <2>9 DEF PageKnown, ExchangeInv, TableReads
<1>4. CASE hooks.page = "logs"
  <2>1. hooks = Logs!InitialHooks /\ hist = [overtaken |-> FALSE]
        /\ calls = <<Call("logs.getAll", Null), Call("services.list", Null)>>
    BY <1>4 DEF Mounted, Mount, Logs!MountCalls, Logs!Call, Call, Logs!Pending, Pending,
       Logs!InOrder
  <2>2. Logs!TypeOK
    BY <2>1 DEF Logs!TypeOK, Logs!InitialHooks
  <2>3. ToSet(calls) = {Call("logs.getAll", Null), Call("services.list", Null)}
    BY <1>s, <2>1
  <2>4. \A c \in ToSet(calls) : c.op # "logs.get"
    BY <2>3 DEF Call
  <2>. QED
    BY <1>4, <2>1, <2>2, <2>4 DEF PageKnown, LogsInv, Logs!InitialHooks
<1>5. CASE hooks.page = "redis"
  <2>1. hooks = RedisMonitor!InitialHooks
    BY <1>5 DEF Mounted, Mount
  <2>2. /\ hist \in [acked : Nat, seen : Nat, disturbed : BOOLEAN, entered : Nat]
        /\ hist.acked = 0 /\ hist.entered = 0
    <3>1. Mount[hooks.page].hist = RedisMonitor!NoRestore
      BY <1>5 DEF Mount
    <3>2. hist = RedisMonitor!NoRestore \/ hist = [RedisMonitor!NoRestore EXCEPT !.disturbed = b]
      BY <1>d, <3>1
    <3>3. \E e \in BOOLEAN : hist = [acked |-> 0, seen |-> 0, disturbed |-> e, entered |-> 0]
      BY <3>2 DEF RedisMonitor!NoRestore
    <3>. QED
      BY <3>3
  <2>3. RedisMonitor!TypeOK
    BY <2>1, <2>2 DEF RedisMonitor!TypeOK, RedisMonitor!InitialHooks
  <2>4. calls = <<Call("redis.info", Null)>>
    BY <1>5 DEF Mounted, Mount, RedisMonitor!MountCalls, RedisMonitor!InfoCall, RedisMonitor!Call,
       Call, RedisMonitor!Pending, Pending
  <2>5. \A i \in DOMAIN calls : ~RedisMonitor!Restoring(calls[i])
    BY <2>4 DEF Call, RedisMonitor!Restoring
  <2>6. RedisMonitor!OneRestoreAtATime
    BY <2>1, <2>5 DEF RedisMonitor!OneRestoreAtATime, RedisMonitor!InitialHooks
  <2>. QED
    BY <1>0, <1>5, <2>1, <2>2, <2>3, <2>6
       DEF PageKnown, RedisMonitorInv, RedisMonitor!InitialHooks
<1>6. CASE hooks.page = "versions"
  <2>1. hooks = Versions!InitialHooks /\ calls = <<Call("versions.list", Null)>>
    BY <1>6 DEF Mounted, Mount, Versions!MountCalls, Versions!Call, Call, Versions!Pending, Pending
  <2>2. HistoryOK /\ hist.acked = 0
    BY <1>6, <1>h DEF Mount
  <2>3. Versions!TypeOK
    BY <2>1, <2>2 DEF Versions!TypeOK, Versions!HistoryOK, HistoryOK, Versions!InitialHooks
  <2>4. \E c \in ToSet(calls) : c.op = "versions.list"
    BY <1>s, <2>1 DEF Call
  <2>. QED
    BY <1>6, <2>1, <2>2, <2>3, <2>4 DEF PageKnown, VersionsInv, Versions!InitialHooks
<1>7. CASE hooks.page = "metrics"
  <2>1. hooks = Metrics!InitialHooks
    BY <1>7 DEF Mounted, Mount
  <2>2. Metrics!FirstRange \in Ranges
    BY RangesAssumption DEF Metrics!FirstRange
  <2>3. Metrics!TypeOK
    BY <2>1, <2>2, NewChart DEF Metrics!TypeOK, Metrics!InitialHooks
  <2>. QED
    BY <1>7, <2>1, <2>3 DEF PageKnown, MetricsInv, Metrics!InitialHooks
<1>8. CASE hooks.page = "alerts"
  <2>1. hooks = AlertsView!InitialHooks /\ hist = [last |-> "none"]
        /\ calls = <<Call("prometheus.alerts", Null)>>
    BY <1>8 DEF Mounted, Mount, AlertsView!MountCalls, AlertsView!AlertsCall, AlertsView!Call, Call,
       AlertsView!Pending, Pending, AlertsView!NoAnswer
  <2>2. /\ hooks.page = "alerts" /\ hooks.activeTab = "active" /\ hooks.rules = Null
        /\ hooks.active = [alerts |-> {}, loading |-> TRUE, error |-> FALSE]
        /\ DOMAIN hooks = {"page", "activeTab", "active", "rules"}
    BY <2>1 DEF AlertsView!InitialHooks, AlertsView!Active
  <2>3. AlertsView!TypeOK
    BY <2>1, <2>2 DEF AlertsView!TypeOK
  <2>4. \A c \in ToSet(calls) : c.op = "prometheus.alerts"
    BY <1>s, <2>1 DEF Call
  <2>5. hooks.active \in [alerts : SUBSET Alerts, loading : BOOLEAN, error : BOOLEAN]
    BY <2>2
  <2>6. ~AlertsView!AllClear
    BY <2>2 DEF AlertsView!AllClear
  <2>. QED
    BY <1>8, <2>2, <2>3, <2>4, <2>5, <2>6 DEF PageKnown, AlertsInv
<1>9. CASE hooks.page = "clients"
  <2>1. hooks = ClientsView!InitialHooks
    BY <1>9 DEF Mounted, Mount
  <2>. QED
    BY <1>9, <2>1 DEF PageKnown, ClientsInv, ClientsView!TypeOK, ClientsView!InitialHooks
<1>10. CASE hooks.page = "system"
  <2>1. hooks = System!InitialHooks
    BY <1>10 DEF Mounted, Mount
  <2>. QED
    BY <1>10, <2>1 DEF PageKnown, SystemInv, System!TypeOK, System!InitialHooks
<1>. QED
  BY <1>1, <1>2, <1>3, <1>4, <1>5, <1>6, <1>7, <1>8, <1>9, <1>10 DEF Mounted, PageNames

\* A page is shown while calls of others go on.
LEMMA ShowKeepsPInv ==
  ASSUME PInv, NEW p \in PageNames, NEW others, Show(p, others), Page[route'] = p,
         world' = world, events' \in Nat, BagToSet(others) \subseteq InFlight
  PROVE  PInv'
<1>1. hooks' = Mount[p].hooks /\ calls' = Mount[p].calls /\ left' = others
  BY DEF Show
<1>2. hooks'.page = p
  BY <1>1, EachMountFits DEF MountFits
<1>3. Mounted'
  <2>1. hist' = IF "disturbed" \in DOMAIN Mount[p].hist
                THEN [Mount[p].hist EXCEPT !.disturbed = left' # EmptyBag] ELSE Mount[p].hist
    BY DEF Show
  <2>2. WorldOK'
    BY DEF PInv, WorldOK
  <2>. QED
    BY <1>1, <1>2, <2>1, <2>2 DEF Mounted
<1>4. PageKnown'
  BY <1>3, MountIsKnown, PTL
<1>5. \A c \in ToSet(calls') : JustSent(c)
  <2>1. Mounted' => (\A c \in ToSet(calls) : JustSent(c))'
    BY MountSends, PTL
  <2>. QED
    BY <1>3, <2>1
<1>6. \A c \in InFlight' : Typed(c, world'.rev)
  <2>1. \A c : JustSent(c) => Typed(c, world.rev)
    BY DEF JustSent, Typed
  <2>. QED
    BY <1>1, <1>5, <2>1 DEF PInv, InFlight
<1>7. WorldOK'
  BY <1>3 DEF Mounted
<1>. QED
  BY <1>2, <1>4, <1>6, <1>7 DEF PInv, PageKnown

\* A link and a reload.
LEMMA NavigationKeepsPInv ==
  ASSUME IInv, PInv, Reload \/ \E to \in Links : NavLink(to)
  PROVE  PInv'
<1>1. events' \in Nat
  BY BudgetAssumption DEF PInv, Reload, NavLink, Leave
<1>2. CASE Reload
  <2>1. Page[route] \in PageNames /\ route' = route /\ world' = world
    BY <1>2, PageOfLink DEF IInv, Reload
  <2>. QED
    BY <1>1, <1>2, <2>1, ShowKeepsPInv, LeftWasInFlight DEF Reload
<1>3. ASSUME NEW to \in Links, NavLink(to)
      PROVE  PInv'
  <2>1. route' = to /\ world' = world /\ Page[to] \in PageNames
    BY <1>3, PageOfLink DEF NavLink
  <2>2. CASE Page[to] = hooks.page
    <3>1. UNCHANGED <<hooks, calls, hist, left, world>>
      BY <1>3, <2>2 DEF NavLink
    <3>2. WorldOK' /\ world.rev <= world'.rev
      BY <3>1 DEF PInv, WorldOK
    <3>3. InFlight' = InFlight
      BY <3>1 DEF InFlight
    <3>. QED
      BY <1>1, <2>1, <2>2, <3>1, <3>2, <3>3, ElsewhereKeepsPInv
  <2>3. CASE Page[to] # hooks.page
    <3>1. Show(Page[to], left (+) RestrictDomain(ToBag(calls), Outlives))
      BY <1>3, <2>3 DEF NavLink
    <3>. QED
      BY <1>1, <2>1, <3>1, ShowKeepsPInv, LeftWasInFlight
  <2>. QED
    BY <2>2, <2>3
<1>. QED
  BY <1>2, <1>3

\* The application starts with a page mounted and nothing in flight elsewhere.
LEMMA InitPInv == Init => PInv
<1>. SUFFICES ASSUME Init PROVE PInv
  OBVIOUS
<1>1. PICK to \in Links : /\ route = to /\ hooks = Mount[Page[to]].hooks
                          /\ calls = Mount[Page[to]].calls /\ hist = Mount[Page[to]].hist
                          /\ events = Budget[Page[to]]
  BY DEF Init
<1>2. Page[to] \in PageNames /\ hooks.page = Page[to] /\ events \in Nat
  BY <1>1, PageOfLink, EachMountFits, BudgetAssumption DEF MountFits
<1>3. WorldOK
  <2>1. /\ world.rev = 0 /\ world.queue = {0} /\ world.files = {Backup}
        /\ world.updates = 0 /\ world.firing = {}
        /\ world.table = [c \in Cells |-> [cell |-> c, text |-> "old"]]
    BY DEF Init, InitialWorld
  <2>2. world.table \in [Cells -> Text]
    BY <2>1 DEF Text, Written
  <2>. QED
    BY <2>1, <2>2 DEF WorldOK
<1>4. left = EmptyBag
  BY DEF Init
<1>5. Mounted
  BY <1>1, <1>2, <1>3, <1>4 DEF Mounted
<1>6. PageKnown /\ \A c \in ToSet(calls) : JustSent(c)
  BY <1>5, MountIsKnown, MountSends
<1>7. BagToSet(left) = {}
  BY <1>4 DEF EmptyBag, SetToBag, BagToSet
<1>8. \A c \in InFlight : Typed(c, world.rev)
  BY <1>6, <1>7 DEF InFlight, JustSent, Typed
<1>. QED
  BY <1>1, <1>2, <1>3, <1>6, <1>8 DEF PInv, PageKnown

\* Every step keeps the invariant.
LEMMA NextKeepsPInv ==
  ASSUME IInv, PInv, [Next]_vars
  PROVE  PInv'
<1>1. CASE UNCHANGED vars
  <2>1. UNCHANGED <<hooks, calls, hist, world, events, route, left>>
    BY <1>1 DEF vars
  <2>2. WorldOK' /\ world.rev <= world'.rev /\ InFlight' = InFlight /\ events' \in Nat
        /\ hooks.page = Page[route']
    BY <2>1 DEF PInv, WorldOK, InFlight
  <2>. QED
    BY <2>1, <2>2, ElsewhereKeepsPInv
<1>. QED
  BY <1>1, PageStepKeepsPInv, AnsweredKeepsPInv, NavigationKeepsPInv, LeftStepKeepsPInv DEF Next

\* Both invariants hold in every behaviour.
LEMMA PInvAlways == Spec => [](IInv /\ PInv)
<1>1. IInv /\ PInv /\ [Next]_vars => PInv'
  BY NextKeepsPInv
<1>. QED
  BY <1>1, IInvAlways, InitPInv, PTL DEF Spec

-----------------------------------------------------------------------------
\* The state of the mounted page has its type, whatever page was there before,
\* whatever is answered and whoever changes the control plane (the state hooks
\* of all pages).
THEOREM TypeOKAlways == Spec => []TypeOK
<1>1. IInv /\ PInv => TypeOK
  BY DEF IInv, PInv, TypeOK, DashboardInv, ActionsInv, ExchangeInv, LogsInv, RedisMonitorInv,
     VersionsInv, MetricsInv, AlertsInv, ClientsInv, SystemInv
<1>. QED
  BY <1>1, PInvAlways, PTL

\* A service that is marked as restarting has a call of its own in flight, so
\* that no overlap of restarts leaves its button disabled (handleRestart of
\* DashboardPage.tsx).
THEOREM RestartMarkIsLiveAlways == Spec => []RestartMarkIsLive
<1>1. IInv /\ PInv => RestartMarkIsLive
  BY DEF PInv, DashboardInv, RestartMarkIsLive, Dashboard!RestartMarkIsLive, ToSet
<1>. QED
  BY <1>1, PInvAlways, PTL

\* At rest the dashboard shows a list read after the last restart it knows
\* done, for any number of restarts in any order of answers (handleRestart of
\* DashboardPage.tsx).
THEOREM RestartsAreShownAlways == Spec => []RestartsAreShown
<1>1. IInv /\ PInv => RestartsAreShown
  BY NoCalls
     DEF PInv, DashboardInv, RestartsAreShown, Dashboard!RestartsAreShown, Due, UpToDate
<1>. QED
  BY <1>1, PInvAlways, PTL

\* At rest the queue was read after the last injection, removal or purge the
\* page knows done (handleInject, handleRemove, handlePurge of ActionsPage.tsx).
THEOREM ChangesAreShownAlways == Spec => []ChangesAreShown
<1>1. IInv /\ PInv => ChangesAreShown
  BY NoCalls DEF PInv, ActionsInv, ChangesAreShown, Actions!ChangesAreShown, Due, UpToDate
<1>. QED
  BY <1>1, PInvAlways, PTL

\* An editor on the screen that has lost the focus is one whose save is in
\* flight, also when its row has been away and come back, so that every save,
\* failed or not, closes the editor that waits for it (saveEdit of
\* ExchangePage.tsx).
THEOREM EditorClosesAfterSaveAlways == Spec => []EditorClosesAfterSave
<1>1. IInv /\ PInv => EditorClosesAfterSave
  BY DEF PInv, ExchangeInv, EditorWaits, EditorClosesAfterSave, Exchange!EditorClosesAfterSave,
     ToSet
<1>. QED
  BY <1>1, PInvAlways, PTL

\* At rest the browse table and the rows that were found hold what the control
\* plane holds, for any number of saves, reads and searches in any order of
\* answers in which no older one follows a newer one (saveEdit of
\* ExchangePage.tsx).
THEOREM TablesAgreeAlways == Spec => []TablesAgree
<1>1. IInv /\ PInv => TablesAgree
  <2>. SUFFICES ASSUME IInv, PInv, hooks.page = "exchange", calls = <<>>, ~hist.disturbed
                PROVE  /\ hooks.tableData = world.table
                       /\ hooks.searchResults # Null =>
                             \A k \in DOMAIN hooks.searchResults :
                                hooks.searchResults[k] = world.table[k]
    BY DEF TablesAgree, Exchange!TablesAgree
  <2>1. ExchangeInv /\ ToSet(calls) = {} /\ world.table \in [Cells -> Text]
    BY NoCalls DEF PInv, WorldOK
  <2>2. ExchangeAgrees
    BY <2>1 DEF ExchangeInv, TablesKnown
  <2>3. hooks.tableData # Null /\ \A k : Unapplied(k) = {}
    BY <2>1, <2>2 DEF ExchangeAgrees, Unapplied
  <2>4. \A table \in {hooks.tableData, hooks.searchResults} :
           table # Null => \A k \in DOMAIN table : table[k] = world.table[k]
    BY <2>2, <2>3 DEF ExchangeAgrees
  <2>5. hooks.tableData \in [Cells -> Text]
    BY <2>1, <2>3 DEF ExchangeInv, Exchange!TypeOK, Exchange!Text, Exchange!Written, Text, Written
  <2>. QED
    BY <2>1, <2>3, <2>4, <2>5
<1>. QED
  BY <1>1, PInvAlways, PTL

\* At rest the pane shows the logs of the selected service, unless an answer
\* overtook an earlier one (fetchServiceLogs of LogsPage.tsx).
THEOREM PaneIsOfSelectedAlways == Spec => []PaneIsOfSelected
<1>1. IInv /\ PInv => PaneIsOfSelected
  BY NoCalls DEF PInv, LogsInv, PaneIsOfSelected, Logs!PaneIsOfSelected, LastForSelected
<1>. QED
  BY <1>1, PInvAlways, PTL

\* At rest the keys are those after every restore the page knew done when the
\* keys tab was entered (handleRestore and fetchKeys of RedisMonitorPage.tsx).
THEOREM KeysShowEarlierRestoresAlways == Spec => []KeysShowEarlierRestores
<1>1. IInv /\ PInv => KeysShowEarlierRestores
  BY NoCalls
     DEF PInv, RedisMonitorInv, KeysShowEarlierRestores, RedisMonitor!KeysShowEarlierRestores,
         Due, UpToDate
<1>. QED
  BY <1>1, PInvAlways, PTL

\* The page has one restore on its way at most, and its button is disabled
\* exactly while it has, whatever fails: two that overlap would mix the
\* elements of their lists (handleRestore of RedisMonitorPage.tsx).
THEOREM OneRestoreAtATimeAlways == Spec => []OneRestoreAtATime
<1>1. IInv /\ PInv => OneRestoreAtATime
  BY DEF PInv, RedisMonitorInv, OneRestoreAtATime
<1>. QED
  BY <1>1, PInvAlways, PTL

\* At rest the versions are those of the last check or later
\* (handleCheckUpdates of VersionsPage.tsx).
THEOREM CheckIsShownAlways == Spec => []CheckIsShown
<1>1. IInv /\ PInv => CheckIsShown
  BY NoCalls DEF PInv, VersionsInv, CheckIsShown, Versions!CheckIsShown, UpToDate
<1>. QED
  BY <1>1, PInvAlways, PTL

\* "All clear" is shown only when the last answer was a success without an
\* active alert (ActiveAlerts of AlertsPage.tsx).
THEOREM AllClearIsTrueAlways == Spec => []AllClearIsTrue
<1>1. IInv /\ PInv => AllClearIsTrue
  BY DEF PInv, AlertsInv, AllClearIsTrue, AlertsView!AllClearIsTrue
<1>. QED
  BY <1>1, PInvAlways, PTL
=============================================================================
