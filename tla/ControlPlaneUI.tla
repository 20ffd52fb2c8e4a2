--------------------------- MODULE ControlPlaneUI ----------------------------
(***************************************************************************)
(* The single-page application: src/ui/src/App.tsx, its layout and the     *)
(* page that is mounted.  A link to another page unmounts the page with    *)
(* its hooks and timers; what it had in flight goes on.  A link to another *)
(* route of the same page leaves it as it is.                              *)
(***************************************************************************)
EXTENDS ApiClient, BagsExt, SequencesExt

CONSTANTS
    Ranges, Groups, Clients,
    Budget,             \* bound: events of a behaviour, by the page it starts on
    MaxElsewhere        \* bound: events left once that page was left

VARIABLES
    route,              \* the path in the address bar
    left                \* the calls that outlive the page that sent them, a bag

vars == <<hooks, calls, hist, world, events, route, left>>

Dashboard    == INSTANCE DashboardPage
Actions      == INSTANCE ActionsPage
Exchange     == INSTANCE ExchangePage
Logs         == INSTANCE LogsPage
RedisMonitor == INSTANCE RedisMonitorPage
Versions     == INSTANCE VersionsPage
Metrics      == INSTANCE MetricsPage
AlertsView   == INSTANCE AlertsPage
ClientsView  == INSTANCE ClientsPage
System       == INSTANCE SystemPage

ASSUME RangesAssumption == Ranges # {} /\ Null \notin Metrics!Charts
ASSUME ListsAssumption  == Services # {} /\ Groups \in Seq(ToSet(Groups))

------------------------------------------------------------------------------
\* The links of the sidebar, and the page each of their routes shows; any other
\* path is replaced by "/".
Links ==
    {"/", "/services", "/exchange", "/clients", "/actions", "/logs", "/redis-monitor",
     "/backups", "/system", "/settings", "/metrics", "/alerts", "/versions"}

Page ==
    [to \in Links |->
        CASE to \in {"/", "/services"}             -> "dashboard"
          [] to = "/exchange"                       -> "exchange"
          [] to = "/clients"                        -> "clients"
          [] to = "/actions"                        -> "actions"
          [] to = "/logs"                           -> "logs"
          [] to \in {"/redis-monitor", "/backups"}  -> "redis"
          [] to \in {"/system", "/settings"}        -> "system"
          [] to = "/metrics"                        -> "metrics"
          [] to = "/alerts"                         -> "alerts"
          [] to = "/versions"                       -> "versions"]

ASSUME BudgetAssumption == MaxElsewhere \in Nat /\ \A to \in Links : Budget[Page[to]] \in Nat

Mount ==
    LET M(h, cs, g) == [hooks |-> h, calls |-> cs, hist |-> g] IN
    [dashboard |-> M(Dashboard!InitialHooks, Dashboard!MountCalls, Undisturbed),
     actions   |-> M(Actions!InitialHooks, Actions!MountCalls, Undisturbed),
     exchange  |-> M(Exchange!InitialHooks, Exchange!MountCalls, Undisturbed),
     logs      |-> M(Logs!InitialHooks, Logs!MountCalls, Logs!InOrder),
     redis     |-> M(RedisMonitor!InitialHooks, RedisMonitor!MountCalls, RedisMonitor!NoRestore),
     versions  |-> M(Versions!InitialHooks, Versions!MountCalls, Undisturbed),
     metrics   |-> M(Metrics!InitialHooks, Metrics!MountCalls, Undisturbed),
     alerts    |-> M(AlertsView!InitialHooks, AlertsView!MountCalls, AlertsView!NoAnswer),
     clients   |-> M(ClientsView!InitialHooks, ClientsView!MountCalls, Undisturbed),
     system    |-> M(System!InitialHooks, System!MountCalls, Undisturbed)]

Init ==
    /\ \E to \in Links :
          LET m == Mount[Page[to]] IN
          /\ route = to /\ hooks = m.hooks /\ calls = m.calls /\ hist = m.hist
          /\ events = Budget[Page[to]]
    /\ world = InitialWorld /\ left = EmptyBag

------------------------------------------------------------------------------
\* Requests under way are handled although nobody waits for the answer.  A
\* backup still saves its file when it comes, and a restore still sends the file
\* it was reading: the handlers of an unmounted page run to their end.
IsRequest(c) == c.answer = Pending /\ Effects(c) # {}
IsHandler(c) == c.op \in {"redis.backup", "file.text"}
Outlives(c)  == IsRequest(c) \/ IsHandler(c)

\* The new page cannot see those, so it may be told less than is happening.
Show(p, others) ==
    LET m == Mount[p] IN
    /\ hooks' = m.hooks /\ calls' = m.calls /\ left' = others
    /\ hist' = IF "disturbed" \in DOMAIN m.hist
               THEN [m.hist EXCEPT !.disturbed = others # EmptyBag] ELSE m.hist

IsBlank == hooks.page = "versions" /\ Versions!Blank

Leave ==
    events > 0 /\ events' = IF events > MaxElsewhere THEN MaxElsewhere ELSE events - 1

\* A link, or the back button.
NavLink(to) ==
    /\ Leave
    /\ ~IsBlank /\ to # route
    /\ route' = to
    /\ IF Page[to] = hooks.page
       THEN UNCHANGED <<hooks, calls, hist, left>>
       ELSE Show(Page[to], left (+) RestrictDomain(ToBag(calls), Outlives))
    /\ UNCHANGED world

\* The browser loads the application anew: no handler is left.
Reload ==
    /\ Leave
    /\ Show(Page[route], RestrictDomain(left (+) ToBag(calls), IsRequest))
    /\ UNCHANGED <<route, world>>

LeftServed(c) ==
    /\ c.answer = Pending
    /\ \E o \in Outcomes(c) :
          /\ world' = o.world
          /\ left' = IF IsHandler(c)
                     THEN BagAdd(BagRemove(left, c), [c EXCEPT !.answer = Promise(c.op, o.response)])
                     ELSE BagRemove(left, c)
    /\ UNCHANGED <<hooks, calls, hist, events, route>>

LeftContinues(c) ==
    LET useful == c.answer.state = "fulfilled" /\ c.answer.value # Null
        rest   == BagRemove(left, c) IN
    /\ c.answer # Pending
    /\ world' = IF c.op = "redis.backup" /\ useful
                THEN [world EXCEPT !.files = @ \cup {c.answer.value}] ELSE world
    /\ left' = IF c.op = "file.text" /\ useful
               THEN BagAdd(rest, Call("redis.restore", c.answer.value)) ELSE rest
    /\ UNCHANGED <<hooks, calls, hist, events, route>>

LeftStep == \E c \in BagToSet(left) : LeftServed(c) \/ LeftContinues(c)

------------------------------------------------------------------------------
PageStep ==
    /\ \/ hooks.page = "dashboard" /\ Dashboard!Next
       \/ hooks.page = "actions"   /\ Actions!Next
       \/ hooks.page = "exchange"  /\ Exchange!Next
       \/ hooks.page = "logs"      /\ Logs!Next
       \/ hooks.page = "redis"     /\ RedisMonitor!Next
       \/ hooks.page = "versions"  /\ Versions!Next
       \/ hooks.page = "metrics"   /\ Metrics!Next
       \/ hooks.page = "alerts"    /\ AlertsView!Next
       \/ hooks.page = "clients"   /\ ClientsView!Next
       \/ hooks.page = "system"    /\ System!Next
    /\ UNCHANGED <<route, left>>

\* The control plane answers a call of the mounted page.
Answered == Answer /\ UNCHANGED <<route, left>>

Next == PageStep \/ Answered \/ (\E to \in Links : NavLink(to)) \/ Reload \/ LeftStep

Spec == Init /\ [][Next]_vars

\* A call in flight is answered, its continuation runs, and a timer fires; the
\* user and the others do as they please.
Continued ==
    /\ \/ hooks.page = "dashboard" /\ Dashboard!Continuations
       \/ hooks.page = "actions"   /\ Actions!Continuations
       \/ hooks.page = "exchange"  /\ Exchange!Continuations
       \/ hooks.page = "logs"      /\ Logs!Continuations
       \/ hooks.page = "redis"     /\ RedisMonitor!Continuations
       \/ hooks.page = "versions"  /\ Versions!Continuations
       \/ hooks.page = "metrics"   /\ Metrics!Continuations
       \/ hooks.page = "alerts"    /\ AlertsView!Continuations
       \/ hooks.page = "clients"   /\ ClientsView!Continuations
       \/ hooks.page = "system"    /\ System!Continuations
    /\ UNCHANGED <<route, left>>

Ticked ==
    /\ \/ hooks.page = "metrics" /\ Metrics!Tick
       \/ hooks.page = "alerts"  /\ AlertsView!Tick
    /\ UNCHANGED <<route, left>>

Fairness == WF_vars(Answered) /\ WF_vars(Continued) /\ WF_vars(Ticked)

FairSpec == Spec /\ Fairness

------------------------------------------------------------------------------
\* The state of the mounted page has its type, whatever page was there before.
TypeOK ==
    /\ route \in Links /\ hooks.page = Page[route] /\ events \in Nat /\ WorldOK
    /\ hooks.page = "dashboard" => Dashboard!TypeOK
    /\ hooks.page = "actions"   => Actions!TypeOK
    /\ hooks.page = "exchange"  => Exchange!TypeOK
    /\ hooks.page = "logs"      => Logs!TypeOK
    /\ hooks.page = "redis"     => RedisMonitor!TypeOK
    /\ hooks.page = "versions"  => Versions!TypeOK
    /\ hooks.page = "metrics"   => Metrics!TypeOK
    /\ hooks.page = "alerts"    => AlertsView!TypeOK
    /\ hooks.page = "clients"   => ClientsView!TypeOK
    /\ hooks.page = "system"    => System!TypeOK
=============================================================================
