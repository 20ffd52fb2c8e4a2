---------------------- MODULE ControlPlaneUIProperties -----------------------
(***************************************************************************)
(* What the user of the interface can rely on, on whichever page and after *)
(* any navigation.  The properties of one page are stated in its module.   *)
(***************************************************************************)
EXTENDS ControlPlaneUI

\* The dashboard does not leave a service disabled as restarting when nothing
\* is on its way for it (handleRestart of DashboardPage.tsx).
RestartMarkIsLive == hooks.page = "dashboard" => Dashboard!RestartMarkIsLive

\* The dashboard at rest shows a list read after the last restart it knows done
\* (handleRestart of DashboardPage.tsx).
RestartsAreShown == hooks.page = "dashboard" => Dashboard!RestartsAreShown

\* The queue at rest was read after the last injection, removal or purge the
\* page knows done (ActionsPage.tsx).
ChangesAreShown == hooks.page = "actions" => Actions!ChangesAreShown

\* Whatever cells were opened and closed meanwhile, no save in flight carries
\* the value of one cell to another (startEdit, saveEdit of ExchangePage.tsx).
SavesStayInTheirCell == hooks.page = "exchange" => Exchange!SavesStayInTheirCell

\* An editor on the screen that has lost the focus is one whose save is in
\* flight, whatever rows a search left meanwhile (saveEdit of ExchangePage.tsx).
EditorClosesAfterSave == hooks.page = "exchange" => Exchange!EditorClosesAfterSave

\* The browse table and the rows that were found hold at rest what the control
\* plane holds (saveEdit of ExchangePage.tsx).
TablesAgree == hooks.page = "exchange" => Exchange!TablesAgree

\* The logs at rest are those of the selected service, unless an answer
\* overtook an earlier one (fetchServiceLogs of LogsPage.tsx).
PaneIsOfSelected == hooks.page = "logs" => Logs!PaneIsOfSelected

\* The keys at rest are those after every restore the page knew done when the
\* keys tab was entered (RedisMonitorPage.tsx).
KeysShowEarlierRestores == hooks.page = "redis" => RedisMonitor!KeysShowEarlierRestores

\* The page has one restore on its way at most, and takes no other file until
\* that one has its answer (handleRestore of RedisMonitorPage.tsx).
OneRestoreAtATime == hooks.page = "redis" => RedisMonitor!OneRestoreAtATime

\* The versions at rest are those of the last check or later
\* (handleCheckUpdates of VersionsPage.tsx).
CheckIsShown == hooks.page = "versions" => Versions!CheckIsShown

\* A chart has one timer, for the selected range, after any number of changes
\* of the range, of the tab and of the page (MetricChart of MetricsPage.tsx).
OneTimer == hooks.page = "metrics" => Metrics!OneTimer

\* "All clear" is shown only on a success without an active alert (ActiveAlerts
\* of AlertsPage.tsx).
AllClearIsTrue == hooks.page = "alerts" => AlertsView!AllClearIsTrue

------------------------------------------------------------------------------
Busy ==
    CASE hooks.page = "dashboard" -> Dashboard!Busy
      [] hooks.page = "actions"   -> Actions!Busy
      [] hooks.page = "exchange"  -> Exchange!Busy
      [] hooks.page = "logs"      -> Logs!Busy
      [] hooks.page = "redis"     -> RedisMonitor!Busy
      [] hooks.page = "versions"  -> Versions!Busy
      [] hooks.page = "metrics"   -> Metrics!Busy
      [] hooks.page = "alerts"    -> AlertsView!Busy
      [] hooks.page = "clients"   -> ClientsView!Busy
      [] hooks.page = "system"    -> System!Busy

\* No page spins, or keeps a button disabled, for ever: every answer, every
\* failure and every order of them clears what its call set (the finally
\* clauses of all pages).
SpinnersStop == Busy ~> ~Busy

\* However late the answers for former ranges come, the chart ends up showing
\* the selected range and stays with it (fetchData and the timer of
\* MetricsPage.tsx).
ChartFollowsRange == <>[](hooks.page = "metrics" => Metrics!ChartOfRange)

\* If an alert keeps firing while the active alerts are on the screen, "all
\* clear" is not shown for ever, whatever answers fail or come late (the timer
\* of AlertsPage.tsx).
Firing == hooks.page = "alerts" /\ hooks.active # Null /\ world.firing # {}

AlertsAreSeen ==
    <>[]Firing => <>[](hooks.page = "alerts" => ~AlertsView!AllClear)
=============================================================================
