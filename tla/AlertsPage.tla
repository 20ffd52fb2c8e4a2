----------------------------- MODULE AlertsPage ------------------------------
(***************************************************************************)
(* The alerts page of the user interface                                   *)
(* (src/ui/src/pages/AlertsPage.tsx): the active alerts, read again every  *)
(* 15 seconds, and the alert rules, read once.                             *)
(***************************************************************************)
EXTENDS ApiClient, SequencesExt

CONSTANT Groups         \* names of the rule groups, in the order of the answer

\* The state of ActiveAlerts and of AllRules; the one whose tab is not open is
\* not mounted.
Active == [alerts |-> {}, loading |-> TRUE, error |-> FALSE]
Rules  == [groups |-> <<>>, loading |-> TRUE, expanded |-> Null]

AlertsCall == Call("prometheus.alerts", Null)
RulesCall  == Call("prometheus.rules", Null)

InitialHooks == [page |-> "alerts", activeTab |-> "active", active |-> Active, rules |-> Null]
MountCalls   == <<AlertsCall>>

\* hist.last: the last answer ActiveAlerts had.
NoAnswer == [last |-> "none"]

TypeOK ==
    /\ hooks.activeTab \in {"active", "rules"}
    /\ hooks.active # Null =>
          /\ hooks.active.alerts \subseteq Alerts
          /\ hooks.active.loading \in BOOLEAN /\ hooks.active.error \in BOOLEAN
    /\ hooks.rules # Null =>
          /\ hooks.rules.groups \in {<<>>, Groups} /\ hooks.rules.loading \in BOOLEAN
          /\ hooks.rules.expanded \in ToSet(Groups) \cup {Null}
    /\ hist \in [last : {"none", "failed", "clear", "active"}]

------------------------------------------------------------------------------
\* A tab or the refresh button mounts its component anew; answers to the old
\* one go nowhere, and its interval is cleared.
Mounted(t) ==
    IF t = "active"
    THEN [hooks EXCEPT !.activeTab = t, !.active = Active, !.rules = Null]
    ELSE [hooks EXCEPT !.activeTab = t, !.active = Null, !.rules = Rules]

TabCall(t) == IF t = "active" THEN AlertsCall ELSE RulesCall

Mount(t) ==
    /\ events > 0 /\ events' = events - 1
    /\ hooks' = Mounted(t) /\ calls' = <<TabCall(t)>> /\ hist' = NoAnswer
    /\ UNCHANGED world

SelectTab(t) == hooks.activeTab # t /\ Mount(t)
Refresh      == Mount(hooks.activeTab)

Tick_WhileLoading ==
    /\ hooks.active # Null /\ hooks.active.loading /\ Len(calls) < MaxCalls
    /\ calls' = Append(calls, AlertsCall)
    /\ UNCHANGED <<hooks, hist, world, events>>

\* The interval fires.
Tick ==
    /\ hooks.active # Null /\ Len(calls) < MaxCalls
    /\ calls' = Append(calls, AlertsCall)
    /\ UNCHANGED <<hooks, hist, world, events>>

------------------------------------------------------------------------------
AlertsAnswer_NoError(a, answer) ==
    IF answer.state = "rejected"
    THEN [a EXCEPT !.loading = FALSE]
    ELSE [alerts |-> answer.value.firing, error |-> FALSE, loading |-> FALSE]

\* fetchAlerts: an answer replaces the alerts and clears the error; a failure
\* leaves the alerts and sets it.  Prometheus answers 2xx only on success.
AlertsAnswer(a, answer) ==
    IF answer.state = "rejected"
    THEN [a EXCEPT !.error = TRUE, !.loading = FALSE]
    ELSE [alerts |-> answer.value.firing, error |-> FALSE, loading |-> FALSE]

Verdict(answer) ==
    CASE answer.state = "rejected" -> "failed"
      [] answer.state = "fulfilled" -> IF answer.value.firing = {} THEN "clear" ELSE "active"

AlertsRead(i) ==
    /\ Settled(i) /\ calls[i].op = "prometheus.alerts"
    /\ Continue([hooks EXCEPT !.active = AlertsAnswer(@, calls[i].answer)],
                Without(i), [last |-> Verdict(calls[i].answer)])

\* AllRules: the first group, if there is one, is expanded; a failure shows no
\* rules at all.
RulesRead(i) ==
    /\ Settled(i) /\ calls[i].op = "prometheus.rules"
    /\ \/ /\ IsFulfilled(i)
          /\ \E gs \in {Groups, <<>>} :
                Continue([hooks EXCEPT !.rules =
                             [groups |-> gs, loading |-> FALSE,
                              expanded |-> IF gs = <<>> THEN Null ELSE Head(gs)]],
                         Without(i), hist)
       \/ /\ ~IsFulfilled(i)
          /\ Continue([hooks EXCEPT !.rules.loading = FALSE], Without(i), hist)

ToggleGroup(g) ==
    /\ hooks.rules # Null /\ g \in ToSet(hooks.rules.groups)
    /\ Handle([hooks EXCEPT !.rules.expanded = IF @ = g THEN Null ELSE g], calls)

------------------------------------------------------------------------------
\* A spinner is on, or a button is disabled.
Busy ==
    \/ hooks.active # Null /\ hooks.active.loading
    \/ hooks.rules # Null /\ hooks.rules.loading

Clicks ==
    \/ \E t \in {"active", "rules"} : SelectTab(t)
    \/ Refresh
    \/ \E g \in ToSet(Groups) : ToggleGroup(g)

Continuations == \E i \in DOMAIN calls : AlertsRead(i) \/ RulesRead(i)

\* An alert begins to fire, or stops.
Others ==
    \E a \in Alerts :
        OthersChange([world EXCEPT !.firing = IF a \in @ THEN @ \ {a} ELSE @ \cup {a}])

Next == Clicks \/ Tick \/ Continuations \/ Others

Init ==
    /\ hooks = InitialHooks /\ calls = MountCalls /\ hist = NoAnswer
    /\ world = InitialWorld /\ events = MaxEvents

Spec == Init /\ [][Next \/ Answer]_pageVars

------------------------------------------------------------------------------
\* What the page says when it has alerts to show, cannot tell, or has none.
AllClear ==
    hooks.active # Null /\ ~hooks.active.loading /\ ~hooks.active.error
        /\ hooks.active.alerts = {}

\* "All clear" is on the screen only while the last answer the page had was a
\* success without an active alert: never because an answer failed, is awaited,
\* or arrived out of order (ActiveAlerts).
AllClearIsTrue == AllClear => hist.last = "clear"
=============================================================================
