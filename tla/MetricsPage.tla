---------------------------- MODULE MetricsPage ------------------------------
(***************************************************************************)
(* The metrics page of the user interface                                  *)
(* (src/ui/src/pages/MetricsPage.tsx): charts that are read when they are  *)
(* mounted, when the range changes, and every 30 seconds.  The charts of a *)
(* tab run the same code over different queries; one of them is modelled.  *)
(***************************************************************************)
EXTENDS ApiClient

CONSTANT Ranges         \* RANGES

\* The state of a MetricChart and of its interval timer, and of TargetsStatus.
\* data and value are those of a range; a chart without data says N/A or a dash.
Charts ==
    [data : Ranges \cup {Null}, value : {"-", "N/A", "last"}, loading : BOOLEAN,
     error : BOOLEAN, timers : SUBSET Ranges]

Chart(r) == [data |-> Null, value |-> "-", loading |-> TRUE, error |-> FALSE, timers |-> {r}]

RangeCall(r) == Call("prometheus.queryRange", r)
TargetsCall  == Call("prometheus.targets", Null)

FirstRange == CHOOSE r \in Ranges : TRUE

InitialHooks ==
    [page |-> "metrics", activeTab |-> "system", range |-> FirstRange,
     chart |-> Chart(FirstRange), targets |-> Null, loading |-> FALSE]

MountCalls == <<RangeCall(FirstRange)>>

TypeOK ==
    /\ hooks.activeTab \in {"system", "api", "targets"}
    /\ hooks.range \in Ranges
    /\ hooks.chart \in Charts \cup {Null}
    /\ hooks.targets \in [rev : Nat] \cup {Null} /\ hooks.loading \in BOOLEAN

------------------------------------------------------------------------------
\* fetchData, up to its await.
Fetching(c) == [c EXCEPT !.loading = TRUE, !.error = FALSE]

Cleared_Not(timers, r) == timers

\* The effect of a chart whose range changed: the cleanup stops the timer of
\* the old range, but nothing recalls the calls it sent.
Cleared(timers, r) == timers \ {r}

RangeEffect(r) ==
    [Fetching(hooks.chart) EXCEPT !.timers = Cleared(@, hooks.range) \cup {r}]

SelectRange(r) ==
    /\ hooks.range # r
    /\ IF hooks.chart = Null
       THEN Handle([hooks EXCEPT !.range = r], calls)
       ELSE Handle([hooks EXCEPT !.range = r, !.chart = RangeEffect(r)],
                   Append(calls, RangeCall(r)))

\* A new tab, or a new key, mounts new charts: the answers of the old ones go
\* nowhere.
SelectTab(t) ==
    /\ hooks.activeTab # t
    /\ IF t = "targets"
       THEN Handle([hooks EXCEPT !.activeTab = t, !.chart = Null, !.targets = Null,
                                 !.loading = TRUE], <<TargetsCall>>)
       ELSE Handle([hooks EXCEPT !.activeTab = t, !.chart = Chart(hooks.range),
                                 !.loading = FALSE], <<RangeCall(hooks.range)>>)

Refresh ==
    /\ hooks.chart # Null
    /\ Handle([hooks EXCEPT !.chart = Chart(hooks.range)], <<RangeCall(hooks.range)>>)

Tick_FirstRange ==
    /\ hooks.chart # Null /\ Len(calls) < MaxCalls
    /\ hooks' = [hooks EXCEPT !.chart = Fetching(@)]
    /\ calls' = Append(calls, RangeCall(FirstRange))
    /\ UNCHANGED <<hist, world, events>>

\* The interval fires, with the fetchData it was set with.
Tick ==
    /\ hooks.chart # Null /\ Len(calls) < MaxCalls
    /\ \E r \in hooks.chart.timers :
          /\ hooks' = [hooks EXCEPT !.chart = Fetching(@)]
          /\ calls' = Append(calls, RangeCall(r))
    /\ UNCHANGED <<hist, world, events>>

------------------------------------------------------------------------------
\* A success with samples, a success without, and a failure.  Only the start of
\* a call clears the error of another.
ChartAnswer(c, answer) ==
    IF answer.state = "rejected"
    THEN [c EXCEPT !.data = Null, !.value = "-", !.error = TRUE, !.loading = FALSE]
    ELSE [c EXCEPT !.data = answer.value, !.value = IF answer.value = Null THEN "N/A" ELSE "last",
                   !.loading = FALSE]

ChartRead(i) ==
    /\ Settled(i) /\ calls[i].op = "prometheus.queryRange"
    /\ Continue([hooks EXCEPT !.chart = ChartAnswer(@, calls[i].answer)], Without(i), hist)

TargetsRead(i) ==
    /\ Settled(i) /\ calls[i].op = "prometheus.targets"
    /\ Continue([hooks EXCEPT !.targets = IF IsFulfilled(i) THEN Value(i) ELSE @,
                              !.loading = FALSE],
                Without(i), hist)

\* The range of the curve that is drawn: an error takes its place.
Curve ==
    IF hooks.chart = Null \/ hooks.chart.error THEN Null ELSE hooks.chart.data

------------------------------------------------------------------------------
\* A spinner is on, or a button is disabled.
Busy == hooks.loading \/ (hooks.chart # Null /\ hooks.chart.loading)

Clicks ==
    \/ \E r \in Ranges : SelectRange(r)
    \/ \E t \in {"system", "api", "targets"} : SelectTab(t)
    \/ Refresh

Continuations == \E i \in DOMAIN calls : ChartRead(i) \/ TargetsRead(i)

Next == Clicks \/ Tick \/ Continuations

Init ==
    /\ hooks = InitialHooks /\ calls = MountCalls /\ hist = Undisturbed
    /\ world = InitialWorld /\ events = MaxEvents

Spec == Init /\ [][Next \/ Answer]_pageVars

------------------------------------------------------------------------------
\* Whether the chart shows no other range than the selected one.  A late answer
\* to a call of the former range breaks it for a while (fetchData).
ChartOfRange == Curve \in {Null, hooks.range}

\* A chart has one timer, for the selected range, however often the range was
\* changed: no change leaves a timer behind that keeps reading another range
\* (the cleanup of the effect).
OneTimer == hooks.chart # Null => hooks.chart.timers = {hooks.range}
=============================================================================
